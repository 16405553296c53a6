--------------------------- MODULE PlanningProofs ---------------------------
(***************************************************************************)
(* Proofs about Planning: the ring of trajectory_buffer.c is a queue for   *)
(* every capacity, and a robot that is held is neither moved nor given     *)
(* anything to move by, however the planner, the cycle and the panel of    *)
(* the earlier simulator interleave.  A move of the joints arrives and is  *)
(* never faster than it said, for all postures, durations and periods, and *)
(* the profile of a path ends where the path does and keeps its limits,    *)
(* whichever of the four shapes it takes.  PATH_VALIDATION with its        *)
(* streams and checks implements the validation of PathValidation, and     *)
(* what the cycle of the earlier simulator executes is the beginning of    *)
(* one plan, the last one, that was accepted as a whole.                   *)
(***************************************************************************)
EXTENDS Planning, TLAPS, WellFoundedInduction

-----------------------------------------------------------------------------
(* The ring.                                                               *)

\* A place that is counted from the start of the storage wraps around once.
LEMMA WrapsOnce ==
    ASSUME NEW C \in Nat \ {0}, NEW k \in 0 .. 2 * C - 1
    PROVE  k % C = IF k < C THEN k ELSE k - C
<1>1. CASE k < C
  BY <1>1
<1>2. CASE k >= C
  BY <1>2
<1> QED
  BY <1>1, <1>2

Ends == 0 .. Capacity - 1

\* The writer is as many places before the reader as samples wait, and the
\* storage has the places it was made with.
RingInv ==
    /\ buffer.count \in 0 .. Capacity
    /\ buffer.readIndex \in Ends
    /\ buffer.writeIndex = (buffer.readIndex + buffer.count) % Capacity
    /\ buffer.storage = [place \in Ends |-> buffer.storage[place]]

\* The place of the n-th sample that waits, counted from 0.
PlaceOf(n) ==
    IF buffer.readIndex + n < Capacity THEN buffer.readIndex + n
    ELSE buffer.readIndex + n - Capacity

\* The places of the samples that wait, and the one that is written next, are
\* places of the storage.
LEMMA PlacesOfSamples ==
    ASSUME RingInv
    PROVE  \A n \in 0 .. Capacity :
               /\ (buffer.readIndex + n) % Capacity = PlaceOf(n)
               /\ PlaceOf(n) \in Ends
<1> TAKE n \in 0 .. Capacity
<1>1. Capacity \in Nat \ {0}
  BY BufferAssumption DEF BufferAssumption
<1>2. buffer.readIndex \in 0 .. Capacity - 1
  BY DEF RingInv, Ends
<1>3. buffer.readIndex + n \in 0 .. 2 * Capacity - 1
  BY <1>1, <1>2
<1>4. (buffer.readIndex + n) % Capacity = PlaceOf(n)
  <2>1. PICK k \in 0 .. 2 * Capacity - 1 : k = buffer.readIndex + n
    BY <1>3
  <2>2. k % Capacity = IF k < Capacity THEN k ELSE k - Capacity
    BY <1>1, WrapsOnce
  <2>3. PlaceOf(n) = IF k < Capacity THEN k ELSE k - Capacity
    BY <1>1, <1>2, <2>1 DEF PlaceOf
  <2> QED
    BY <2>1, <2>2, <2>3
<1>5. PlaceOf(n) \in Ends
  BY <1>1, <1>2 DEF PlaceOf, Ends
<1> QED
  BY <1>4, <1>5

\* What waits, without the arithmetic of the ring.
WaitingIsRing ==
    /\ Waiting = [n \in 1 .. buffer.count |-> buffer.storage[PlaceOf(n - 1)]]
    /\ Len(Waiting) = buffer.count

\* The samples that wait are the part of the ring from its read index on.
LEMMA WaitingSamples == RingInv => WaitingIsRing
<1> SUFFICES ASSUME RingInv
             PROVE  WaitingIsRing
  OBVIOUS
<1>1. Capacity \in Nat \ {0} /\ buffer.count \in 0 .. Capacity
  BY BufferAssumption DEF BufferAssumption, RingInv
<1>2. buffer.readIndex \in Int
  BY DEF RingInv, Ends
<1>3. ASSUME NEW n \in 1 .. buffer.count
      PROVE  (buffer.readIndex + n - 1) % Capacity = PlaceOf(n - 1)
  <2>1. n - 1 \in 0 .. Capacity
    BY <1>1
  <2>2. (buffer.readIndex + (n - 1)) % Capacity = PlaceOf(n - 1)
    BY <2>1, PlacesOfSamples
  <2>3. buffer.readIndex + n - 1 = buffer.readIndex + (n - 1)
    BY <1>2
  <2> QED
    BY <2>2, <2>3
<1>4. Waiting = [n \in 1 .. buffer.count |-> buffer.storage[PlaceOf(n - 1)]]
  BY <1>3 DEF Waiting
<1>5. Len(Waiting) = buffer.count
  BY <1>1, <1>4
<1> QED
  BY <1>4, <1>5 DEF WaitingIsRing

\* The same of the next state.
LEMMA NextWaitingSamples == RingInv' => WaitingIsRing'
BY WaitingSamples, PTL

\* A push keeps the ring whole and puts the sample behind what waits.
LEMMA PushPuts ==
    ASSUME RingInv, NEW sample, trajectory_buffer_push(sample)
    PROVE  RingInv' /\ Ring!Put
<1> USE DEF Ends
<1>1. Capacity \in Nat \ {0}
  BY BufferAssumption DEF BufferAssumption
<1>2. /\ buffer.count \in 0 .. Capacity - 1
      /\ buffer.readIndex \in Ends
      /\ buffer.writeIndex = (buffer.readIndex + buffer.count) % Capacity
  BY <1>1 DEF RingInv, trajectory_buffer_push, trajectory_buffer_is_full
<1>3. buffer.writeIndex = PlaceOf(buffer.count) /\ buffer.writeIndex \in Ends
  BY <1>1, <1>2, PlacesOfSamples
<1>4. /\ buffer'.count = buffer.count + 1
      /\ buffer'.readIndex = buffer.readIndex
      /\ buffer'.writeIndex = (buffer.writeIndex + 1) % Capacity
      /\ buffer'.storage = [buffer.storage EXCEPT ![buffer.writeIndex] = sample]
  BY DEF trajectory_buffer_push, Succ
<1>5. buffer'.writeIndex = (buffer'.readIndex + buffer'.count) % Capacity
  <2>1. (buffer.readIndex + (buffer.count + 1)) % Capacity = PlaceOf(buffer.count + 1)
    BY <1>1, <1>2, PlacesOfSamples
  <2>2. PICK k \in 0 .. 2 * Capacity - 1 : k = buffer.writeIndex + 1
    BY <1>1, <1>3
  <2>3. k % Capacity = IF k < Capacity THEN k ELSE k - Capacity
    BY <1>1, WrapsOnce
  <2>4. PlaceOf(buffer.count + 1) = IF k < Capacity THEN k ELSE k - Capacity
    BY <1>1, <1>2, <1>3, <2>2 DEF PlaceOf
  <2> QED
    BY <1>4, <2>1, <2>2, <2>3, <2>4
<1>6. buffer'.storage = [place \in Ends |-> buffer'.storage[place]]
  BY <1>3, <1>4 DEF RingInv
<1>7. RingInv'
  <2>1. buffer'.count \in 0 .. Capacity
    BY <1>1, <1>2, <1>4
  <2>2. buffer'.readIndex \in Ends
    BY <1>2, <1>4
  <2> QED
    BY <1>5, <1>6, <2>1, <2>2, Zenon DEF RingInv
<1>8. \A n \in 0 .. Capacity : PlaceOf(n)' = PlaceOf(n)
  BY <1>4 DEF PlaceOf
<1>9. \A n \in 1 .. buffer.count : Waiting'[n] = Waiting[n]
  <2> TAKE n \in 1 .. buffer.count
  <2>1. n - 1 \in 0 .. Capacity /\ n \in 1 .. buffer.count + 1
    BY <1>1, <1>2
  <2>2. PlaceOf(n - 1) # buffer.writeIndex
    BY <1>1, <1>2, <1>3 DEF PlaceOf
  <2>3. PlaceOf(n - 1) \in Ends
    BY <2>1, PlacesOfSamples
  <2>4. buffer'.storage[PlaceOf(n - 1)] = buffer.storage[PlaceOf(n - 1)]
    BY <1>4, <2>2, <2>3 DEF RingInv
  <2>5. Waiting[n] = buffer.storage[PlaceOf(n - 1)]
    BY WaitingSamples DEF WaitingIsRing
  <2>6. Waiting'[n] = buffer'.storage[PlaceOf(n - 1)']
    BY <1>4, <1>7, <2>1, NextWaitingSamples DEF WaitingIsRing
  <2> QED
    BY <1>8, <2>1, <2>4, <2>5, <2>6
<1>10. Len(Waiting) = buffer.count /\ Len(Waiting') = buffer.count + 1
  BY <1>4, <1>7, WaitingSamples, NextWaitingSamples DEF WaitingIsRing
<1>11. Ring!Put
  BY <1>1, <1>2, <1>9, <1>10 DEF Ring!Put
<1> QED
  BY <1>7, <1>11

\* A pop keeps the ring whole and takes the oldest of what waits.
LEMMA PopGets ==
    ASSUME RingInv, trajectory_buffer_pop
    PROVE  RingInv' /\ Ring!Get
<1> USE DEF Ends
<1>1. Capacity \in Nat \ {0}
  BY BufferAssumption DEF BufferAssumption
<1>2. /\ buffer.count \in 1 .. Capacity
      /\ buffer.readIndex \in Ends
      /\ buffer.writeIndex = (buffer.readIndex + buffer.count) % Capacity
  BY <1>1 DEF RingInv, trajectory_buffer_pop, trajectory_buffer_is_empty
<1>3. /\ buffer'.count = buffer.count - 1
      /\ buffer'.readIndex = (buffer.readIndex + 1) % Capacity
      /\ buffer'.writeIndex = buffer.writeIndex
      /\ buffer'.storage = buffer.storage
  BY DEF trajectory_buffer_pop, Succ
<1>4. buffer'.readIndex = PlaceOf(1) /\ buffer'.readIndex \in Ends
  BY <1>1, <1>3, PlacesOfSamples
<1>5. \A n \in 0 .. Capacity - 1 : PlaceOf(n)' = PlaceOf(n + 1)
  BY <1>1, <1>2, <1>4 DEF PlaceOf
<1>6. buffer'.writeIndex = (buffer'.readIndex + buffer'.count) % Capacity
  <2>1. buffer.writeIndex = PlaceOf(buffer.count)
    BY <1>1, <1>2, PlacesOfSamples
  <2>2. PICK k \in 0 .. 2 * Capacity - 1 : k = buffer'.readIndex + buffer'.count
    BY <1>1, <1>2, <1>3, <1>4
  <2>3. k % Capacity = IF k < Capacity THEN k ELSE k - Capacity
    BY <1>1, WrapsOnce
  <2>4. PlaceOf(buffer.count) = IF k < Capacity THEN k ELSE k - Capacity
    BY <1>1, <1>2, <1>3, <1>4, <2>2 DEF PlaceOf
  <2> QED
    BY <1>3, <2>1, <2>2, <2>3, <2>4
<1>7. RingInv'
  <2>1. buffer'.count \in 0 .. Capacity
    BY <1>1, <1>2, <1>3
  <2>2. buffer'.storage = [place \in Ends |-> buffer'.storage[place]]
    BY <1>3 DEF RingInv
  <2> QED
    BY <1>4, <1>6, <2>1, <2>2, Zenon DEF RingInv
<1>8. /\ Len(Waiting) = buffer.count
      /\ Waiting = [n \in 1 .. buffer.count |-> buffer.storage[PlaceOf(n - 1)]]
  BY WaitingSamples DEF WaitingIsRing
<1>9. Waiting # << >>
  BY <1>2, <1>8
<1>10. Waiting' = [n \in 1 .. buffer.count - 1 |-> buffer.storage[PlaceOf(n)]]
  <2>1. Waiting' = [n \in 1 .. buffer'.count |-> buffer'.storage[PlaceOf(n - 1)']]
    BY <1>7, NextWaitingSamples DEF WaitingIsRing
  <2>2. \A n \in 1 .. buffer.count - 1 : PlaceOf(n - 1)' = PlaceOf(n)
    <3> TAKE n \in 1 .. buffer.count - 1
    <3>1. n - 1 \in 0 .. Capacity - 1 /\ (n - 1) + 1 = n
      BY <1>1, <1>2
    <3> QED
      BY <1>5, <3>1
  <2> QED
    BY <1>3, <2>1, <2>2
<1>11. Tail(Waiting) = [n \in 1 .. buffer.count - 1 |-> buffer.storage[PlaceOf(n)]]
  <2>1. Tail(Waiting) = [n \in 1 .. Len(Waiting) - 1 |-> Waiting[n + 1]]
    BY <1>2, <1>8
  <2>2. \A n \in 1 .. buffer.count - 1 : Waiting[n + 1] = buffer.storage[PlaceOf(n)]
    <3> TAKE n \in 1 .. buffer.count - 1
    <3>1. n + 1 \in 1 .. buffer.count /\ (n + 1) - 1 = n
      BY <1>2
    <3> QED
      BY <1>8, <3>1
  <2> QED
    BY <1>8, <2>1, <2>2
<1> QED
  BY <1>7, <1>9, <1>10, <1>11 DEF Ring!Get

\* A reset leaves the storage and drops what waits.
LEMMA ResetDrops ==
    ASSUME RingInv, trajectory_buffer_reset
    PROVE  RingInv' /\ Ring!Drop
<1>1. Capacity \in Nat \ {0}
  BY BufferAssumption DEF BufferAssumption
<1>2. /\ buffer'.count = 0 /\ buffer'.readIndex = 0 /\ buffer'.writeIndex = 0
      /\ buffer'.storage = buffer.storage
  BY DEF trajectory_buffer_reset
<1>3. 0 % Capacity = 0
  BY <1>1, WrapsOnce
<1>4. RingInv'
  BY <1>1, <1>2, <1>3 DEF RingInv, Ends
<1>5. Waiting' = << >>
  BY <1>2, <1>4, NextWaitingSamples DEF WaitingIsRing
<1> QED
  BY <1>4, <1>5 DEF Ring!Drop

\* A step of the earlier simulator does one thing with the buffer at most.
LEMMA OneUseOfBuffer ==
    ASSUME [Next]_planningVars
    PROVE  \/ UNCHANGED buffer
           \/ \E sample : trajectory_buffer_push(sample)
           \/ trajectory_buffer_pop
           \/ trajectory_buffer_reset
<1>1. CASE Validating \/ Reported \/ Moving \/ UNCHANGED planningVars
  BY <1>1 DEF Validating, Reported, Moving, planningVars, liveVars
<1>2. CASE Planner
  <2>1. CASE PushSample
    BY <2>1 DEF PushSample
  <2>2. CASE AbortPlan
    BY <2>2 DEF AbortPlan
  <2>3. CASE TakeRequest \/ ValidateSample \/ Judge \/ OpenExecution
    BY <2>3 DEF TakeRequest, ValidateSample, Judge, OpenExecution
  <2>4. CASE Generate \/ EndOfProducer \/ Publish
    BY <2>4 DEF Generate, EndOfProducer, Publish
  <2> QED
    BY <1>2, <2>1, <2>2, <2>3, <2>4 DEF Planner, PlannerStep
<1>3. CASE PanelAndCycle
  <2>1. CASE StopCommand
    BY <2>1 DEF StopCommand
  <2>2. ASSUME NEW request \in Plans, PlanCommand(request)
        PROVE  trajectory_buffer_reset
    BY <2>2 DEF PlanCommand
  <2>3. CASE EtherCATCycle
    BY <2>3
    DEF EtherCATCycle, Underrun, RunCycle, PrepositionCycle, FinishedCycle, HoldCycle
  <2> QED
    BY <1>3, <2>1, <2>2, <2>3 DEF PanelAndCycle
<1> QED
  BY <1>1, <1>2, <1>3 DEF Next

\* Every step of the two loops is a step of the queue or none, and keeps the
\* invariant.
LEMMA RingStep ==
    RingInv /\ [Next]_planningVars => RingInv' /\ [Ring!Next]_Waiting
<1> SUFFICES ASSUME RingInv, [Next]_planningVars
             PROVE  RingInv' /\ [Ring!Next]_Waiting
  OBVIOUS
<1>1. CASE UNCHANGED buffer
  BY <1>1 DEF RingInv, Waiting
<1>2. CASE \E sample : trajectory_buffer_push(sample)
  BY <1>2, PushPuts DEF Ring!Next
<1>3. CASE trajectory_buffer_pop
  BY <1>3, PopGets DEF Ring!Next
<1>4. CASE trajectory_buffer_reset
  BY <1>4, ResetDrops DEF Ring!Next
<1> QED
  BY <1>1, <1>2, <1>3, <1>4, OneUseOfBuffer

\* An empty ring is an empty queue.
LEMMA RingInit == Init => RingInv /\ Ring!Init
<1> SUFFICES ASSUME Init
             PROVE  RingInv /\ Ring!Init
  OBVIOUS
<1>1. Capacity \in Nat \ {0}
  BY BufferAssumption DEF BufferAssumption
<1>2. BufferInit
  BY DEF Init, LiveInit
<1>3. 0 % Capacity = 0
  BY <1>1, WrapsOnce
<1>4. RingInv
  BY <1>1, <1>2, <1>3 DEF BufferInit, RingInv, Ends
<1>5. Waiting = << >>
  BY <1>2, <1>4, WaitingSamples DEF BufferInit, WaitingIsRing
<1> QED
  BY <1>4, <1>5 DEF Ring!Init

\* The samples between the planner and the cycle wait in a queue: none is lost,
\* repeated or overtaken but by a reset, for every capacity of the ring.
THEOREM RingIsFifo == FairSpec => BufferImplementsFifo
<1>1. FairSpec => Init /\ [][Next]_planningVars
  BY DEF FairSpec
<1> QED
  BY <1>1, RingInit, RingStep, PTL DEF BufferImplementsFifo, Ring!Spec

-----------------------------------------------------------------------------
(* A robot that is held.                                                   *)

\* The planner works only on a plan it was given, and a hold that meets it at
\* its work has cancelled that plan.
HeldInv ==
    /\ hold \in BOOLEAN /\ cancel \in BOOLEAN /\ busy \in BOOLEAN
    /\ planner # "WAIT" => busy /\ requests = None
    /\ requests # None => busy
    /\ busy /\ hold => cancel

\* Every step keeps the invariant of the hold.
LEMMA HeldStep ==
    HeldInv /\ [Next]_planningVars => HeldInv'
<1> SUFFICES ASSUME HeldInv, [Next]_planningVars
             PROVE  HeldInv'
  OBVIOUS
<1> USE DEF HeldInv, None
<1>1. CASE Validating \/ Reported \/ Moving \/ UNCHANGED planningVars
  BY <1>1 DEF Validating, Reported, Moving, planningVars, liveVars, motionVars,
              plannerVars
<1>2. CASE Planner
  <2>1. CASE TakeRequest
    BY <2>1 DEF TakeRequest
  <2>2. CASE ValidateSample \/ Judge \/ Generate \/ EndOfProducer
    BY <2>2 DEF ValidateSample, Judge, Generate, EndOfProducer, motionVars
  <2>3. CASE OpenExecution
    BY <2>3 DEF OpenExecution
  <2>4. CASE PushSample
    BY <2>4 DEF PushSample
  <2>5. CASE Publish
    BY <2>5 DEF Publish
  <2>6. CASE AbortPlan
    BY <2>6 DEF AbortPlan
  <2> QED
    BY <1>2, <2>1, <2>2, <2>3, <2>4, <2>5, <2>6 DEF Planner, PlannerStep
<1>3. CASE PanelAndCycle
  <2>1. CASE StopCommand
    BY <2>1 DEF StopCommand, plannerVars
  <2>2. ASSUME NEW request \in Plans, PlanCommand(request)
        PROVE  HeldInv'
    BY <2>2 DEF PlanCommand, Accepts, plannerVars
  <2>3. CASE Underrun
    BY <2>3 DEF Underrun, plannerVars
  <2>4. ASSUME NEW good \in BOOLEAN, RunCycle(good) \/ PrepositionCycle(good)
        PROVE  HeldInv'
    BY <2>4 DEF RunCycle, PrepositionCycle, plannerVars
  <2>5. ASSUME NEW enabled \in BOOLEAN, FinishedCycle \/ HoldCycle(enabled)
        PROVE  HeldInv'
    BY <2>5 DEF FinishedCycle, HoldCycle, motionVars, plannerVars
  <2> QED
    BY <1>3, <2>1, <2>2, <2>3, <2>4, <2>5 DEF PanelAndCycle, EtherCATCycle
<1> QED
  BY <1>1, <1>2, <1>3 DEF Next

\* While the hold lasts, the robot is commanded to where it is and the buffer
\* takes nothing.
LEMMA HeldStaysStep ==
    RingInv /\ HeldInv /\ [Next]_planningVars
        => [hold /\ hold' => /\ target' \in {target, actual}
                            /\ buffer'.count <= buffer.count]_planningVars
<1> SUFFICES ASSUME RingInv, HeldInv, [Next]_planningVars, hold, hold'
             PROVE  target' \in {target, actual} /\ buffer'.count <= buffer.count
  BY Zenon
<1>1. buffer.count \in Nat
  BY BufferAssumption DEF BufferAssumption, RingInv
<1>2. CASE Validating \/ Reported \/ Moving \/ UNCHANGED planningVars
  BY <1>1, <1>2 DEF Validating, Reported, Moving, planningVars, liveVars, robotVars
<1>3. CASE Planner
  <2>1. CASE PushSample
    <3>1. ~StillWanted
      BY <2>1 DEF PushSample, HeldInv, StillWanted
    <3> QED
      BY <1>1, <2>1, <3>1 DEF PushSample, robotVars
  <2>2. CASE AbortPlan
    BY <1>1, <2>2 DEF AbortPlan, trajectory_buffer_reset, robotVars
  <2>3. CASE TakeRequest \/ ValidateSample \/ Judge \/ OpenExecution
    BY <1>1, <2>3 DEF TakeRequest, ValidateSample, Judge, OpenExecution, robotVars
  <2>4. CASE Generate \/ EndOfProducer \/ Publish
    BY <1>1, <2>4 DEF Generate, EndOfProducer, Publish, robotVars
  <2> QED
    BY <1>3, <2>1, <2>2, <2>3, <2>4 DEF Planner, PlannerStep
<1>4. CASE PanelAndCycle
  <2>1. CASE StopCommand
    BY <1>1, <2>1 DEF StopCommand, trajectory_buffer_reset, robotVars
  <2>2. ASSUME NEW request \in Plans, PlanCommand(request)
        PROVE  target' \in {target, actual} /\ buffer'.count <= buffer.count
    BY <1>1, <2>2 DEF PlanCommand, trajectory_buffer_reset
  <2>3. CASE EtherCATCycle
    BY <1>1, <2>3
    DEF EtherCATCycle, Underrun, RunCycle, PrepositionCycle, FinishedCycle,
        HoldCycle, Command
  <2> QED
    BY <1>4, <2>1, <2>2, <2>3 DEF PanelAndCycle
<1> QED
  BY <1>2, <1>3, <1>4 DEF Next

\* After STOP or an underrun nothing reaches the robot or its buffer until a new
\* plan is accepted, wherever the planner is at its work.
THEOREM HeldRobotIsStill == FairSpec => HeldRobotStays
<1>1. FairSpec => Init /\ [][Next]_planningVars
  BY DEF FairSpec
<1>2. Init => RingInv /\ HeldInv
  BY RingInit DEF Init, LiveInit, HeldInv, None
<1> QED
  BY <1>1, <1>2, RingStep, HeldStep, HeldStaysStep, PTL DEF HeldRobotStays

-----------------------------------------------------------------------------
(* The polynomial of a move.                                               *)

\* The place of a joint at a time, between its two postures.
Place(duration, t) == Polynomials(duration, t).s

\* Places are whole.
LEMMA PlacesAreWhole ==
    \A duration, t \in Int : Place(duration, t) \in Int /\ Fifth(t) \in Int
BY DEF Place, Polynomials, Fifth

\* The same around the middle of an even duration, 2h, by the time x from there.
Around(h, x) ==
    6 * Fifth(x) - 20 * h * h * (x * x * x) + 30 * h * h * h * h * x

\* The place of a joint, counted from the middle of its move.
LEMMA AroundTheMiddle ==
    ASSUME NEW h \in Int, NEW t \in Int
    PROVE  Place(2 * h, t) = Around(h, t - h) + 16 * Fifth(h)
BY DEF Place, Polynomials, Around, Fifth

\* A joint never turns back, and is never faster than in the middle.
LEMMA FastestInTheMiddle ==
    ASSUME NEW h \in Int, NEW x \in Int, NEW y \in Int,
           -h <= x, x <= y, y <= h
    PROVE  /\ 0 <= Around(h, y) - Around(h, x)
           /\ Around(h, y) - Around(h, x) <= 30 * h * h * h * h * (y - x)
<1> DEFINE squares == x * x + y * y
           A == squares + x * y
           B == x * x * x * x + x * x * x * y + x * x * y * y + x * y * y * y
                + y * y * y * y
           S == 6 * B - 20 * h * h * A + 30 * h * h * h * h
<1>1. Around(h, y) - Around(h, x) = (y - x) * S
  BY DEF Around, Fifth
<1>2. 0 <= S
  <2>1. 0 <= 9 * B - 5 * (A * A)
    <3> DEFINE sum == 4 * x * x + 7 * x * y + 4 * y * y
               difference == y - x
    <3>1. 9 * B - 5 * (A * A) = sum * (difference * difference)
      OBVIOUS
    <3>2. 2 * sum = 7 * ((x + y) * (x + y)) + x * x + y * y
      OBVIOUS
    <3>3. 0 <= (x + y) * (x + y) /\ 0 <= x * x /\ 0 <= y * y
          /\ 0 <= difference * difference
      OBVIOUS
    <3>4. 0 <= sum /\ sum \in Int /\ difference * difference \in Int
      BY <3>2, <3>3
    <3> HIDE DEF sum, difference
    <3> QED
      BY <3>1, <3>3, <3>4
  <2>2. 9 * S = 6 * (9 * B - 5 * (A * A)) + 30 * ((A - 3 * h * h) * (A - 3 * h * h))
    OBVIOUS
  <2>3. 0 <= (A - 3 * h * h) * (A - 3 * h * h)
    OBVIOUS
  <2>4. S \in Int /\ 9 * B - 5 * (A * A) \in Int
        /\ (A - 3 * h * h) * (A - 3 * h * h) \in Int
    OBVIOUS
  <2> HIDE DEF S, A, B
  <2> QED
    BY <2>1, <2>2, <2>3, <2>4
<1>3. S <= 30 * h * h * h * h
  <2>1. x * x <= h * h /\ y * y <= h * h
    OBVIOUS
  <2>2. 0 <= A
    <3>1. 2 * A = (x + y) * (x + y) + x * x + y * y
      OBVIOUS
    <3>2. 0 <= (x + y) * (x + y) /\ 0 <= x * x /\ 0 <= y * y
      OBVIOUS
    <3> QED
      BY <3>1, <3>2
  <2>3. 10 * (squares * A) - 6 * B
          = 2 * (squares * squares + A * A + 2 * ((x * y) * (x * y)))
    OBVIOUS
  <2>4. 0 <= squares * squares /\ 0 <= A * A /\ 0 <= (x * y) * (x * y)
    OBVIOUS
  <2>5. 6 * B <= 10 * (squares * A)
    <3>1. B \in Int /\ squares * A \in Int /\ squares * squares \in Int
          /\ A * A \in Int /\ (x * y) * (x * y) \in Int
      OBVIOUS
    <3> HIDE DEF squares, A, B
    <3> QED
      BY <2>3, <2>4, <3>1
  <2>6. squares * A <= (2 * h * h) * A
    <3>1. squares <= 2 * h * h /\ squares \in Int /\ 2 * h * h \in Int /\ A \in Int
      BY <2>1
    <3> HIDE DEF squares, A
    <3> QED
      BY <2>2, <3>1
  <2>7. squares * A \in Int /\ (2 * h * h) * A = 2 * (h * h * A) /\ h * h * A \in Int
        /\ B \in Int /\ 20 * h * h * A = 20 * (h * h * A)
        /\ 30 * h * h * h * h \in Int
    OBVIOUS
  <2> HIDE DEF squares, A, B
  <2> QED
    BY <2>5, <2>6, <2>7
<1>4. S \in Int /\ 30 * h * h * h * h \in Int /\ y - x \in Nat
  OBVIOUS
<1> HIDE DEF S
<1>5. 0 <= (y - x) * S
  BY <1>2, <1>4
<1>6. (y - x) * S <= 30 * h * h * h * h * (y - x)
  BY <1>3, <1>4
<1> QED
  BY <1>1, <1>5, <1>6

-----------------------------------------------------------------------------
(* The samples of a move.                                                  *)

\* A number of which one is the smallest.
LEMMA SmallestOf ==
    ASSUME NEW T, T \subseteq Nat, T # {}
    PROVE  \E i \in T : \A j \in T : ~ (j < i)
<1>1. PICK i \in T : \A j \in T : <<j, i>> \notin OpToRel(<, Nat)
  BY WFMin, NatLessThanWellFounded
<1> QED
  BY <1>1 DEF OpToRel

\* Of the values of the first samples one is the largest.
LEMMA LargestExists ==
    ASSUME NEW f, \A i \in Nat : f[i] \in Int, NEW n \in Nat
    PROVE  \E i \in 0 .. n : \A j \in 0 .. n : f[j] <= f[i]
<1> DEFINE Without == {k \in Nat : ~ \E i \in 0 .. k : \A j \in 0 .. k : f[j] <= f[i]}
<1> SUFFICES ASSUME Without # {}
             PROVE  FALSE
  OBVIOUS
<1>1. PICK k \in Without : \A j \in Without : ~ (j < k)
  BY SmallestOf
<1>2. CASE k = 0
  <2>1. \A j \in 0 .. 0 : f[j] <= f[0]
    OBVIOUS
  <2> QED
    BY <1>1, <1>2, <2>1
<1>3. CASE k > 0
  <2>1. k - 1 \in Nat /\ k - 1 < k
    BY <1>3
  <2>2. k - 1 \notin Without
    BY <1>1, <2>1
  <2>3. PICK i \in 0 .. k - 1 : \A j \in 0 .. k - 1 : f[j] <= f[i]
    BY <2>1, <2>2
  <2>4. PICK m \in 0 .. k : f[m] >= f[i] /\ f[m] >= f[k]
    BY <1>3, <2>3
  <2>5. \A j \in 0 .. k : f[j] <= f[m]
    <3> TAKE j \in 0 .. k
    <3>1. f[j] \in Int /\ f[m] \in Int /\ f[i] \in Int /\ f[k] \in Int
      BY <1>1
    <3>2. CASE j = k
      BY <2>4, <3>1, <3>2
    <3>3. CASE j \in 0 .. k - 1
      BY <2>3, <2>4, <3>1, <3>3
    <3> QED
      BY <1>1, <3>2, <3>3
  <2> QED
    BY <1>1, <2>5
<1> QED
  BY <1>1, <1>2, <1>3

\* A move has two samples at least, and the last regular one lies before its end.
LEMMA SamplesOfMove ==
    ASSUME NEW duration \in Nat \ {0}, NEW dt \in Nat \ {0}
    PROVE  /\ QuinticSamples(duration, dt) \in Nat
           /\ QuinticSamples(duration, dt) >= 2
           /\ \A i \in 0 .. QuinticSamples(duration, dt) - 2 : i * dt < duration
<1> DEFINE k == duration \div dt
           r == duration % dt
<1>1. k \in Nat /\ r \in 0 .. dt - 1 /\ duration = dt * k + r
  OBVIOUS
<1> HIDE DEF k, r
<1>2. QuinticSamples(duration, dt) = IF k * dt < duration THEN k + 2 ELSE k + 1
  BY <1>1 DEF QuinticSamples, k
<1>3. k * dt \in Nat /\ k * dt = dt * k /\ 0 * dt = 0
  BY <1>1
<1>4. QuinticSamples(duration, dt) >= 2
  <2>1. k = 0 => k * dt < duration
    BY <1>3
  <2> QED
    BY <1>1, <1>2, <2>1
<1>5. ASSUME NEW i \in 0 .. QuinticSamples(duration, dt) - 2
      PROVE  i * dt < duration
  <2>1. CASE k * dt < duration
    <3>1. i \in Nat /\ i <= k
      BY <1>1, <1>2, <2>1
    <3>2. i * dt <= k * dt /\ i * dt \in Nat
      BY <1>1, <3>1
    <3> QED
      BY <1>3, <2>1, <3>2
  <2>2. CASE ~(k * dt < duration)
    <3>1. i \in Nat /\ i + 1 <= k /\ k * dt = duration
      BY <1>1, <1>2, <1>3, <2>2
    <3>2. (i + 1) * dt <= k * dt /\ (i + 1) * dt = i * dt + dt /\ i * dt \in Nat
      BY <1>1, <3>1
    <3> QED
      BY <3>1, <3>2
  <2> QED
    BY <2>1, <2>2
<1> QED
  BY <1>1, <1>2, <1>4, <1>5

\* The times of the samples lie within the move, one behind the other, from its
\* start to its end.
LEMMA TimesOfSamples ==
    ASSUME NEW duration \in Nat \ {0}, NEW dt \in Nat \ {0}
    PROVE  LET p == QuinticInit(duration, dt)
           IN /\ QuinticTime(p, 0) = 0
              /\ QuinticTime(p, p.samples - 1) = duration
              /\ \A i \in 0 .. p.samples - 1 : QuinticTime(p, i) \in 0 .. duration
              /\ \A i \in 0 .. p.samples - 2 : QuinticTime(p, i) < QuinticTime(p, i + 1)
<1> DEFINE p == QuinticInit(duration, dt)
           n == QuinticSamples(duration, dt)
<1>1. n \in Nat /\ n >= 2 /\ \A i \in 0 .. n - 2 : i * dt < duration
  BY SamplesOfMove
<1>2. p.samples = n /\ p.duration = duration /\ p.dt = dt
  BY DEF QuinticInit
<1> HIDE DEF p, n
<1>3. \A i \in 0 .. n - 2 : QuinticTime(p, i) = i * dt /\ i * dt \in Nat
  BY <1>1, <1>2 DEF QuinticTime
<1>4. QuinticTime(p, n - 1) = duration
  BY <1>1, <1>2 DEF QuinticTime
<1>5. QuinticTime(p, 0) = 0
  <2>1. 0 \in 0 .. n - 2 /\ 0 * dt = 0
    BY <1>1
  <2> QED
    BY <1>3, <2>1
<1>6. ASSUME NEW i \in 0 .. n - 1
      PROVE  QuinticTime(p, i) \in 0 .. duration
  <2>1. CASE i = n - 1
    BY <1>4, <2>1
  <2>2. CASE i \in 0 .. n - 2
    <3>1. i * dt \in Nat /\ i * dt < duration
      BY <1>1, <1>3, <2>2
    <3> QED
      BY <1>3, <2>2, <3>1
  <2> QED
    BY <1>1, <2>1, <2>2
<1>7. ASSUME NEW i \in 0 .. n - 2
      PROVE  QuinticTime(p, i) < QuinticTime(p, i + 1)
  <2>1. CASE i + 1 = n - 1
    BY <1>1, <1>3, <1>4, <2>1
  <2>2. CASE i + 1 \in 0 .. n - 2
    <3>1. (i + 1) * dt = i * dt + dt
      OBVIOUS
    <3> QED
      BY <1>3, <2>2, <3>1
  <2> QED
    BY <1>1, <2>1, <2>2
<1> QED
  BY <1>2, <1>4, <1>5, <1>6, <1>7 DEF p

\* Where a motion is at a time of it, after it began and before it ends.
LEMMA TimeOfSample ==
    ASSUME NEW profile, profile.duration \in Nat \ {0},
           NEW t \in 0 .. profile.duration
    PROVE  /\ QuinticAt(profile, t).t = t
           /\ t < profile.duration => QuinticAt(profile, t).s = Place(profile.duration, t)
<1>1. Place(profile.duration, 0) = 0
  BY DEF Place, Polynomials, Fifth
<1> QED
  BY <1>1 DEF QuinticAt, Place

\* Where a joint is at a time of its move: at its first posture and the part of its
\* way that the polynomial gives, at both ends too.
LEMMA PlaceOfJoint ==
    ASSUME NEW move, IsJointMove(move), NEW joint \in DOMAIN move.from,
           NEW movement, movement.start = move.from, movement.goal = move.to,
           movement.delta = [j \in DOMAIN move.from |-> move.to[j] - move.from[j]],
           movement.profile = QuinticInit(move.time, move.period),
           NEW t \in 0 .. move.time
    PROVE  joint_trajectory_evaluate(movement, t).q[joint]
             = move.from[joint] * Fifth(move.time)
               + (move.to[joint] - move.from[joint]) * Place(move.time, t)
<1>1. move.time \in Nat \ {0} /\ move.from[joint] \in Int /\ move.to[joint] \in Int
      /\ DOMAIN move.from = DOMAIN move.to
  BY DEF IsJointMove
<1>2. movement.profile.duration = move.time
  BY DEF QuinticInit
<1>3. CASE t = move.time
  <2>1. Place(move.time, t) = Fifth(move.time) /\ Fifth(move.time) \in Int
    BY <1>1, <1>3 DEF Place, Polynomials, Fifth
  <2>2. QuinticAt(movement.profile, t).t = t
    BY <1>1, <1>2, TimeOfSample
  <2>3. joint_trajectory_evaluate(movement, t).q[joint] = move.to[joint] * Fifth(move.time)
    BY <1>1, <1>2, <1>3, <2>2 DEF joint_trajectory_evaluate, JointsAt
  <2>4. move.to[joint] * Fifth(move.time)
          = move.from[joint] * Fifth(move.time)
            + (move.to[joint] - move.from[joint]) * Fifth(move.time)
    BY <1>1, <2>1
  <2> QED
    BY <2>1, <2>2, <2>3, <2>4 DEF joint_trajectory_evaluate
<1>4. CASE t < move.time
  <2>1. QuinticAt(movement.profile, t).t = t
        /\ QuinticAt(movement.profile, t).s = Place(move.time, t)
    BY <1>1, <1>2, <1>4, TimeOfSample
  <2> QED
    BY <1>1, <1>2, <1>4, <2>1 DEF joint_trajectory_evaluate, JointsAt
<1> QED
  BY <1>1, <1>3, <1>4

\* When a sample lies at the half of an even duration, the peak of the speed is at
\* least the speed there.
LEMMA PeakOfMove ==
    ASSUME NEW duration \in Nat \ {0}, NEW dt \in Nat \ {0},
           duration % (2 * dt) = 0
    PROVE  LET p == QuinticInit(duration, dt)
           IN \E h \in Nat \ {0} :
                 /\ duration = 2 * h
                 /\ PeakOver(p, "sDot") \in Int
                 /\ 30 * h * h * h * h <= PeakOver(p, "sDot")
<1> DEFINE p == QuinticInit(duration, dt)
           n == QuinticSamples(duration, dt)
           k == duration \div (2 * dt)
           h == k * dt
           f == [i \in Nat |-> Magnitude(QuinticAt(p, QuinticTime(p, i)).sDot)]
           values == {Magnitude(QuinticAt(p, QuinticTime(p, i))["sDot"]) :
                          i \in 0 .. p.samples - 1}
<1>1. k \in Nat /\ duration = (2 * dt) * k
  OBVIOUS
<1> HIDE DEF k
<1>2. h \in Nat \ {0} /\ duration = 2 * h
  <2>1. h \in Nat /\ (2 * dt) * k = 2 * h
    BY <1>1
  <2> QED
    BY <1>1, <2>1
<1>3. n \in Nat /\ n >= 2 /\ \A i \in 0 .. n - 2 : i * dt < duration
  BY SamplesOfMove
<1>4. p.samples = n /\ p.duration = duration /\ p.dt = dt
  BY DEF QuinticInit
<1>5. \A i \in Nat : f[i] \in Int
  <2> TAKE i \in Nat
  <2>1. QuinticTime(p, i) \in Int
    BY <1>3, <1>4 DEF QuinticTime
  <2>2. QuinticAt(p, QuinticTime(p, i)).sDot \in Int
    <3>1. \A t \in Int : Polynomials(p.duration, t).sDot \in Int
      BY <1>4 DEF Polynomials
    <3> QED
      BY <1>4, <2>1, <3>1 DEF QuinticAt
  <2> QED
    BY <2>2 DEF Magnitude
<1>6. values = {f[i] : i \in 0 .. n - 1}
  BY <1>3, <1>4
<1>7. PICK m \in 0 .. n - 1 : \A j \in 0 .. n - 1 : f[j] <= f[m]
  <2>1. n - 1 \in Nat
    BY <1>3
  <2> HIDE DEF f, n
  <2> QED
    BY <1>5, <2>1, LargestExists, Zenon
<1>8. PeakOver(p, "sDot") = CHOOSE peak \in values : \A other \in values : other <= peak
  BY DEF PeakOver
<1>9. PeakOver(p, "sDot") \in values
      /\ \A other \in values : other <= PeakOver(p, "sDot")
  <2> HIDE DEF f, values
  <2>1. f[m] \in values /\ \A other \in values : other <= f[m]
    BY <1>6, <1>7
  <2> QED
    BY <1>8, <2>1
<1>10. PeakOver(p, "sDot") \in Int
  <2> HIDE DEF f, values
  <2>1. PICK i \in 0 .. n - 1 : PeakOver(p, "sDot") = f[i]
    BY <1>6, <1>9
  <2> QED
    BY <1>3, <1>5, <2>1
<1>11. k \in 0 .. n - 2
  <2>1. 2 * k \in Nat /\ duration = 2 * k * dt
    BY <1>1
  <2>2. k > 0 /\ h < duration
    BY <1>1, <1>2
  <2>3. CASE k > n - 2
    <3>1. n - 1 <= k /\ n - 1 \in Nat
      BY <1>1, <1>3, <2>3
    <3>2. n - 1 = duration \div dt \/ n - 1 = duration \div dt + 1
      BY DEF QuinticSamples
    <3>3. duration \div dt = 2 * k
      BY <2>1
    <3> QED
      BY <1>1, <2>2, <3>1, <3>2, <3>3
  <2> QED
    BY <1>1, <2>3, <1>3
<1>12. f[k] = 30 * h * h * h * h
  <2>1. QuinticTime(p, k) = h
    BY <1>3, <1>4, <1>11 DEF QuinticTime
  <2>2. QuinticAt(p, h).sDot = Polynomials(duration, h).sDot
    BY <1>2, <1>4 DEF QuinticAt
  <2>3. Polynomials(2 * h, h).sDot = 30 * h * h * h * h
    BY <1>2 DEF Polynomials
  <2>4. 30 * h * h * h * h >= 0
    BY <1>2
  <2> QED
    BY <1>1, <1>2, <2>1, <2>2, <2>3, <2>4 DEF Magnitude
<1>13. f[k] <= PeakOver(p, "sDot")
  BY <1>3, <1>6, <1>9, <1>11
<1> HIDE DEF h
<1> QED
  BY <1>2, <1>10, <1>12, <1>13

-----------------------------------------------------------------------------
(* A move of the joints.                                                   *)

AllMoves == JointMoves \cup {AtRestMove}

MotionOf(move) == JointTrajectoryOf(move.from, move.to, move.time, move.period)

\* The parts of a trajectory, which no step changes but the last three.
IsTrajectoryOf(move) ==
    /\ trajectory = [start |-> trajectory.start, goal |-> trajectory.goal,
                     delta |-> trajectory.delta, profile |-> trajectory.profile,
                     peakVelocity |-> trajectory.peakVelocity,
                     peakAcceleration |-> trajectory.peakAcceleration,
                     next |-> trajectory.next, finished |-> trajectory.finished,
                     status |-> trajectory.status]
    /\ trajectory.start = move.from /\ trajectory.goal = move.to
    /\ trajectory.delta = MotionOf(move).delta
    /\ trajectory.profile = MotionOf(move).profile
    /\ trajectory.peakVelocity = MotionOf(move).peakVelocity

\* What has been taken are the samples of one move from its first on, and the move is
\* finished when none is left.
TakenInv(move) ==
    /\ IsTrajectoryOf(move)
    /\ trajectory.next \in 0 .. trajectory.profile.samples
    /\ trajectory.finished => trajectory.next = trajectory.profile.samples
    /\ taken = [n \in 1 .. trajectory.next |->
                   joint_trajectory_evaluate(MotionOf(move),
                                             QuinticTime(trajectory.profile, n - 1))]

JointInv == \E move \in AllMoves : TakenInv(move)

\* Every move has two postures of the same joints, a duration and a period.
LEMMA MovesAreMoves == \A move \in AllMoves : IsJointMove(move)
BY JointMovesAssumption DEF AllMoves, AtRestMove, IsJointMove

\* The parts that every sample is computed from.
LEMMA PartsOfMove ==
    ASSUME NEW move
    PROVE  /\ MotionOf(move).start = move.from /\ MotionOf(move).goal = move.to
           /\ MotionOf(move).delta
                = [j \in DOMAIN move.from |-> move.to[j] - move.from[j]]
           /\ MotionOf(move).profile = QuinticInit(move.time, move.period)
           /\ MotionOf(move).peakVelocity
                = [j \in DOMAIN move.from |->
                      Magnitude(move.to[j] - move.from[j])
                        * PeakOver(QuinticInit(move.time, move.period), "sDot")]
BY DEF MotionOf, JointTrajectoryOf

\* At the start of a move nothing is taken.
LEMMA JointInvInit ==
    ASSUME NEW move \in AllMoves, JointMoveInit(move)
    PROVE  TakenInv(move)
<1>1. trajectory = MotionOf(move) /\ taken = << >>
  BY DEF JointMoveInit, JointInit, MotionOf
<1>2. trajectory.next = 0 /\ trajectory.finished = FALSE
      /\ trajectory.profile = QuinticInit(move.time, move.period)
  BY <1>1 DEF MotionOf, JointTrajectoryOf
<1>3. trajectory.profile.samples \in Nat
  BY <1>2, MovesAreMoves, SamplesOfMove DEF QuinticInit, IsJointMove
<1>4. IsTrajectoryOf(move)
  BY <1>1 DEF IsTrajectoryOf, MotionOf, JointTrajectoryOf
<1>5. taken = [n \in 1 .. trajectory.next |->
                  joint_trajectory_evaluate(MotionOf(move),
                                            QuinticTime(trajectory.profile, n - 1))]
  BY <1>1, <1>2
<1>6. trajectory.next \in 0 .. trajectory.profile.samples
  BY <1>2, <1>3
<1>7. ~ trajectory.finished
  BY <1>2
<1> QED
  BY <1>4, <1>5, <1>6, <1>7 DEF TakenInv

\* A step takes the next sample, or says that there is none.
LEMMA JointInvStep ==
    ASSUME NEW move \in AllMoves, TakenInv(move), joint_trajectory_next
    PROVE  TakenInv(move)'
<1> DEFINE profile == QuinticInit(move.time, move.period)
           n == trajectory.next
           at(i) == joint_trajectory_evaluate(MotionOf(move), QuinticTime(profile, i - 1))
           over == n + 1 >= profile.samples
<1>1. /\ trajectory.start = move.from /\ trajectory.goal = move.to
      /\ trajectory.delta = [j \in DOMAIN move.from |-> move.to[j] - move.from[j]]
      /\ trajectory.profile = profile
  BY PartsOfMove DEF TakenInv, IsTrajectoryOf
<1>2. profile.samples \in Nat
  BY MovesAreMoves, SamplesOfMove DEF QuinticInit, IsJointMove
<1>3. /\ n \in 0 .. profile.samples
      /\ taken = [i \in 1 .. n |-> at(i)]
      /\ trajectory.finished => n = profile.samples
      /\ trajectory.profile = MotionOf(move).profile
  BY <1>1 DEF TakenInv, IsTrajectoryOf
<1> HIDE DEF profile
<1>4. CASE n >= profile.samples
  <2>1. /\ trajectory' = [trajectory EXCEPT !.finished = TRUE, !.status = "FINISHED"]
        /\ taken' = taken
    BY <1>1, <1>4 DEF joint_trajectory_next, joint_trajectory_sample_count
  <2>2. n = profile.samples
    BY <1>2, <1>3, <1>4
  <2>3. IsTrajectoryOf(move)' /\ trajectory'.next = n /\ trajectory'.finished
        /\ trajectory'.profile = profile
    BY <1>1, <2>1 DEF TakenInv, IsTrajectoryOf, MotionOf
  <2> HIDE DEF at
  <2>4. taken' = [i \in 1 .. trajectory'.next |-> at(i)]
    BY <1>3, <2>1, <2>3
  <2> QED
    BY <1>2, <2>2, <2>3, <2>4 DEF TakenInv, at, MotionOf
<1>5. CASE n < profile.samples
  <2>1. n \in 0 .. profile.samples - 1 /\ ~ trajectory.finished
    BY <1>2, <1>3, <1>5
  <2>2. ~ (trajectory.next >= joint_trajectory_sample_count(trajectory))
    BY <1>1, <1>2, <2>1 DEF joint_trajectory_sample_count
  <2>3. /\ taken' = Append(taken, joint_trajectory_evaluate_index(trajectory, n))
        /\ trajectory' = [trajectory EXCEPT
                             !.next = @ + 1, !.status = "OK",
                             !.finished = @ \/ n + 1 >= joint_trajectory_sample_count(trajectory)]
    BY <2>2 DEF joint_trajectory_next
  <2>4. IsTrajectoryOf(move)' /\ trajectory'.next = n + 1
        /\ trajectory'.profile = profile
    BY <1>1, <2>3 DEF TakenInv, IsTrajectoryOf, MotionOf
  <2>5. trajectory'.finished => over
    BY <1>1, <2>1, <2>3 DEF TakenInv, IsTrajectoryOf, joint_trajectory_sample_count
  <2>6. joint_trajectory_evaluate_index(trajectory, n) = at(n + 1)
    <3>1. joint_trajectory_evaluate_index(trajectory, n)
            = joint_trajectory_evaluate(trajectory, QuinticTime(profile, n))
      BY <1>1, <1>2, <2>1 DEF joint_trajectory_evaluate_index
    <3>2. joint_trajectory_evaluate(trajectory, QuinticTime(profile, n))
            = joint_trajectory_evaluate(MotionOf(move), QuinticTime(profile, n))
      BY <1>1, PartsOfMove DEF joint_trajectory_evaluate, JointsAt, profile
    <3>3. (n + 1) - 1 = n
      BY <2>1
    <3> QED
      BY <3>1, <3>2, <3>3
  <2> HIDE DEF at
  <2>7. taken' = [i \in 1 .. n + 1 |-> at(i)]
    BY <1>3, <2>1, <2>3, <2>6
  <2>8. taken' = [i \in 1 .. trajectory'.next |-> at(i)]
    BY <2>4, <2>7
  <2>9. trajectory'.next \in 0 .. profile.samples
    BY <1>2, <2>1, <2>4
  <2>10. trajectory'.finished => trajectory'.next = profile.samples
    <3>1. over => n + 1 = profile.samples
      BY <1>2, <2>1
    <3> HIDE DEF over
    <3> QED
      BY <2>4, <2>5, <3>1
  <2> QED
    BY <2>4, <2>8, <2>9, <2>10 DEF TakenInv, at, MotionOf
<1> QED
  BY <1>2, <1>3, <1>4, <1>5

\* What a sample of a move holds.
LEMMA SampleOfMove ==
    ASSUME NEW move \in AllMoves, TakenInv(move), NEW n \in 1 .. Len(taken)
    PROVE  LET t == QuinticTime(trajectory.profile, n - 1)
           IN /\ trajectory.next \in Nat /\ Len(taken) = trajectory.next
              /\ n - 1 \in 0 .. trajectory.profile.samples - 1
              /\ t \in 0 .. move.time /\ taken[n].t = t
              /\ \A joint \in DOMAIN move.from :
                    taken[n].q[joint]
                      = move.from[joint] * Fifth(move.time)
                        + (move.to[joint] - move.from[joint]) * Place(move.time, t)
<1> DEFINE profile == QuinticInit(move.time, move.period)
           t == QuinticTime(profile, n - 1)
<1>1. IsJointMove(move) /\ move.time \in Nat \ {0} /\ move.period \in Nat \ {0}
  BY MovesAreMoves DEF IsJointMove
<1>2. trajectory.profile = profile
  BY PartsOfMove DEF TakenInv, IsTrajectoryOf
<1>3. profile.samples \in Nat
  BY <1>1, SamplesOfMove DEF QuinticInit
<1> HIDE DEF profile
<1>4. /\ trajectory.next \in 0 .. profile.samples
      /\ taken = [i \in 1 .. trajectory.next |->
                     joint_trajectory_evaluate(MotionOf(move), QuinticTime(profile, i - 1))]
  BY <1>2 DEF TakenInv
<1>5. Len(taken) = trajectory.next /\ trajectory.next \in Nat
  BY <1>3, <1>4
<1>6. n - 1 \in 0 .. profile.samples - 1
  BY <1>3, <1>4, <1>5
<1>7. t \in 0 .. move.time
  BY <1>1, <1>6, TimesOfSamples DEF profile
<1>8. taken[n] = joint_trajectory_evaluate(MotionOf(move), t)
  BY <1>4, <1>5
<1> HIDE DEF t
<1>9. joint_trajectory_evaluate(MotionOf(move), t).t = t
  <2>1. MotionOf(move).profile.duration = move.time
    <3>1. MotionOf(move).profile = QuinticInit(move.time, move.period)
      BY PartsOfMove
    <3> QED
      BY <3>1 DEF QuinticInit
  <2>2. QuinticAt(MotionOf(move).profile, t).t = t
    BY <1>1, <1>7, <2>1, TimeOfSample
  <2> QED
    BY <2>2 DEF joint_trajectory_evaluate
<1>10. \A joint \in DOMAIN move.from :
          joint_trajectory_evaluate(MotionOf(move), t).q[joint]
            = move.from[joint] * Fifth(move.time)
              + (move.to[joint] - move.from[joint]) * Place(move.time, t)
  <2> TAKE joint \in DOMAIN move.from
  <2> DEFINE movement == MotionOf(move)
  <2>1. /\ movement.start = move.from /\ movement.goal = move.to
        /\ movement.delta = [j \in DOMAIN move.from |-> move.to[j] - move.from[j]]
        /\ movement.profile = QuinticInit(move.time, move.period)
    BY PartsOfMove
  <2> HIDE DEF movement
  <2>2. joint_trajectory_evaluate(movement, t).q[joint]
          = move.from[joint] * Fifth(move.time)
            + (move.to[joint] - move.from[joint]) * Place(move.time, t)
    BY <1>1, <1>7, <2>1, PlaceOfJoint
  <2> QED
    BY <2>2 DEF movement
<1> QED
  BY <1>2, <1>5, <1>6, <1>7, <1>8, <1>9, <1>10 DEF t

\* The joints of a sample are those of the move.
LEMMA JointsOfMove ==
    ASSUME NEW move \in AllMoves, TakenInv(move), NEW n \in 1 .. Len(taken)
    PROVE  taken[n].q = [joint \in DOMAIN move.from |-> taken[n].q[joint]]
<1> DEFINE profile == QuinticInit(move.time, move.period)
<1>1. DOMAIN move.from = DOMAIN move.to
  BY MovesAreMoves DEF IsJointMove
<1>2. trajectory.profile = profile
  BY PartsOfMove DEF TakenInv, IsTrajectoryOf
<1>3. taken[n] = joint_trajectory_evaluate(MotionOf(move), QuinticTime(profile, n - 1))
  BY <1>2, SampleOfMove DEF TakenInv
<1> DEFINE sample == QuinticAt(MotionOf(move).profile, QuinticTime(profile, n - 1))
<1>4. taken[n].q = JointsAt(MotionOf(move), sample)
  BY <1>3 DEF joint_trajectory_evaluate
<1>5. MotionOf(move).start = move.from /\ MotionOf(move).goal = move.to
  BY PartsOfMove
<1> HIDE DEF sample
<1>6. CASE sample.t >= MotionOf(move).profile.duration
  BY <1>1, <1>4, <1>5, <1>6 DEF JointsAt
<1>7. CASE ~(sample.t >= MotionOf(move).profile.duration)
  BY <1>1, <1>4, <1>5, <1>7 DEF JointsAt
<1> QED
  BY <1>6, <1>7

\* The first sample is at the start and the last one at the goal.
LEMMA MoveArrives ==
    ASSUME NEW move \in AllMoves, TakenInv(move), trajectory.finished
    PROVE  JointMoveArrives
<1> DEFINE profile == QuinticInit(move.time, move.period)
           joints == DOMAIN move.from
           duration == move.time
<1>1. /\ duration \in Nat \ {0} /\ move.period \in Nat \ {0} /\ DOMAIN move.to = joints
      /\ \A joint \in joints : move.from[joint] \in Int /\ move.to[joint] \in Int
  BY MovesAreMoves DEF IsJointMove
<1>2. /\ trajectory.profile = profile /\ trajectory.start = move.from
      /\ trajectory.goal = move.to
  BY PartsOfMove DEF TakenInv, IsTrajectoryOf
<1>3. profile.samples \in Nat /\ profile.samples >= 2 /\ profile.duration = duration
  BY <1>1, SamplesOfMove DEF QuinticInit
<1>4. QuinticTime(profile, 0) = 0 /\ QuinticTime(profile, profile.samples - 1) = duration
  BY <1>1, TimesOfSamples
<1> HIDE DEF profile
<1>5. Len(taken) = profile.samples
  <2>1. trajectory.next = profile.samples
    BY <1>2 DEF TakenInv
  <2> QED
    BY <1>3, <2>1 DEF TakenInv
<1>6. 1 \in 1 .. Len(taken) /\ Len(taken) \in 1 .. Len(taken)
  BY <1>3, <1>5
<1>7. /\ taken[1].t = 0
      /\ \A joint \in joints :
            taken[1].q[joint] = move.from[joint] * Fifth(duration)
                                + (move.to[joint] - move.from[joint]) * Place(duration, 0)
  BY <1>2, <1>4, <1>6, SampleOfMove
<1>8. /\ taken[Len(taken)].t = duration
      /\ \A joint \in joints :
            taken[Len(taken)].q[joint]
              = move.from[joint] * Fifth(duration)
                + (move.to[joint] - move.from[joint]) * Place(duration, duration)
  BY <1>2, <1>4, <1>5, <1>6, SampleOfMove
<1>9. Place(duration, 0) = 0 /\ Place(duration, duration) = Fifth(duration)
      /\ Fifth(duration) \in Int
  BY <1>1 DEF Place, Polynomials, Fifth
<1>10. \A joint \in joints :
          /\ taken[1].q[joint] = move.from[joint] * Fifth(duration)
          /\ taken[Len(taken)].q[joint] = move.to[joint] * Fifth(duration)
  <2> TAKE joint \in joints
  <2>1. move.from[joint] * Fifth(duration)
          + (move.to[joint] - move.from[joint]) * Fifth(duration)
          = move.to[joint] * Fifth(duration)
    BY <1>1, <1>9
  <2> QED
    BY <1>1, <1>7, <1>8, <1>9, <2>1
<1>11. taken[1].q = Scaled(trajectory.start)
  <2>1. taken[1].q = [joint \in joints |-> taken[1].q[joint]]
    BY <1>6, JointsOfMove
  <2>2. Scaled(trajectory.start) = [joint \in joints |-> move.from[joint] * Fifth(duration)]
    BY <1>2, <1>3 DEF Scaled
  <2> QED
    BY <1>10, <2>1, <2>2
<1>12. taken[Len(taken)].q = Scaled(trajectory.goal)
  <2>1. taken[Len(taken)].q = [joint \in joints |-> taken[Len(taken)].q[joint]]
    BY <1>6, JointsOfMove
  <2>2. Scaled(trajectory.goal) = [joint \in joints |-> move.to[joint] * Fifth(duration)]
    BY <1>1, <1>2, <1>3 DEF Scaled
  <2> QED
    BY <1>10, <2>1, <2>2
<1> QED
  BY <1>2, <1>3, <1>8, <1>11, <1>12 DEF JointMoveArrives

\* A part of a way is as many times the way of the polynomial.
LEMMA PartOfWay ==
    ASSUME NEW d \in Int, NEW way \in Nat, NEW speed \in Int, NEW time \in Nat,
           way <= speed * time
    PROVE  Magnitude(d * way) <= (Magnitude(d) * speed) * time
<1> DEFINE m == Magnitude(d)
<1>1. m \in Nat /\ (m = d \/ m = -d)
  BY DEF Magnitude
<1>2. Magnitude(d * way) = m * way
  BY DEF Magnitude
<1> HIDE DEF m
<1>3. m * way <= m * (speed * time)
  BY <1>1
<1>4. m * (speed * time) = (m * speed) * time
  BY <1>1
<1> QED
  BY <1>2, <1>3, <1>4 DEF m

\* The way in a period is one of the slowest ways around the middle.
LEMMA MoveWithinPeak ==
    ASSUME NEW move \in AllMoves, TakenInv(move)
    PROVE  StepsWithinPeak
<1> DEFINE profile == QuinticInit(move.time, move.period)
           joints == DOMAIN move.from
           duration == move.time
           peak == PeakOver(profile, "sDot")
<1>1. /\ duration \in Nat \ {0} /\ move.period \in Nat \ {0} /\ DOMAIN move.to = joints
      /\ \A joint \in joints : move.from[joint] \in Int /\ move.to[joint] \in Int
  BY MovesAreMoves DEF IsJointMove
<1>2. /\ trajectory.profile = profile /\ trajectory.start = move.from
      /\ trajectory.peakVelocity
           = [joint \in joints |-> Magnitude(move.to[joint] - move.from[joint]) * peak]
      /\ profile.duration = duration /\ profile.dt = move.period
  BY PartsOfMove DEF TakenInv, IsTrajectoryOf, QuinticInit
<1> HIDE DEF profile, peak
<1> SUFFICES ASSUME duration % (2 * move.period) = 0,
                    NEW n \in 2 .. Len(taken), NEW joint \in joints
             PROVE  Magnitude(taken[n].q[joint] - taken[n - 1].q[joint])
                      <= trajectory.peakVelocity[joint] * (taken[n].t - taken[n - 1].t)
  BY <1>2 DEF StepsWithinPeak
<1>3. PICK h \in Nat \ {0} :
          duration = 2 * h /\ peak \in Int /\ 30 * h * h * h * h <= peak
  BY <1>1, PeakOfMove DEF profile, peak
<1> DEFINE t == QuinticTime(profile, n - 1)
           u == QuinticTime(profile, (n - 1) - 1)
           d == move.to[joint] - move.from[joint]
           way == Place(duration, t) - Place(duration, u)
<1>4. Len(taken) \in Nat
  BY <1>1, <1>2, SamplesOfMove DEF TakenInv, profile, QuinticInit
<1>5. n \in 1 .. Len(taken) /\ n - 1 \in 1 .. Len(taken)
  BY <1>4
<1>6. /\ n - 1 \in 0 .. profile.samples - 1
      /\ t \in 0 .. duration /\ taken[n].t = t
      /\ taken[n].q[joint] = move.from[joint] * Fifth(duration) + d * Place(duration, t)
  BY <1>2, <1>5, SampleOfMove
<1>7. /\ u \in 0 .. duration /\ taken[n - 1].t = u
      /\ taken[n - 1].q[joint]
           = move.from[joint] * Fifth(duration) + d * Place(duration, u)
  BY <1>2, <1>5, SampleOfMove
<1>8. u < t
  <2>1. profile.samples \in Nat
    BY <1>1, SamplesOfMove DEF profile, QuinticInit
  <2>2. (n - 1) - 1 \in 0 .. profile.samples - 2 /\ ((n - 1) - 1) + 1 = n - 1
    BY <1>4, <1>6, <2>1
  <2>3. \A i \in 0 .. profile.samples - 2 : QuinticTime(profile, i) < QuinticTime(profile, i + 1)
    BY <1>1, TimesOfSamples DEF profile
  <2> QED
    BY <2>2, <2>3
<1> HIDE DEF t, u
<1>9. way \in Nat /\ way <= peak * (t - u)
  <2>1. t - h \in Int /\ u - h \in Int /\ -h <= u - h /\ u - h <= t - h /\ t - h <= h
        /\ (t - h) - (u - h) = t - u /\ t \in Int /\ u \in Int
    BY <1>3, <1>6, <1>7, <1>8
  <2>2. 0 <= Around(h, t - h) - Around(h, u - h)
        /\ Around(h, t - h) - Around(h, u - h) <= 30 * h * h * h * h * (t - u)
    <3> DEFINE x == u - h
               y == t - h
    <3>1. x \in Int /\ y \in Int /\ -h <= x /\ x <= y /\ y <= h /\ y - x = t - u
          /\ h \in Int
      BY <1>3, <2>1
    <3> HIDE DEF x, y
    <3>2. 0 <= Around(h, y) - Around(h, x)
          /\ Around(h, y) - Around(h, x) <= 30 * h * h * h * h * (y - x)
      BY <3>1, FastestInTheMiddle
    <3> QED
      BY <3>1, <3>2 DEF x, y
  <2>3. Place(duration, t) = Around(h, t - h) + 16 * Fifth(h)
        /\ Place(duration, u) = Around(h, u - h) + 16 * Fifth(h)
    <3>1. Place(2 * h, t) = Around(h, t - h) + 16 * Fifth(h)
      BY <1>3, <2>1, AroundTheMiddle
    <3>2. Place(2 * h, u) = Around(h, u - h) + 16 * Fifth(h)
      BY <1>3, <2>1, AroundTheMiddle
    <3> QED
      BY <1>3, <3>1, <3>2
  <2>4. Around(h, t - h) \in Int /\ Around(h, u - h) \in Int /\ 16 * Fifth(h) \in Int
    BY <1>3, <2>1 DEF Around, Fifth
  <2>5. way \in Nat /\ way = Around(h, t - h) - Around(h, u - h)
    BY <2>2, <2>3, <2>4
  <2>6. 30 * h * h * h * h * (t - u) <= peak * (t - u)
    <3>1. t - u \in Nat /\ 30 * h * h * h * h \in Int
      BY <1>3, <1>8, <2>1
    <3> QED
      BY <1>3, <3>1
  <2>7. 30 * h * h * h * h * (t - u) \in Int /\ peak * (t - u) \in Int
    BY <1>3, <2>1
  <2> QED
    BY <2>2, <2>5, <2>6, <2>7
<1>10. taken[n].q[joint] - taken[n - 1].q[joint] = d * way
  <2>1. t \in Int /\ u \in Int /\ duration \in Int /\ d \in Int
    BY <1>1, <1>6, <1>7
  <2>2. Place(duration, t) \in Int /\ Place(duration, u) \in Int
        /\ Fifth(duration) \in Int
    BY <2>1, PlacesAreWhole
  <2>3. move.from[joint] * Fifth(duration) \in Int
    BY <1>1, <2>2
  <2> HIDE DEF d
  <2> QED
    BY <1>6, <1>7, <2>1, <2>2, <2>3
<1>11. Magnitude(d * way) <= (Magnitude(d) * peak) * (t - u)
  <2>1. d \in Int /\ t - u \in Nat
    BY <1>1, <1>6, <1>7, <1>8
  <2> HIDE DEF d, way
  <2> QED
    BY <1>3, <1>9, <2>1, PartOfWay
<1>12. trajectory.peakVelocity[joint] = Magnitude(d) * peak
  BY <1>2
<1> QED
  BY <1>6, <1>7, <1>10, <1>11, <1>12

\* A move of the joints arrives where it was sent, after its duration and from where
\* it began, and no joint goes further in a period than the peak of its speed allows,
\* for all postures, durations and periods.
THEOREM JointMovesAreSound == FairSpec => []JointMoveIsSound
<1>1. FairSpec => Init /\ [][Next]_planningVars
  BY DEF FairSpec
<1>2. Init => JointInv
  BY JointInvInit DEF Init, JointInv, AllMoves
<1>3. JointInv /\ [Next]_planningVars => JointInv'
  <2> SUFFICES ASSUME NEW move \in AllMoves, TakenInv(move), [Next]_planningVars
               PROVE  \E other \in AllMoves : TakenInv(other)'
    BY DEF JointInv, AllMoves
  <2>1. CASE UNCHANGED jointVars
    BY <2>1 DEF jointVars, TakenInv, IsTrajectoryOf, MotionOf
  <2>2. CASE joint_trajectory_next
    BY <2>2, JointInvStep
  <2>3. UNCHANGED jointVars \/ joint_trajectory_next
    BY DEF Next, planningVars, Validating, Reported, Planner, PanelAndCycle, Moving
  <2> QED
    BY <2>1, <2>2, <2>3
<1>4. JointInv => JointMoveIsSound
  BY MoveArrives, MoveWithinPeak DEF JointInv, JointMoveIsSound, JointMoveArrives
<1> QED
  BY <1>1, <1>2, <1>3, <1>4, PTL

-----------------------------------------------------------------------------
(* The shape of a profile.                                                 *)

\* What the shape of a profile has to fulfil: the speed it reaches is the one that
\* its jerk gives it, the path is as long as the time at its speed says, and neither
\* speed nor acceleration is higher than allowed.
IsShapeFor(shape, l) ==
    /\ shape.tJ \in Nat \ {0} /\ shape.tA \in Nat /\ shape.tV \in Nat
    /\ shape.peak \in Nat
    /\ shape.peak = l.j * shape.tJ * (shape.tJ + shape.tA)
    /\ l.d = shape.peak * (2 * shape.tJ + shape.tA + shape.tV)
    /\ shape.peak <= l.v
    /\ l.j * shape.tJ <= l.a

\* A larger number has the larger square, and the larger cube.
LEMMA SquaresGrow ==
    ASSUME NEW a \in Nat, NEW b \in Nat
    PROVE  /\ a < b => a * a < b * b /\ a * a * a < b * b * b
           /\ a * a <= b * b => a <= b
           /\ a * a = b * b => a = b
           /\ a * a * a <= b * b * b => a <= b
<1>1. ASSUME NEW x \in Nat, NEW y \in Nat, x < y
      PROVE  x * x < y * y /\ x * x * x < y * y * y
  <2>1. x * x <= x * y /\ x * y < y * y
    BY <1>1
  <2>2. x * x < y * y /\ x * x \in Nat /\ y * y \in Nat
    BY <2>1
  <2>3. (x * x) * x <= (x * x) * y /\ (x * x) * y < (y * y) * y
    BY <1>1, <2>2
  <2> QED
    BY <2>2, <2>3
<1>2. a < b \/ a = b \/ b < a
  OBVIOUS
<1>3. a < b => a * a < b * b /\ a * a * a < b * b * b
  BY <1>1
<1>4. b < a => b * b < a * a /\ b * b * b < a * a * a
  BY <1>1
<1>5. a * a \in Nat /\ b * b \in Nat /\ a * a * a \in Nat /\ b * b * b \in Nat
  OBVIOUS
<1> QED
  BY <1>2, <1>3, <1>4, <1>5

\* The root of a square.
LEMMA RootOfSquare ==
    ASSUME NEW root \in Nat
    PROVE  SqrtOf(root * root) = root
<1>1. root \in 0 .. root * root
  OBVIOUS
<1>2. \A r \in 0 .. root * root : r * r = root * root => r = root
  BY SquaresGrow
<1> QED
  BY <1>1, <1>2 DEF SqrtOf

\* A quotient without a rest.
LEMMA WholeQuotient ==
    ASSUME NEW n \in Nat, NEW m \in Nat \ {0}, n % m = 0
    PROVE  n \div m \in Nat /\ n = m * (n \div m)
OBVIOUS

\* A product has its other factor as the quotient.
LEMMA QuotientOfProduct ==
    ASSUME NEW n \in Int, NEW m \in Nat \ {0}
    PROVE  (m * n) \div m = n
OBVIOUS

\* A factor that both sides have.
LEMMA Factor ==
    ASSUME NEW k \in Nat \ {0}, NEW x \in Int, NEW y \in Int
    PROVE  /\ k * x <= k * y => x <= y
           /\ k * x < k * y => x < y
           /\ k * x = k * y => x = y
<1>1. ASSUME NEW a \in Int, NEW b \in Int, a < b
      PROVE  k * a < k * b
  BY <1>1
<1>2. x < y \/ x = y \/ y < x
  OBVIOUS
<1>3. k * x \in Int /\ k * y \in Int
  OBVIOUS
<1> QED
  BY <1>1, <1>2, <1>3

\* A path on which the speed is reached before the acceleration is.
LEMMA SpeedLimitedFits ==
    ASSUME NEW l, {l.v, l.a, l.j, l.d} \subseteq Nat \ {0}, SpeedLimitedIsWhole(l),
           l.v * l.j < l.a * l.a, l.d * l.d * l.j >= 4 * l.v * l.v * l.v
    PROVE  IsShapeFor(SpeedLimited(l), l)
<1>1. PICK v \in Nat \ {0}, a \in Nat \ {0}, j \in Nat \ {0}, d \in Nat \ {0} :
          v = l.v /\ a = l.a /\ j = l.j /\ d = l.d
  OBVIOUS
<1>2. PICK r \in 1 .. v : r * r = v \div j
  BY <1>1 DEF SpeedLimitedIsWhole
<1>3. v % j = 0 /\ d % v = 0 /\ v * j < a * a /\ d * d * j >= 4 * v * v * v
  BY <1>1 DEF SpeedLimitedIsWhole
<1>4. r \in Nat \ {0} /\ v = j * (r * r)
  <2>1. v = j * (v \div j)
    BY <1>3, WholeQuotient
  <2> QED
    BY <1>2, <2>1
<1>5. PICK q \in Nat : d = v * q
  BY <1>3, WholeQuotient
<1>6. 2 * r <= q
  <2>1. d * d * j = (v * v) * (q * q * j) /\ 4 * v * v * v = (v * v) * (4 * v)
    BY <1>5
  <2>2. v * v \in Nat \ {0} /\ q * q * j \in Int /\ 4 * v \in Int
    BY <1>4
  <2>3. 4 * v <= q * q * j
    BY <1>3, <2>1, <2>2, Factor
  <2>4. 4 * v = j * ((2 * r) * (2 * r)) /\ q * q * j = j * (q * q)
    BY <1>4
  <2>5. (2 * r) * (2 * r) <= q * q
    BY <1>4, <2>3, <2>4, Factor
  <2> QED
    BY <1>4, <2>5, SquaresGrow
<1>7. j * r <= a
  <2>1. (j * r) * (j * r) = v * j
    BY <1>4
  <2> QED
    BY <1>3, <1>4, <2>1, SquaresGrow
<1>8. SpeedLimited(l) = [peak |-> v, tJ |-> r, tA |-> 0, tV |-> q - 2 * r]
  <2>1. SqrtOf(v \div j) = r
    BY <1>2, <1>4, RootOfSquare
  <2>2. (d - 2 * v * r) \div v = q - 2 * r
    <3>1. d - 2 * v * r = v * (q - 2 * r)
      BY <1>4, <1>5
    <3> QED
      BY <1>4, <3>1, QuotientOfProduct
  <2> QED
    BY <1>1, <2>1, <2>2 DEF SpeedLimited
<1>9. v = j * r * (r + 0) /\ d = v * (2 * r + 0 + (q - 2 * r))
  BY <1>4, <1>5
<1> QED
  BY <1>1, <1>4, <1>6, <1>7, <1>8, <1>9 DEF IsShapeFor

\* A path on which both are reached.
LEMMA FullShapeFits ==
    ASSUME NEW l, {l.v, l.a, l.j, l.d} \subseteq Nat \ {0}, FullShapeIsWhole(l),
           l.v * l.j >= l.a * l.a,
           l.d * l.a * l.j >= l.v * (l.a * l.a + l.v * l.j)
    PROVE  IsShapeFor(FullShape(l), l)
<1>1. PICK v \in Nat \ {0}, a \in Nat \ {0}, j \in Nat \ {0}, d \in Nat \ {0} :
          v = l.v /\ a = l.a /\ j = l.j /\ d = l.d
  OBVIOUS
<1>2. a % j = 0 /\ v % a = 0 /\ d % v = 0 /\ v * j >= a * a
      /\ d * a * j >= v * (a * a + v * j)
  BY <1>1 DEF FullShapeIsWhole
<1> DEFINE r == a \div j
           w == v \div a
<1>3. r \in Nat /\ a = j * r
  BY <1>2, WholeQuotient
<1>4. w \in Nat /\ v = a * w
  BY <1>2, WholeQuotient
<1> HIDE DEF r, w
<1>5. PICK q \in Nat : d = v * q
  BY <1>2, WholeQuotient
<1>6. r \in Nat \ {0}
  BY <1>3
<1>7. r <= w
  <2>1. v * j = (a * j) * w
    BY <1>4
  <2>2. a * a = (a * j) * r
    <3>1. a * a = a * (j * r)
      BY <1>3
    <3> QED
      BY <1>3, <3>1
  <2>3. a * j \in Nat \ {0} /\ v * j >= a * a
    BY <1>2
  <2> HIDE DEF r, w
  <2> QED
    BY <1>3, <1>4, <2>1, <2>2, <2>3, Factor
<1>8. r + w <= q
  <2>1. d * a * j = (v * a * j) * q
    BY <1>5
  <2>2. v * (a * a + v * j) = (v * a * j) * (r + w)
    <3>1. a * a = (a * j) * r
      <4>1. a * a = a * (j * r)
        BY <1>3
      <4> QED
        BY <1>3, <4>1
    <3>2. v * j = (a * j) * w
      BY <1>4
    <3>3. v * (a * a + v * j) = v * ((a * j) * r + (a * j) * w)
      BY <3>1, <3>2
    <3> QED
      BY <1>3, <1>4, <3>3
  <2>3. v * a * j \in Nat \ {0}
    OBVIOUS
  <2> QED
    BY <1>2, <1>3, <1>4, <2>1, <2>2, <2>3, Factor
<1>9. FullShape(l) = [peak |-> v, tJ |-> r, tA |-> w - r, tV |-> q - (r + w)]
  <2>1. (d - v * (r + w)) \div v = q - (r + w)
    <3>1. d - v * (r + w) = v * (q - (r + w)) /\ q - (r + w) \in Int
      BY <1>3, <1>4, <1>5
    <3> QED
      BY <3>1, QuotientOfProduct
  <2> QED
    BY <1>1, <2>1 DEF FullShape, r, w
<1>10. v = j * r * (r + (w - r)) /\ d = v * (2 * r + (w - r) + (q - (r + w)))
  <2>1. r + (w - r) = w /\ 2 * r + (w - r) + (q - (r + w)) = q
    BY <1>3, <1>4
  <2> QED
    BY <1>3, <1>4, <1>5, <2>1
<1>11. w - r \in Nat /\ q - (r + w) \in Nat
  BY <1>3, <1>4, <1>7, <1>8
<1> QED
  BY <1>1, <1>3, <1>6, <1>9, <1>10, <1>11 DEF IsShapeFor

\* A path that is too short for the speed.
LEMMA AccelerationLimitedFits ==
    ASSUME NEW l, {l.v, l.a, l.j, l.d} \subseteq Nat \ {0}, AccelerationLimitedIsWhole(l),
           l.d * l.j * l.j >= 2 * l.a * l.a * l.a
    PROVE  IsShapeFor(AccelerationLimited(l), l)
<1>1. PICK v \in Nat \ {0}, a \in Nat \ {0}, j \in Nat \ {0}, d \in Nat \ {0} :
          v = l.v /\ a = l.a /\ j = l.j /\ d = l.d
  OBVIOUS
<1>2. PICK p \in 1 .. v : p % a = 0 /\ p * (p * j + a * a) = d * a * j
  BY <1>1 DEF AccelerationLimitedIsWhole
<1>3. a % j = 0 /\ d * j * j >= 2 * a * a * a
  BY <1>1 DEF AccelerationLimitedIsWhole
<1> DEFINE r == a \div j
           w == p \div a
<1>4. r \in Nat /\ a = j * r
  BY <1>3, WholeQuotient
<1>5. w \in Nat /\ p = a * w
  <2>1. p \in Nat
    OBVIOUS
  <2> QED
    BY <1>2, <2>1, WholeQuotient
<1> HIDE DEF r, w
<1>6. r \in Nat \ {0} /\ p \in Nat \ {0}
  BY <1>4
<1>7. d = p * (r + w)
  <2>1. p * (p * j + a * a) = (a * j) * (p * (r + w))
    <3>1. a * a = (a * j) * r
      <4>1. a * a = a * (j * r)
        BY <1>4
      <4> QED
        BY <1>4, <4>1
    <3>2. p * j = (a * j) * w
      BY <1>5
    <3>3. p * (p * j + a * a) = p * ((a * j) * w + (a * j) * r)
      BY <3>1, <3>2
    <3> QED
      BY <1>4, <1>5, <1>6, <3>3
  <2>2. d * a * j = (a * j) * d
    OBVIOUS
  <2>3. a * j \in Nat \ {0} /\ p * (r + w) \in Int
    BY <1>4, <1>5, <1>6
  <2> QED
    BY <1>2, <2>1, <2>2, <2>3, Factor
<1>8. r <= w
  <2>1. SUFFICES ASSUME w < r PROVE FALSE
    BY <1>4, <1>5
  <2>2. d * j * j = (a * j * j) * (w * (r + w))
    <3>1. d = a * (w * (r + w))
      BY <1>4, <1>5, <1>7
    <3> QED
      BY <1>4, <1>5, <3>1
  <2>3. 2 * a * a * a = (a * j * j) * (2 * (r * r))
    <3>1. a * a = (j * r) * (j * r)
      BY <1>4
    <3>2. 2 * a * a * a = 2 * a * ((j * r) * (j * r))
      BY <3>1
    <3> QED
      BY <1>4, <3>2
  <2>4. 2 * (r * r) <= w * (r + w)
    <3>1. a * j * j \in Nat \ {0} /\ w * (r + w) \in Int /\ 2 * (r * r) \in Int
      BY <1>4, <1>5
    <3> QED
      BY <1>3, <2>2, <2>3, <3>1, Factor
  <2>5. w * (r + w) < 2 * (r * r)
    <3>1. w * r < r * r /\ w * w <= r * w
      BY <1>4, <1>5, <1>6, <2>1
    <3> QED
      BY <1>4, <1>5, <3>1
  <2>6. w * (r + w) \in Int /\ 2 * (r * r) \in Int
    BY <1>4, <1>5
  <2> QED
    BY <2>4, <2>5, <2>6
<1>9. (a * a) \div j = a * r
  <2>1. a * a = j * (a * r) /\ a * r \in Int
    <3>1. a * a = a * (j * r)
      BY <1>4
    <3> QED
      BY <1>4, <3>1
  <2> QED
    BY <2>1, QuotientOfProduct
<1>10. SqrtOf((a * r) * (a * r) + 4 * a * d) = 2 * p + a * r
  <2>1. a * d = p * (a * r) + p * p
    <3>1. a * d = p * (a * r) + p * (a * w)
      BY <1>4, <1>5, <1>7
    <3> QED
      BY <1>5, <3>1
  <2>2. (a * r) * (a * r) + 4 * a * d = (2 * p + a * r) * (2 * p + a * r)
    <3>1. 4 * a * d = 4 * (a * d)
      BY <1>4, <1>5, <1>7
    <3> QED
      BY <1>4, <2>1, <3>1
  <2>3. 2 * p + a * r \in Nat
    BY <1>4, <1>6
  <2> QED
    BY <2>2, <2>3, RootOfSquare
<1>11. ((2 * p + a * r) - a * r) \div 2 = p
  BY <1>4, <1>6
<1>12. AccelerationLimited(l) = [peak |-> p, tJ |-> r, tA |-> w - r, tV |-> 0]
  BY <1>1, <1>9, <1>10, <1>11 DEF AccelerationLimited, r, w
<1>13. p = j * r * (r + (w - r)) /\ d = p * (2 * r + (w - r) + 0)
  <2>1. r + (w - r) = w /\ 2 * r + (w - r) + 0 = r + w
    BY <1>4, <1>5
  <2> QED
    BY <1>4, <1>5, <1>7, <2>1
<1> QED
  BY <1>1, <1>4, <1>5, <1>6, <1>8, <1>12, <1>13 DEF IsShapeFor

\* A path that is too short for the acceleration.
LEMMA JerkLimitedFits ==
    ASSUME NEW l, {l.v, l.a, l.j, l.d} \subseteq Nat \ {0}, JerkLimitedIsWhole(l),
           \/ l.v * l.j < l.a * l.a
           \/ l.d * l.j * l.j < 2 * l.a * l.a * l.a
    PROVE  IsShapeFor(JerkLimited(l), l)
<1>1. PICK v \in Nat \ {0}, a \in Nat \ {0}, j \in Nat \ {0}, d \in Nat \ {0} :
          v = l.v /\ a = l.a /\ j = l.j /\ d = l.d
  OBVIOUS
<1>2. PICK p \in 1 .. v : /\ 4 * p * p * p = d * d * j /\ p % j = 0
                          /\ \E root \in 1 .. p : root * root = p \div j
  BY <1>1 DEF JerkLimitedIsWhole
<1>3. PICK r \in 1 .. p : r * r = p \div j
  BY <1>2
<1>4. r \in Nat \ {0} /\ p \in Nat \ {0} /\ p = j * (r * r)
  <2>1. p \in Nat /\ p % j = 0
    BY <1>2
  <2>2. p = j * (p \div j)
    BY <2>1, WholeQuotient
  <2> QED
    BY <1>3, <2>1, <2>2
<1>5. d = 2 * p * r
  <2>1. 4 * p * p * p = j * ((2 * p * r) * (2 * p * r))
    BY <1>4
  <2>2. d * d * j = j * (d * d)
    OBVIOUS
  <2>3. d * d = (2 * p * r) * (2 * p * r)
    BY <1>2, <1>4, <2>1, <2>2, Factor
  <2> QED
    BY <1>4, <2>3, SquaresGrow
<1>6. j * r <= a
  <2>1. CASE v * j < a * a
    <3>1. (j * r) * (j * r) = p * j
      BY <1>4
    <3>2. p * j <= v * j
      BY <1>2
    <3> QED
      BY <1>4, <2>1, <3>1, <3>2, SquaresGrow
  <2>2. CASE d * j * j < 2 * a * a * a
    <3>1. d * j * j = 2 * ((j * r) * (j * r) * (j * r))
      BY <1>4, <1>5
    <3>2. (j * r) * (j * r) * (j * r) <= a * a * a
      BY <1>4, <2>2, <3>1
    <3> QED
      BY <1>4, <3>2, SquaresGrow
  <2> QED
    BY <1>1, <2>1, <2>2
<1>7. (CHOOSE x \in 1 .. v : 4 * x * x * x = d * d * j) = p
  <2>1. \A x \in 1 .. v : 4 * x * x * x = 4 * p * p * p => x = p
    <3> SUFFICES ASSUME NEW x \in 1 .. v, 4 * x * x * x = 4 * p * p * p
                 PROVE  x = p
      OBVIOUS
    <3>1. x \in Nat /\ x * x * x <= p * p * p /\ p * p * p <= x * x * x
      BY <1>4
    <3> QED
      BY <1>4, <3>1, SquaresGrow
  <2> QED
    BY <1>2, <2>1
<1>8. JerkLimited(l) = [peak |-> p, tJ |-> r, tA |-> 0, tV |-> 0]
  BY <1>1, <1>3, <1>4, <1>7, RootOfSquare DEF JerkLimited
<1>9. p = j * r * (r + 0) /\ d = p * (2 * r + 0 + 0)
  BY <1>4, <1>5
<1> QED
  BY <1>1, <1>2, <1>4, <1>6, <1>8, <1>9 DEF IsShapeFor

\* Whichever of the four shapes a path is long enough for, it fits.
LEMMA ShapeFits ==
    ASSUME NEW l, IsWhole(l)
    PROVE  IsShapeFor(ShapeOf(l), l)
<1>1. {l.v, l.a, l.j, l.d} \subseteq Nat \ {0}
  BY DEF IsWhole
<1>2. l.v * l.j \in Int /\ l.a * l.a \in Int
  BY <1>1
<1>3. CASE l.v * l.j < l.a * l.a
  BY <1>1, <1>3, SpeedLimitedFits, JerkLimitedFits DEF IsWhole, ShapeOf
<1>4. CASE ~ (l.v * l.j < l.a * l.a)
  <2>1. l.v * l.j >= l.a * l.a
    BY <1>2, <1>4
  <2>2. CASE l.d * l.a * l.j >= l.v * (l.a * l.a + l.v * l.j)
    BY <1>1, <1>4, <2>1, <2>2, FullShapeFits DEF IsWhole, ShapeOf
  <2>3. CASE ~ (l.d * l.a * l.j >= l.v * (l.a * l.a + l.v * l.j))
    <3>1. CASE l.d * l.j * l.j >= 2 * l.a * l.a * l.a
      BY <1>1, <1>4, <2>3, <3>1, AccelerationLimitedFits DEF IsWhole, ShapeOf
    <3>2. CASE ~ (l.d * l.j * l.j >= 2 * l.a * l.a * l.a)
      <4>1. l.d * l.j * l.j < 2 * l.a * l.a * l.a
        BY <1>1, <3>2
      <4> QED
        BY <1>1, <1>4, <2>3, <3>2, <4>1, JerkLimitedFits DEF IsWhole, ShapeOf
    <3> QED
      BY <3>1, <3>2
  <2> QED
    BY <2>2, <2>3
<1> QED
  BY <1>3, <1>4

-----------------------------------------------------------------------------
(* The seven segments of a profile.                                        *)

\* A function that fulfils the recursive definition of the starts of the segments.
IsStarts(f, lasting, jerk, m) ==
    f = [k \in 1 .. m |-> IF k = 1 THEN AtRest
                          ELSE After(f[k - 1], lasting[k - 1], jerk[k - 1])]

\* There is one.
LEMMA StartsExist ==
    ASSUME NEW lasting, NEW jerk, NEW m \in Nat \ {0}
    PROVE  \E f : IsStarts(f, lasting, jerk, m)
<1> DEFINE Without == {i \in Nat \ {0} : ~ \E f : IsStarts(f, lasting, jerk, i)}
<1>1. \E f : IsStarts(f, lasting, jerk, 1)
  <2>1. IsStarts([k \in 1 .. 1 |-> AtRest], lasting, jerk, 1)
    BY DEF IsStarts
  <2> QED
    BY <2>1
<1>2. ASSUME NEW i \in Nat \ {0}, \E f : IsStarts(f, lasting, jerk, i)
      PROVE  \E f : IsStarts(f, lasting, jerk, i + 1)
  <2>1. PICK f : IsStarts(f, lasting, jerk, i)
    BY <1>2
  <2> DEFINE g == [k \in 1 .. i + 1 |-> IF k = i + 1 THEN After(f[i], lasting[i], jerk[i])
                                        ELSE f[k]]
  <2>2. \A k \in 1 .. i : f[k] = IF k = 1 THEN AtRest
                                 ELSE After(f[k - 1], lasting[k - 1], jerk[k - 1])
    BY <2>1 DEF IsStarts
  <2>3. \A k \in 1 .. i + 1 : g[k] = IF k = 1 THEN AtRest
                                     ELSE After(g[k - 1], lasting[k - 1], jerk[k - 1])
    BY <2>2
  <2>4. g = [k \in 1 .. i + 1 |-> g[k]]
    OBVIOUS
  <2> HIDE DEF g
  <2>5. IsStarts(g, lasting, jerk, i + 1)
    BY <2>3, <2>4 DEF IsStarts
  <2> QED
    BY <2>5
<1>3. ASSUME Without # {}
      PROVE  FALSE
  <2>1. PICK i \in Without : \A k \in Without : ~ (k < i)
    BY <1>3, SmallestOf
  <2>2. i \in Nat \ {0} /\ i # 1
    BY <1>1, <2>1
  <2>3. i - 1 \in Nat \ {0} /\ i - 1 < i /\ (i - 1) + 1 = i
    BY <2>2
  <2>4. \E f : IsStarts(f, lasting, jerk, i - 1)
    BY <2>1, <2>3
  <2> QED
    BY <1>2, <2>1, <2>3, <2>4
<1> QED
  BY <1>3

\* A segment starts where the one before it has come to.
Chained(origin, lasting, jerk) ==
    /\ origin[1] = AtRest
    /\ \A k \in 1 .. Len(lasting) : origin[k + 1] = After(origin[k], lasting[k], jerk[k])

\* So the motion at the start of each segment is.
LEMMA StartsFollow ==
    ASSUME NEW lasting, NEW jerk, Len(lasting) \in Nat
    PROVE  Chained(StartsFrom(lasting, jerk), lasting, jerk)
<1> DEFINE m == Len(lasting) + 1
           origin == CHOOSE f : IsStarts(f, lasting, jerk, m)
<1>1. m \in Nat \ {0}
  OBVIOUS
<1>2. StartsFrom(lasting, jerk) = [k \in 1 .. m |-> origin[k]]
  BY DEF StartsFrom, IsStarts
<1>3. IsStarts(origin, lasting, jerk, m)
  <2> HIDE DEF m
  <2>1. \E f : IsStarts(f, lasting, jerk, m)
    BY <1>1, StartsExist
  <2> QED
    BY <2>1
<1> HIDE DEF origin
<1>4. \A k \in 1 .. m : origin[k] = IF k = 1 THEN AtRest
                                   ELSE After(origin[k - 1], lasting[k - 1], jerk[k - 1])
  BY <1>3 DEF IsStarts
<1>5. ASSUME NEW k \in 1 .. Len(lasting)
      PROVE  StartsFrom(lasting, jerk)[k + 1]
               = After(StartsFrom(lasting, jerk)[k], lasting[k], jerk[k])
  <2>1. k \in 1 .. m /\ k + 1 \in 1 .. m /\ k + 1 # 1 /\ (k + 1) - 1 = k
    OBVIOUS
  <2> QED
    BY <1>2, <1>4, <2>1
<1>6. 1 \in 1 .. m
  OBVIOUS
<1> QED
  BY <1>2, <1>4, <1>5, <1>6 DEF Chained

\* The motion with a jerk that is held for T, A, T, V, T, A and T.
At(t, s, v, a) == [t |-> t, s |-> s, v |-> v, a |-> a]

Corners(j, T, A, V) ==
    LET P == j * T * (T + A)
        s3 == j * T * T * T + 3 * (j * T * T) * A + 3 * (j * T) * A * A
        s5 == 3 * P * (2 * T + A) + 6 * P * V
        s6 == s5 + 6 * P * T - j * T * T * T
    IN << AtRest,
          At(T, j * T * T * T, j * T * T, j * T),
          At(T + A, s3, j * T * T + 2 * (j * T) * A, j * T),
          At(2 * T + A, 3 * P * (2 * T + A), 2 * P, 0),
          At(2 * T + A + V, s5, 2 * P, 0),
          At(3 * T + A + V, s6, 2 * P - j * T * T, -(j * T)),
          At(3 * T + 2 * A + V, s6 + 3 * (2 * P - j * T * T) * A - 3 * (j * T) * A * A,
             j * T * T, -(j * T)),
          At(4 * T + 2 * A + V, 6 * P * (2 * T + A + V), 0, 0) >>

\* Each corner is what the motion at the one before has become.
LEMMA CornersFollow ==
    ASSUME NEW j \in Nat, NEW T \in Nat, NEW A \in Nat, NEW V \in Nat
    PROVE  LET c == Corners(j, T, A, V)
           IN /\ After(AtRest, T, j) = c[2]
              /\ After(c[2], A, 0) = c[3]
              /\ After(c[3], T, -j) = c[4]
              /\ After(c[4], V, 0) = c[5]
              /\ After(c[5], T, -j) = c[6]
              /\ After(c[6], A, 0) = c[7]
              /\ After(c[7], T, j) = c[8]
<1> USE DEF Corners, After, At, AtRest
<1> DEFINE c == Corners(j, T, A, V)
<1>1. After(AtRest, T, j) = c[2]
  OBVIOUS
<1>2. After(c[2], A, 0) = c[3]
  OBVIOUS
<1>3. After(c[3], T, -j) = c[4]
  OBVIOUS
<1>4. After(c[4], V, 0) = c[5]
  OBVIOUS
<1>5. After(c[5], T, -j) = c[6]
  OBVIOUS
<1>6. After(c[6], A, 0) = c[7]
  OBVIOUS
<1>7. After(c[7], T, j) = c[8]
  OBVIOUS
<1> QED
  BY <1>1, <1>2, <1>3, <1>4, <1>5, <1>6, <1>7

\* How long each segment lasts, and the jerk it holds.
Holds(T, A, V) == << T, A, T, V, T, A, T >>
JerksOf(j) == << j, 0, -j, 0, -j, 0, j >>

\* The motion after h periods of the k-th segment.
InSegment(j, T, A, V, k, h) ==
    After(Corners(j, T, A, V)[k], h, JerksOf(j)[k])

\* What holds at every time of a segment.
KeepsLimits(j, T, A, x) ==
    x.v \in 0 .. 2 * (j * T * (T + A)) /\ x.a \in -(j * T) .. j * T

\* The products of the numbers that a segment is given by.
LEMMA Products ==
    ASSUME NEW j \in Nat \ {0}, NEW T \in Nat \ {0}, NEW A \in Nat, NEW h \in Nat
    PROVE  /\ j * T \in Nat \ {0} /\ j * T * T \in Nat \ {0} /\ j * T * A \in Nat
           /\ j * h \in Nat /\ j * T * h \in Nat /\ j * h * h \in Nat
           /\ h <= T => /\ j * h <= j * T /\ j * h * h <= j * T * h
                        /\ j * T * h <= j * T * T
           /\ h <= A => j * T * h <= j * T * A
           /\ h <= T => j * (T - h) * (T - h) \in Nat
           /\ 1 <= h => j <= j * h /\ j * T <= j * T * h /\ j * h <= j * h * h
           /\ j * T <= j * T * T /\ j <= j * T
<1>1. j * T \in Nat \ {0}
  OBVIOUS
<1>2. ASSUME NEW k \in Nat, NEW x \in Nat, NEW y \in Nat, x <= y
      PROVE  k * x <= k * y /\ k * x \in Nat
  BY <1>2
<1>3. h <= T => j * h <= j * T /\ (j * h) * h <= (j * h) * T /\ (j * T) * h <= (j * T) * T
  BY <1>1, <1>2
<1>4. h <= A => (j * T) * h <= (j * T) * A
  BY <1>1, <1>2
<1>5. 1 <= h => j * 1 <= j * h /\ (j * T) * 1 <= (j * T) * h /\ (j * h) * 1 <= (j * h) * h
  BY <1>1, <1>2
<1>6. (j * T) * 1 <= (j * T) * T /\ j * 1 <= j * T
  BY <1>1, <1>2
<1>7. h <= T => j * (T - h) \in Nat /\ T - h \in Nat
  OBVIOUS
<1> QED
  BY <1>1, <1>3, <1>4, <1>5, <1>6, <1>7

\* No segment is faster or pulls harder than its corners.
LEMMA SegmentKeepsLimits ==
    ASSUME NEW j \in Nat \ {0}, NEW T \in Nat \ {0}, NEW A \in Nat, NEW V \in Nat,
           NEW k \in 1 .. 7, NEW h \in 0 .. Holds(T, A, V)[k]
    PROVE  KeepsLimits(j, T, A, InSegment(j, T, A, V, k, h))
<1> USE DEF InSegment, Corners, JerksOf, Holds, After, At, AtRest, KeepsLimits
<1>1. h \in Nat
  OBVIOUS
<1>2. /\ j * T \in Nat \ {0} /\ j * T * T \in Nat \ {0} /\ j * T * A \in Nat
      /\ j * h \in Nat /\ j * T * h \in Nat /\ j * h * h \in Nat
      /\ h <= T => /\ j * h <= j * T /\ j * h * h <= j * T * h
                   /\ j * T * h <= j * T * T
      /\ h <= A => j * T * h <= j * T * A
      /\ h <= T => j * (T - h) * (T - h) \in Nat
  BY <1>1, Products
<1>3. h <= T => j * (T - h) * (T - h) = j * T * T - 2 * (j * T * h) + j * h * h
  BY <1>1
<1>4. j * T * (T + A) = j * T * T + j * T * A
  OBVIOUS
<1>5. CASE k = 1
  BY <1>1, <1>2, <1>3, <1>4, <1>5
<1>6. CASE k = 2
  BY <1>1, <1>2, <1>3, <1>4, <1>6
<1>7. CASE k = 3
  BY <1>1, <1>2, <1>3, <1>4, <1>7
<1>8. CASE k = 4
  BY <1>1, <1>2, <1>3, <1>4, <1>8
<1>9. CASE k = 5
  BY <1>1, <1>2, <1>3, <1>4, <1>9
<1>10. CASE k = 6
  BY <1>1, <1>2, <1>3, <1>4, <1>10
<1>11. CASE k = 7
  <2>1. /\ InSegment(j, T, A, V, 7, h).v = j * T * T - 2 * (j * T * h) + j * h * h
        /\ InSegment(j, T, A, V, 7, h).a = j * h - j * T
    BY <1>1
  <2>2. h <= T
    BY <1>11
  <2> HIDE DEF InSegment
  <2> QED
    BY <1>1, <1>2, <1>3, <1>4, <1>11, <2>1, <2>2
<1> HIDE DEF KeepsLimits, InSegment, Holds
<1> QED
  BY <1>5, <1>6, <1>7, <1>8, <1>9, <1>10, <1>11

\* In every period of a segment the way grows, by no more than at the speed of the
\* motion.
Grows(j, T, A, x, y) ==
    /\ x.s \in Int /\ y.s \in Int
    /\ x.s < y.s
    /\ y.s <= x.s + 6 * (j * T * (T + A))

\* Within a segment the way grows, by no more than the speed that is reached.
LEMMA SegmentGrows ==
    ASSUME NEW j \in Nat \ {0}, NEW T \in Nat \ {0}, NEW A \in Nat, NEW V \in Nat,
           NEW k \in 1 .. 7, NEW h \in 1 .. Holds(T, A, V)[k]
    PROVE  Grows(j, T, A, InSegment(j, T, A, V, k, h - 1), InSegment(j, T, A, V, k, h))
<1> USE DEF InSegment, Corners, JerksOf, Holds, After, At, AtRest
<1> DEFINE way(g) == InSegment(j, T, A, V, k, g).s
<1>1. h \in Nat /\ 1 <= h
  OBVIOUS
<1>2. /\ j * T \in Nat \ {0} /\ j * T * T \in Nat \ {0} /\ j * T * A \in Nat
      /\ j * h \in Nat /\ j * T * h \in Nat /\ j * h * h \in Nat
      /\ h <= T => /\ j * h <= j * T /\ j * h * h <= j * T * h
                   /\ j * T * h <= j * T * T
      /\ h <= A => j * T * h <= j * T * A
      /\ h <= T => j * (T - h) * (T - h) \in Nat
      /\ j <= j * h /\ j * T <= j * T * h /\ j * h <= j * h * h
      /\ j * T <= j * T * T /\ j <= j * T
  BY <1>1, Products
<1>3. h <= T => j * (T - h) * (T - h) = j * T * T - 2 * (j * T * h) + j * h * h
  BY <1>1
<1> DEFINE grown == 6 * (j * T * T) + 6 * (j * T * A)
<1>11. 6 * (j * T * (T + A)) = grown
  OBVIOUS
<1>12. h <= T => j * h * h <= j * T * T
  BY <1>2
<1>13. j * h <= j * h * h /\ j <= j * h
  BY <1>2
<1>4. CASE k = 1
  <2>1. way(h) - way(h - 1) = 3 * (j * h * h) - 3 * (j * h) + j
    BY <1>1, <1>4
  <2>2. way(h) \in Int /\ way(h - 1) \in Int
    BY <1>1, <1>4
  <2> HIDE DEF way
  <2>3. 3 * (j * h * h) - 3 * (j * h) + j \in 1 .. grown
    <3>1. h <= T
      BY <1>4
    <3> QED
      BY <1>1, <1>2, <1>12, <1>13, <3>1
  <2>4. way(h - 1) < way(h) /\ way(h) <= way(h - 1) + grown
    BY <2>1, <2>2, <2>3, <1>2
  <2> HIDE DEF InSegment
  <2> QED
    BY <1>11, <2>2, <2>4 DEF way, Grows
<1>5. CASE k = 2
  <2>1. way(h) - way(h - 1) = 3 * (j * T * T) + 6 * (j * T * h) - 3 * (j * T)
    BY <1>1, <1>5
  <2>2. way(h) \in Int /\ way(h - 1) \in Int
    BY <1>1, <1>5
  <2> HIDE DEF way
  <2>3. 3 * (j * T * T) + 6 * (j * T * h) - 3 * (j * T) \in 1 .. grown
    <3>1. h <= A
      BY <1>5
    <3> QED
      BY <1>1, <1>2, <3>1
  <2>4. way(h - 1) < way(h) /\ way(h) <= way(h - 1) + grown
    BY <2>1, <2>2, <2>3, <1>2
  <2> HIDE DEF InSegment
  <2> QED
    BY <1>11, <2>2, <2>4 DEF way, Grows
<1>6. CASE k = 3
  <2>1. way(h) - way(h - 1)
          = 3 * (j * T * T) + 6 * (j * T * A) + 6 * (j * T * h) - 3 * (j * T)
              - (3 * (j * h * h) - 3 * (j * h) + j)
    BY <1>1, <1>6
  <2>2. way(h) \in Int /\ way(h - 1) \in Int
    BY <1>1, <1>6
  <2>3. h <= T
    BY <1>6
  <2> HIDE DEF way
  <2>4. 3 * (j * T * T) + 6 * (j * T * A) + 6 * (j * T * h) - 3 * (j * T)
          - (3 * (j * h * h) - 3 * (j * h) + j) \in 1 .. grown
    BY <1>1, <1>2, <2>3
  <2>5. way(h - 1) < way(h) /\ way(h) <= way(h - 1) + grown
    BY <2>1, <2>2, <2>4, <1>2
  <2> HIDE DEF InSegment
  <2> QED
    BY <1>11, <2>2, <2>5 DEF way, Grows
<1>7. CASE k = 4
  <2>1. way(h) - way(h - 1) = 6 * (j * T * T) + 6 * (j * T * A)
    BY <1>1, <1>7
  <2>2. way(h) \in Int /\ way(h - 1) \in Int
    BY <1>1, <1>7
  <2> HIDE DEF way
  <2>3. way(h - 1) < way(h) /\ way(h) <= way(h - 1) + grown
    BY <2>1, <2>2, <1>2
  <2> HIDE DEF InSegment
  <2> QED
    BY <1>11, <2>2, <2>3 DEF way, Grows
<1>8. CASE k = 5
  <2>1. way(h) - way(h - 1)
          = 6 * (j * T * T) + 6 * (j * T * A) - (3 * (j * h * h) - 3 * (j * h) + j)
    BY <1>1, <1>8
  <2>2. way(h) \in Int /\ way(h - 1) \in Int
    BY <1>1, <1>8
  <2>3. h <= T
    BY <1>8
  <2> HIDE DEF way
  <2>4. 6 * (j * T * T) + 6 * (j * T * A) - (3 * (j * h * h) - 3 * (j * h) + j) \in 1 .. grown
    BY <1>1, <1>2, <2>3
  <2>5. way(h - 1) < way(h) /\ way(h) <= way(h - 1) + grown
    BY <2>1, <2>2, <2>4, <1>2
  <2> HIDE DEF InSegment
  <2> QED
    BY <1>11, <2>2, <2>5 DEF way, Grows
<1>9. CASE k = 6
  <2>1. way(h) - way(h - 1)
          = 3 * (j * T * T) + 6 * (j * T * A) - 6 * (j * T * h) + 3 * (j * T)
    BY <1>1, <1>9
  <2>2. way(h) \in Int /\ way(h - 1) \in Int
    BY <1>1, <1>9
  <2>3. h <= A
    BY <1>9
  <2> HIDE DEF way
  <2>4. 3 * (j * T * T) + 6 * (j * T * A) - 6 * (j * T * h) + 3 * (j * T) \in 1 .. grown
    BY <1>1, <1>2, <2>3
  <2>5. way(h - 1) < way(h) /\ way(h) <= way(h - 1) + grown
    BY <2>1, <2>2, <2>4, <1>2
  <2> HIDE DEF InSegment
  <2> QED
    BY <1>11, <2>2, <2>5 DEF way, Grows
<1>10. CASE k = 7
  <2>1. way(h) - way(h - 1)
          = 3 * (j * T * T - 2 * (j * T * h) + j * h * h) + 3 * (j * T - j * h) + j
    BY <1>1, <1>10
  <2>2. way(h) \in Int /\ way(h - 1) \in Int
    BY <1>1, <1>10
  <2>3. h <= T
    BY <1>10
  <2> HIDE DEF way
  <2>4. 3 * (j * T * T - 2 * (j * T * h) + j * h * h) + 3 * (j * T - j * h) + j \in 1 .. grown
    BY <1>1, <1>2, <1>3, <2>3
  <2>5. way(h - 1) < way(h) /\ way(h) <= way(h - 1) + grown
    BY <2>1, <2>2, <2>4, <1>2
  <2> HIDE DEF InSegment
  <2> QED
    BY <1>11, <2>2, <2>5 DEF way, Grows
<1> HIDE DEF InSegment, Holds, Grows
<1> QED
  BY <1>4, <1>5, <1>6, <1>7, <1>8, <1>9, <1>10

\* Corners lie one after the other, and those at the same time are the same.
InOrder(c, k, m) == c[k].t <= c[m].t /\ (c[k].t = c[m].t => c[k] = c[m])

\* So do the corners of a motion.
LEMMA CornersAtATime ==
    ASSUME NEW j \in Nat, NEW T \in Nat \ {0}, NEW A \in Nat, NEW V \in Nat,
           NEW k \in 1 .. 8, NEW m \in 1 .. 8, k <= m
    PROVE  InOrder(Corners(j, T, A, V), k, m)
<1> DEFINE c == Corners(j, T, A, V)
<1>1. /\ c[1].t = 0 /\ c[2].t = T /\ c[3].t = T + A /\ c[4].t = 2 * T + A
      /\ c[5].t = 2 * T + A + V /\ c[6].t = 3 * T + A + V
      /\ c[7].t = 3 * T + 2 * A + V /\ c[8].t = 4 * T + 2 * A + V
  BY DEF Corners, At, AtRest
<1>2. A = 0 => c[2] = c[3]
  BY DEF Corners, At, AtRest
<1>3. V = 0 => c[4] = c[5]
  BY DEF Corners, At, AtRest
<1>4. A = 0 => c[6] = c[7]
  BY DEF Corners, At, AtRest
<1> HIDE DEF c
<1>5. c[k].t <= c[m].t
  BY <1>1
<1>6. c[k].t = c[m].t => \/ k = m
                         \/ (k = 2 /\ m = 3 /\ A = 0)
                         \/ (k = 4 /\ m = 5 /\ V = 0)
                         \/ (k = 6 /\ m = 7 /\ A = 0)
  BY <1>1
<1>7. c[k].t = c[m].t => c[k] = c[m]
  BY <1>2, <1>3, <1>4, <1>6
<1> QED
  BY <1>5, <1>7 DEF c, InOrder

\* A segment goes from its corner to the next.
MeetsCorners(j, T, A, V, k) ==
    LET c == Corners(j, T, A, V)
    IN /\ InSegment(j, T, A, V, k, 0) = c[k]
       /\ InSegment(j, T, A, V, k, Holds(T, A, V)[k]) = c[k + 1]
       /\ c[k].t + Holds(T, A, V)[k] = c[k + 1].t
       /\ c[k].t \in Nat /\ Holds(T, A, V)[k] \in Nat

\* Every segment does.
LEMMA SegmentMeetsCorners ==
    ASSUME NEW j \in Nat, NEW T \in Nat, NEW A \in Nat, NEW V \in Nat, NEW k \in 1 .. 7
    PROVE  MeetsCorners(j, T, A, V, k)
<1> DEFINE c == Corners(j, T, A, V)
<1>1. InSegment(j, T, A, V, k, 0) = c[k]
  <2>1. CASE k = 1
    BY <2>1 DEF InSegment, Corners, After, At, AtRest, JerksOf
  <2>2. CASE k = 2
    BY <2>2 DEF InSegment, Corners, After, At, AtRest, JerksOf
  <2>3. CASE k = 3
    BY <2>3 DEF InSegment, Corners, After, At, AtRest, JerksOf
  <2>4. CASE k = 4
    BY <2>4 DEF InSegment, Corners, After, At, AtRest, JerksOf
  <2>5. CASE k = 5
    BY <2>5 DEF InSegment, Corners, After, At, AtRest, JerksOf
  <2>6. CASE k = 6
    BY <2>6 DEF InSegment, Corners, After, At, AtRest, JerksOf
  <2>7. CASE k = 7
    BY <2>7 DEF InSegment, Corners, After, At, AtRest, JerksOf
  <2> QED
    BY <2>1, <2>2, <2>3, <2>4, <2>5, <2>6, <2>7
<1>2. InSegment(j, T, A, V, k, Holds(T, A, V)[k]) = c[k + 1]
  <2>1. CASE k = 1
    BY <2>1, CornersFollow DEF InSegment, Holds, JerksOf, Corners
  <2>2. CASE k = 2
    BY <2>2, CornersFollow DEF InSegment, Holds, JerksOf
  <2>3. CASE k = 3
    BY <2>3, CornersFollow DEF InSegment, Holds, JerksOf
  <2>4. CASE k = 4
    BY <2>4, CornersFollow DEF InSegment, Holds, JerksOf
  <2>5. CASE k = 5
    BY <2>5, CornersFollow DEF InSegment, Holds, JerksOf
  <2>6. CASE k = 6
    BY <2>6, CornersFollow DEF InSegment, Holds, JerksOf
  <2>7. CASE k = 7
    BY <2>7, CornersFollow DEF InSegment, Holds, JerksOf
  <2> QED
    BY <2>1, <2>2, <2>3, <2>4, <2>5, <2>6, <2>7
<1>3. c[k].t + Holds(T, A, V)[k] = c[k + 1].t
      /\ c[k].t \in Nat /\ Holds(T, A, V)[k] \in Nat
  BY DEF Holds, Corners, At, AtRest
<1> QED
  BY <1>1, <1>2, <1>3 DEF MeetsCorners

-----------------------------------------------------------------------------
(* The samples of a profile.                                               *)

\* A profile whose segments start at the corners of a motion.
IsAlong(p, j, T, A, V) ==
    /\ \A k \in 1 .. 8 : p.starts[k] = Corners(j, T, A, V)[k]
    /\ p.duration = Corners(j, T, A, V)[8].t
    /\ Jerks(p.limits) = JerksOf(j)
    /\ Sixths * p.limits.d = 6 * (j * T * (T + A)) * (2 * T + A + V)

\* Every time lies in a segment, behind its start.
LEMMA SegmentAtTime ==
    ASSUME NEW j \in Nat, NEW T \in Nat \ {0}, NEW A \in Nat, NEW V \in Nat,
           NEW t \in 1 .. Corners(j, T, A, V)[8].t
    PROVE  \E k \in 1 .. 7 : /\ Corners(j, T, A, V)[k].t < t
                             /\ t <= Corners(j, T, A, V)[k + 1].t
<1> DEFINE c == Corners(j, T, A, V)
<1>1. /\ c[1].t = 0 /\ c[2].t = T /\ c[3].t = T + A /\ c[4].t = 2 * T + A
      /\ c[5].t = 2 * T + A + V /\ c[6].t = 3 * T + A + V
      /\ c[7].t = 3 * T + 2 * A + V /\ c[8].t = 4 * T + 2 * A + V
  BY DEF Corners, At, AtRest
<1>2. t \in Nat /\ 0 < t /\ t <= c[8].t
  BY <1>1
<1> HIDE DEF c
<1>3. \/ c[1].t < t /\ t <= c[2].t
      \/ c[2].t < t /\ t <= c[3].t
      \/ c[3].t < t /\ t <= c[4].t
      \/ c[4].t < t /\ t <= c[5].t
      \/ c[5].t < t /\ t <= c[6].t
      \/ c[6].t < t /\ t <= c[7].t
      \/ c[7].t < t /\ t <= c[8].t
  BY <1>1, <1>2
<1>4. \E k \in 1 .. 7 : c[k].t < t /\ t <= c[k + 1].t
  BY <1>3
<1> QED
  BY <1>4 DEF c

\* The segment in which a profile looks a time up.
LEMMA SegmentFound ==
    ASSUME NEW j \in Nat, NEW T \in Nat \ {0}, NEW A \in Nat, NEW V \in Nat,
           NEW p, IsAlong(p, j, T, A, V),
           NEW t \in 1 .. Corners(j, T, A, V)[8].t, t < p.duration
    PROVE  /\ SegmentAt(p, t) \in 1 .. 7
           /\ Corners(j, T, A, V)[SegmentAt(p, t)].t < t
           /\ t <= Corners(j, T, A, V)[SegmentAt(p, t) + 1].t
<1> DEFINE c == Corners(j, T, A, V)
           Holding(k) == /\ t <= p.starts[k + 1].t
                         /\ \A m \in 1 .. k - 1 : t > p.starts[m + 1].t
<1>1. \A k \in 1 .. 8 : p.starts[k] = c[k]
  BY DEF IsAlong
<1>2. \A k \in 1 .. 8 : c[k].t \in Nat
  <2>1. c[8].t \in Nat
    BY DEF Corners, At, AtRest
  <2>2. \A k \in 1 .. 7 : c[k].t \in Nat
    BY SegmentMeetsCorners DEF MeetsCorners
  <2> HIDE DEF c
  <2> QED
    BY <2>1, <2>2
<1>3. \A k \in 1 .. 8, m \in 1 .. 8 : k <= m => c[k].t <= c[m].t
  <2>1. ASSUME NEW k \in 1 .. 8, NEW m \in 1 .. 8, k <= m
        PROVE  InOrder(Corners(j, T, A, V), k, m)
    BY <2>1, CornersAtATime
  <2> HIDE DEF c
  <2> QED
    BY <2>1 DEF InOrder, c
<1>4. PICK k \in 1 .. 7 : c[k].t < t /\ t <= c[k + 1].t
  BY SegmentAtTime
<1>5. c[1].t = 0
  BY DEF Corners, AtRest
<1>6. t \in Nat /\ 0 < t
  <2>1. c[8].t \in Nat
    BY <1>2
  <2> HIDE DEF c
  <2> QED
    BY <2>1 DEF c
<1> HIDE DEF c
<1>7. ASSUME NEW m \in 1 .. k - 1
      PROVE  t > p.starts[m + 1].t
  <2>1. m + 1 \in 1 .. 8 /\ k \in 1 .. 8 /\ m + 1 <= k
    OBVIOUS
  <2>2. c[m + 1].t <= c[k].t /\ p.starts[m + 1] = c[m + 1]
    BY <1>1, <1>3, <2>1
  <2>3. c[m + 1].t \in Nat /\ c[k].t \in Nat
    BY <1>2, <2>1
  <2> QED
    BY <1>4, <1>6, <2>2, <2>3
<1>8. Holding(k)
  <2>1. k + 1 \in 1 .. 8
    OBVIOUS
  <2> QED
    BY <1>1, <1>4, <1>7, <2>1
<1>9. SegmentAt(p, t) = CHOOSE n \in 1 .. 7 : Holding(n)
  <2>1. ~ (t >= p.duration)
    <3>1. p.duration = c[8].t /\ p.duration \in Nat
      BY <1>2 DEF IsAlong, c
    <3> QED
      BY <1>6, <3>1
  <2> QED
    BY <2>1 DEF SegmentAt
<1> DEFINE n == SegmentAt(p, t)
<1>10. n \in 1 .. 7 /\ Holding(n)
  BY <1>8, <1>9
<1> HIDE DEF n
<1>11. c[n].t < t
  <2>1. CASE n = 1
    BY <1>5, <1>6, <2>1
  <2>2. CASE n # 1
    <3>1. n - 1 \in 1 .. n - 1 /\ (n - 1) + 1 = n /\ n \in 1 .. 8
      BY <1>10, <2>2
    <3>2. t > p.starts[n].t
      BY <1>10, <3>1
    <3> QED
      BY <1>1, <1>2, <1>6, <3>1, <3>2
  <2> QED
    BY <2>1, <2>2
<1>12. t <= c[n + 1].t
  <2>1. n + 1 \in 1 .. 8
    BY <1>10
  <2> QED
    BY <1>1, <1>10, <2>1
<1> QED
  BY <1>10, <1>11, <1>12 DEF n, c

\* A profile agrees with the k-th segment, h periods after its start.
Agrees(j, T, A, V, p, k, h) ==
    /\ Corners(j, T, A, V)[k].t + h <= p.duration
    /\ Evaluate(p, Corners(j, T, A, V)[k].t + h) = InSegment(j, T, A, V, k, h)

\* The motion that a profile gives at a time is the one of each segment that the
\* time lies in, at the ends that are set as well.
LEMMA EvaluateInSegment ==
    ASSUME NEW j \in Nat, NEW T \in Nat \ {0}, NEW A \in Nat, NEW V \in Nat,
           NEW p, IsAlong(p, j, T, A, V), NEW k \in 1 .. 7,
           NEW h \in Nat, h <= Holds(T, A, V)[k]
    PROVE  Agrees(j, T, A, V, p, k, h)
<1> USE DEF Agrees
<1> DEFINE c == Corners(j, T, A, V)
           t == c[k].t + h
<1>1. \A m \in 1 .. 8, n \in 1 .. 8 :
          m <= n => c[m].t <= c[n].t /\ (c[m].t = c[n].t => c[m] = c[n])
  <2>1. ASSUME NEW m \in 1 .. 8, NEW n \in 1 .. 8, m <= n
        PROVE  InOrder(Corners(j, T, A, V), m, n)
    BY <2>1, CornersAtATime
  <2> HIDE DEF c
  <2> QED
    BY <2>1 DEF InOrder, c
<1>2. /\ \A m \in 1 .. 7 : /\ InSegment(j, T, A, V, m, 0) = c[m]
                           /\ InSegment(j, T, A, V, m, Holds(T, A, V)[m]) = c[m + 1]
                           /\ c[m].t + Holds(T, A, V)[m] = c[m + 1].t
                           /\ c[m].t \in Nat /\ Holds(T, A, V)[m] \in Nat
  BY SegmentMeetsCorners DEF MeetsCorners
<1>3. /\ c[8].t \in Nat /\ c[1] = AtRest /\ c[1].t = 0 /\ c[8].t # 0
      /\ c[8] = [t |-> c[8].t, s |-> Sixths * p.limits.d, v |-> 0, a |-> 0]
  BY DEF Corners, At, AtRest, IsAlong
<1>4. p.duration = c[8].t /\ Jerks(p.limits) = JerksOf(j)
      /\ \A m \in 1 .. 8 : p.starts[m] = c[m]
  BY DEF IsAlong
<1>5. ASSUME NEW x \in 1 .. c[8].t, x < p.duration
      PROVE  /\ SegmentAt(p, x) \in 1 .. 7
             /\ c[SegmentAt(p, x)].t < x /\ x <= c[SegmentAt(p, x) + 1].t
  BY <1>5, SegmentFound
<1> HIDE DEF c
<1>6. k \in 1 .. 8 /\ k + 1 \in 1 .. 8 /\ 8 \in 1 .. 8 /\ 1 \in 1 .. 8
      /\ k + 1 <= 8 /\ 1 <= k
  OBVIOUS
<1>7. c[k].t \in Nat /\ c[k + 1].t \in Nat /\ Holds(T, A, V)[k] \in Nat
  <2>1. c[k].t + Holds(T, A, V)[k] = c[k + 1].t
    BY <1>2
  <2>2. c[k].t \in Nat /\ Holds(T, A, V)[k] \in Nat
    BY <1>2
  <2> QED
    BY <2>1, <2>2
<1>8. t \in Nat /\ t <= c[k + 1].t /\ c[k + 1].t <= c[8].t
  <2>1. c[k].t + Holds(T, A, V)[k] = c[k + 1].t
    BY <1>2
  <2>2. c[k + 1].t <= c[8].t
    BY <1>1, <1>6
  <2> QED
    BY <1>7, <2>1, <2>2
<1>9. t <= p.duration
  BY <1>3, <1>4, <1>7, <1>8
<1>10. CASE t = c[8].t
  <2>1. c[k + 1].t = c[8].t /\ h = Holds(T, A, V)[k]
    <3>1. c[k].t + Holds(T, A, V)[k] = c[k + 1].t
      BY <1>2
    <3> QED
      BY <1>3, <1>7, <1>8, <1>10, <3>1
  <2>2. InSegment(j, T, A, V, k, h) = c[8]
    BY <1>1, <1>2, <1>6, <2>1
  <2>3. Evaluate(p, t) = [t |-> t, s |-> Sixths * p.limits.d, v |-> 0, a |-> 0]
    <3> HIDE DEF t
    <3> QED
      BY <1>4, <1>8, <1>10 DEF Evaluate
  <2> HIDE DEF t
  <2>4. Evaluate(p, t) = InSegment(j, T, A, V, k, h)
    BY <1>3, <1>10, <2>2, <2>3
  <2> QED
    BY <1>9, <2>4 DEF t, c
<1>11. CASE t # c[8].t /\ t = 0
  <2>1. h = 0 /\ c[k].t = c[1].t
    BY <1>3, <1>7, <1>11
  <2>2. InSegment(j, T, A, V, k, h) = AtRest
    BY <1>1, <1>2, <1>3, <1>6, <2>1
  <2>3. Evaluate(p, t) = AtRest
    <3> HIDE DEF t
    <3>1. ~ (t < 0) /\ ~ (t > p.duration) /\ ~ (t >= p.duration) /\ t <= 0
      BY <1>3, <1>4, <1>11
    <3> QED
      BY <3>1 DEF Evaluate
  <2>4. Evaluate(p, t) = InSegment(j, T, A, V, k, h)
    BY <2>2, <2>3
  <2> QED
    BY <1>9, <2>4 DEF c
<1>12. CASE t # c[8].t /\ t # 0
  <2> DEFINE n == SegmentAt(p, t)
  <2>1. ~ (t < 0) /\ ~ (t > p.duration) /\ ~ (t >= p.duration) /\ ~ (t <= 0)
    <3> HIDE DEF t
    <3> QED
      BY <1>3, <1>4, <1>8, <1>9, <1>12
  <2>2. Evaluate(p, t) = After(p.starts[n], t - p.starts[n].t, Jerks(p.limits)[n])
    <3> HIDE DEF t
    <3> QED
      BY <2>1 DEF Evaluate, Motion
  <2>3. n \in 1 .. 7 /\ c[n].t < t /\ t <= c[n + 1].t
    <3>1. t \in 1 .. c[8].t /\ t < p.duration
      BY <1>3, <1>4, <1>8, <1>9, <1>12
    <3> HIDE DEF t
    <3> QED
      BY <1>5, <3>1
  <2> HIDE DEF n
  <2>4. Evaluate(p, t) = InSegment(j, T, A, V, n, t - c[n].t)
    <3>1. p.starts[n] = c[n]
      BY <1>4, <2>3
    <3> HIDE DEF t
    <3> QED
      BY <1>4, <2>2, <3>1 DEF InSegment, c
  <2>5. n \in 1 .. 8 /\ n + 1 \in 1 .. 8
    BY <2>3
  <2>6. c[n].t \in Nat /\ c[n + 1].t \in Nat /\ Holds(T, A, V)[n] \in Nat
        /\ c[n].t + Holds(T, A, V)[n] = c[n + 1].t
    <3>1. c[n].t + Holds(T, A, V)[n] = c[n + 1].t
      BY <1>2, <2>3
    <3>2. c[n].t \in Nat /\ Holds(T, A, V)[n] \in Nat
      BY <1>2, <2>3
    <3> QED
      BY <3>1, <3>2
  <2>7. n <= k
    <3>1. ASSUME k < n
          PROVE  FALSE
      <4>1. k + 1 <= n
        BY <2>3, <3>1
      <4>2. c[k + 1].t <= c[n].t
        BY <1>1, <1>6, <2>5, <4>1
      <4> HIDE DEF t
      <4> QED
        BY <1>7, <1>8, <2>3, <2>6, <4>2
    <3> QED
      BY <2>3, <3>1
  <2>8. CASE n = k
    <3>1. t - c[n].t = h
      BY <1>7, <2>8
    <3>2. Evaluate(p, t) = InSegment(j, T, A, V, k, h)
      BY <2>4, <2>8, <3>1
    <3> QED
      BY <1>9, <3>2 DEF c
  <2>9. CASE n # k
    <3>1. n + 1 <= k
      BY <2>3, <2>7, <2>9
    <3>2. c[n + 1].t <= c[k].t
      BY <1>1, <1>6, <2>5, <3>1
    <3>3. c[n + 1].t = c[k].t /\ h = 0 /\ t - c[n].t = Holds(T, A, V)[n]
      BY <1>7, <2>3, <2>6, <3>2
    <3>4. InSegment(j, T, A, V, n, t - c[n].t) = c[k]
      <4>1. c[n + 1] = c[k]
        BY <1>1, <1>6, <2>5, <3>1, <3>3
      <4>2. InSegment(j, T, A, V, n, Holds(T, A, V)[n]) = c[n + 1]
        BY <1>2, <2>3
      <4> QED
        BY <3>3, <4>1, <4>2
    <3>5. InSegment(j, T, A, V, k, h) = c[k]
      BY <1>2, <3>3
    <3>6. Evaluate(p, t) = InSegment(j, T, A, V, k, h)
      BY <2>4, <3>4, <3>5
    <3> QED
      BY <1>9, <3>6 DEF c
  <2> QED
    BY <2>8, <2>9
<1> QED
  BY <1>10, <1>11, <1>12

\* A profile along a motion: it stays within the limits of the motion, and its way
\* grows in every period, by no more than at the speed of the motion.
LEMMA MotionIsKept ==
    ASSUME NEW j \in Nat \ {0}, NEW T \in Nat \ {0}, NEW A \in Nat, NEW V \in Nat,
           NEW p, IsAlong(p, j, T, A, V), NEW t \in 0 .. p.duration
    PROVE  /\ KeepsLimits(j, T, A, Evaluate(p, t))
           /\ t > 0 => Grows(j, T, A, Evaluate(p, t - 1), Evaluate(p, t))
<1> DEFINE c == Corners(j, T, A, V)
<1>1. /\ \A m \in 1 .. 7 : /\ c[m].t + Holds(T, A, V)[m] = c[m + 1].t
                           /\ c[m].t \in Nat /\ Holds(T, A, V)[m] \in Nat
  BY SegmentMeetsCorners DEF MeetsCorners
<1>2. c[1].t = 0 /\ p.duration = c[8].t /\ c[8].t \in Nat
  BY DEF Corners, AtRest, At, IsAlong
<1>3. \A k \in 1 .. 7 : \A h \in Nat : h <= Holds(T, A, V)[k] =>
          Evaluate(p, c[k].t + h) = InSegment(j, T, A, V, k, h)
  <2>1. ASSUME NEW k \in 1 .. 7, NEW h \in Nat, h <= Holds(T, A, V)[k]
        PROVE  Evaluate(p, c[k].t + h) = InSegment(j, T, A, V, k, h)
    <3>1. Agrees(j, T, A, V, p, k, h)
      BY <2>1, EvaluateInSegment
    <3> QED
      BY <3>1 DEF Agrees
  <2> QED
    BY <2>1
<1>4. t > 0 => \E k \in 1 .. 7 : c[k].t < t /\ t <= c[k + 1].t
  <2>1. t > 0 => t \in 1 .. c[8].t
    BY <1>2
  <2> HIDE DEF c
  <2> QED
    BY <2>1, SegmentAtTime DEF c
<1> HIDE DEF c
<1>5. t \in Nat
  BY <1>2
<1>6. CASE t = 0
  <2>1. 0 <= Holds(T, A, V)[1] /\ 0 \in 0 .. Holds(T, A, V)[1]
    BY <1>1
  <2>2. Evaluate(p, c[1].t + 0) = InSegment(j, T, A, V, 1, 0)
    BY <1>3, <2>1
  <2>3. Evaluate(p, t) = InSegment(j, T, A, V, 1, 0)
    BY <1>2, <1>6, <2>2
  <2>4. KeepsLimits(j, T, A, InSegment(j, T, A, V, 1, 0))
    BY <2>1, SegmentKeepsLimits
  <2> QED
    BY <1>6, <2>3, <2>4
<1>7. CASE t > 0
  <2>1. PICK k \in 1 .. 7 : c[k].t < t /\ t <= c[k + 1].t
    BY <1>4, <1>7
  <2>2. c[k].t + Holds(T, A, V)[k] = c[k + 1].t
        /\ c[k].t \in Nat /\ Holds(T, A, V)[k] \in Nat
    BY <1>1
  <2>3. PICK h \in Nat : h = t - c[k].t
    BY <1>5, <2>1, <2>2
  <2>4. h \in 1 .. Holds(T, A, V)[k] /\ h \in 0 .. Holds(T, A, V)[k]
        /\ h - 1 \in Nat /\ h - 1 <= Holds(T, A, V)[k] /\ h <= Holds(T, A, V)[k]
        /\ t = c[k].t + h /\ t - 1 = c[k].t + (h - 1)
    BY <1>5, <2>1, <2>2, <2>3
  <2>5. Evaluate(p, t) = InSegment(j, T, A, V, k, h)
    <3>1. Evaluate(p, c[k].t + h) = InSegment(j, T, A, V, k, h)
      BY <1>3, <2>4
    <3> QED
      BY <2>4, <3>1
  <2>6. Evaluate(p, t - 1) = InSegment(j, T, A, V, k, h - 1)
    <3>1. Evaluate(p, c[k].t + (h - 1)) = InSegment(j, T, A, V, k, h - 1)
      BY <1>3, <2>4
    <3> QED
      BY <2>4, <3>1
  <2>7. KeepsLimits(j, T, A, InSegment(j, T, A, V, k, h))
    BY <2>4, SegmentKeepsLimits
  <2>8. Grows(j, T, A, InSegment(j, T, A, V, k, h - 1), InSegment(j, T, A, V, k, h))
    BY <2>4, SegmentGrows
  <2> QED
    BY <2>5, <2>6, <2>7, <2>8
<1> QED
  BY <1>5, <1>6, <1>7

\* The profile of a request whose shape is whole starts its segments at the
\* corners of a motion.
LEMMA ProfileIsAlong ==
    ASSUME NEW l, NEW dt, l.j \in Nat \ {0}, IsShapeFor(ShapeOf(l), l)
    PROVE  LET shape == ShapeOf(l)
           IN IsAlong(ProfileOf(l, dt), l.j, shape.tJ, shape.tA, shape.tV)
<1>1. PICK j \in Nat \ {0}, T \in Nat \ {0}, A \in Nat, V \in Nat :
          j = l.j /\ T = ShapeOf(l).tJ /\ A = ShapeOf(l).tA /\ V = ShapeOf(l).tV
  BY DEF IsShapeFor
<1> DEFINE c == Corners(j, T, A, V)
           starts == StartsFrom(Holds(T, A, V), JerksOf(j))
<1>2. Durations(ShapeOf(l)) = Holds(T, A, V) /\ Jerks(l) = JerksOf(j)
  BY <1>1 DEF Durations, Holds, Jerks, JerksOf
<1>3. Len(Holds(T, A, V)) = 7
  BY DEF Holds
<1>4. /\ starts[1] = AtRest
      /\ \A k \in 1 .. 7 : starts[k + 1]
                           = After(starts[k], Holds(T, A, V)[k], JerksOf(j)[k])
  <2> DEFINE lasting == Holds(T, A, V)
             jerk == JerksOf(j)
  <2>1. Len(lasting) \in Nat /\ Len(lasting) = 7
    BY <1>3
  <2> HIDE DEF lasting, jerk
  <2>2. /\ StartsFrom(lasting, jerk)[1] = AtRest
        /\ \A k \in 1 .. 7 : StartsFrom(lasting, jerk)[k + 1]
                             = After(StartsFrom(lasting, jerk)[k], lasting[k], jerk[k])
    <3>1. Chained(StartsFrom(lasting, jerk), lasting, jerk)
      BY <2>1, StartsFollow
    <3>2. 1 .. Len(lasting) = 1 .. 7
      BY <2>1
    <3> QED
      BY <3>1, <3>2 DEF Chained
  <2> QED
    BY <2>2 DEF lasting, jerk
<1>5. c[1] = AtRest
  BY DEF Corners
<1>6. \A k \in 1 .. 7 : InSegment(j, T, A, V, k, Holds(T, A, V)[k]) = c[k + 1]
  <2>1. j \in Nat /\ T \in Nat
    OBVIOUS
  <2>2. \A k \in 1 .. 7 : MeetsCorners(j, T, A, V, k)
    BY <2>1, SegmentMeetsCorners
  <2> QED
    BY <2>2 DEF MeetsCorners
<1>7. \A k \in 1 .. 7 : starts[k] = c[k] => starts[k + 1] = c[k + 1]
  BY <1>4, <1>6 DEF InSegment
<1> HIDE DEF starts, c
<1>8. \A k \in 1 .. 8 : starts[k] = c[k]
  <2>1. starts[1] = c[1]
    BY <1>4, <1>5 DEF starts
  <2>2. starts[2] = c[2]
    BY <1>7, <2>1
  <2>3. starts[3] = c[3]
    BY <1>7, <2>2
  <2>4. starts[4] = c[4]
    BY <1>7, <2>3
  <2>5. starts[5] = c[5]
    BY <1>7, <2>4
  <2>6. starts[6] = c[6]
    BY <1>7, <2>5
  <2>7. starts[7] = c[7]
    BY <1>7, <2>6
  <2>8. starts[8] = c[8]
    BY <1>7, <2>7
  <2> QED
    BY <2>1, <2>2, <2>3, <2>4, <2>5, <2>6, <2>7, <2>8
<1> DEFINE p == ProfileOf(l, dt)
<1>9. p.starts = starts /\ p.duration = starts[8].t /\ p.limits = l
  BY <1>2 DEF ProfileOf, ProfileFrom, SegmentStarts, starts
<1>10. Sixths * p.limits.d = 6 * (j * T * (T + A)) * (2 * T + A + V)
  <2>1. l.d = (j * T * (T + A)) * (2 * T + A + V)
    BY <1>1 DEF IsShapeFor
  <2> QED
    BY <1>9, <2>1 DEF Sixths
<1> HIDE DEF p
<1>11. IsAlong(p, j, T, A, V)
  BY <1>2, <1>8, <1>9, <1>10 DEF IsAlong, c
<1> QED
  BY <1>1, <1>11 DEF p

\* In a period the way grows, by no more than at the speed that is allowed.
Onward(p, t) ==
    /\ Evaluate(p, t - 1).s \in Int /\ Evaluate(p, t).s \in Int
    /\ Evaluate(p, t - 1).s < Evaluate(p, t).s
    /\ Evaluate(p, t).s <= Evaluate(p, t - 1).s + 6 * p.limits.v

\* A profile can be followed, and ends where the path ends.
IsFeasible(p) ==
    /\ p.limits.a \in Nat /\ p.limits.v \in Nat /\ p.duration \in Nat \ {0}
    /\ p.starts[8] = [t |-> p.duration, s |-> Sixths * p.limits.d, v |-> 0, a |-> 0]
    /\ \A t \in 0 .. p.duration :
          /\ Evaluate(p, t).v \in 0 .. 2 * p.limits.v
          /\ Evaluate(p, t).a \in -p.limits.a .. p.limits.a
          /\ t > 0 => Onward(p, t)

\* The profile of a request whose roots and quotients leave no rest is one.
LEMMA ProfileOfIsFeasible ==
    ASSUME NEW l, NEW dt, IsWhole(l)
    PROVE  IsFeasible(ProfileOf(l, dt))
<1> DEFINE shape == ShapeOf(l)
           p == ProfileOf(l, dt)
<1>1. {l.v, l.a, l.j, l.d} \subseteq Nat \ {0}
  BY DEF IsWhole
<1>2. IsShapeFor(shape, l)
  BY ShapeFits
<1>3. p.limits = l
  BY DEF ProfileOf, ProfileFrom
<1>4. IsAlong(p, l.j, shape.tJ, shape.tA, shape.tV)
  BY <1>1, <1>2, ProfileIsAlong
<1> HIDE DEF shape, p
<1>5. PICK j \in Nat \ {0}, T \in Nat \ {0}, A \in Nat, V \in Nat :
          j = l.j /\ T = shape.tJ /\ A = shape.tA /\ V = shape.tV
  BY <1>1, <1>2 DEF IsShapeFor
<1>6. PICK a \in Nat, v \in Nat : a = l.a /\ v = l.v
  BY <1>1
<1>7. j * T <= a /\ j * T * (T + A) <= v
  BY <1>2, <1>5, <1>6 DEF IsShapeFor
<1>8. IsAlong(p, j, T, A, V)
  BY <1>4, <1>5
<1>9. p.starts[8] = [t |-> p.duration, s |-> Sixths * p.limits.d, v |-> 0, a |-> 0]
  BY <1>8 DEF IsAlong, Corners, At
<1>10. \A t \in 0 .. p.duration :
          /\ KeepsLimits(j, T, A, Evaluate(p, t))
          /\ t > 0 => Grows(j, T, A, Evaluate(p, t - 1), Evaluate(p, t))
  BY <1>8, MotionIsKept
<1>11. ASSUME NEW t \in 0 .. p.duration
       PROVE  /\ Evaluate(p, t).v \in 0 .. 2 * p.limits.v
              /\ Evaluate(p, t).a \in -p.limits.a .. p.limits.a
  <2>1. KeepsLimits(j, T, A, Evaluate(p, t))
    BY <1>10
  <2>2. j * T \in Nat /\ j * T * (T + A) \in Nat
    OBVIOUS
  <2>3. PICK x \in Nat, y \in Nat : x = j * T /\ y = j * T * (T + A)
    BY <2>2
  <2>4. x <= a /\ y <= v
    BY <1>7, <2>3
  <2>5. Evaluate(p, t).v \in 0 .. 2 * y /\ Evaluate(p, t).a \in -x .. x
    BY <2>1, <2>3 DEF KeepsLimits
  <2>6. Evaluate(p, t).v \in 0 .. 2 * v /\ Evaluate(p, t).a \in -a .. a
    BY <2>4, <2>5
  <2> QED
    BY <1>3, <1>6, <2>6
<1>12. ASSUME NEW t \in 0 .. p.duration, t > 0
       PROVE  Onward(p, t)
  <2>1. Grows(j, T, A, Evaluate(p, t - 1), Evaluate(p, t))
    BY <1>10, <1>12
  <2>2. j * T * (T + A) \in Nat
    OBVIOUS
  <2>3. PICK y \in Nat : y = j * T * (T + A)
    BY <2>2
  <2>4. y <= v /\ p.limits.v = v
    BY <1>3, <1>6, <1>7, <2>3
  <2>5. PICK x \in Int : x = Evaluate(p, t - 1).s
    BY <2>1 DEF Grows
  <2>6. PICK z \in Int : z = Evaluate(p, t).s
    BY <2>1 DEF Grows
  <2>7. x < z /\ z <= x + 6 * y
    BY <2>1, <2>3, <2>5, <2>6 DEF Grows
  <2>8. z <= x + 6 * v
    BY <2>4, <2>7
  <2> QED
    BY <2>4, <2>5, <2>6, <2>7, <2>8 DEF Onward
<1>13. p.duration \in Nat \ {0}
  BY <1>8 DEF IsAlong, Corners, At
<1>14. IsFeasible(p)
  BY <1>3, <1>6, <1>9, <1>11, <1>12, <1>13 DEF IsFeasible
<1> QED
  BY <1>14 DEF p

-----------------------------------------------------------------------------
(* The profiles of the streams.                                            *)

StreamFields == {"status", "initialized", "finished", "next", "seed", "path", "profile"}

\* A stream that gives samples has a profile that can be followed.
FollowsProfile(stream) ==
    /\ DOMAIN stream = StreamFields
    /\ stream.initialized => IsFeasible(stream.profile)

\* What a stream makes of itself at a sample.
LEMMA NextKeepsProfile ==
    ASSUME NEW stream, NEW behaviour, FollowsProfile(stream)
    PROVE  FollowsProfile(single_line_stream_next(stream, behaviour).stream)
<1>1. ASSUME NEW other, DOMAIN other = StreamFields,
             other.initialized = stream.initialized, other.profile = stream.profile
      PROVE  FollowsProfile(other)
  BY <1>1 DEF FollowsProfile
<1> DEFINE sample == SampleAlong(stream, behaviour, EvaluateIndex(stream.profile, stream.next))
<1>2. FollowsProfile([stream EXCEPT !.status = "INVALID_ARGUMENT"])
  BY DEF FollowsProfile, StreamFields
<1>3. FollowsProfile([stream EXCEPT !.finished = TRUE, !.status = "FINISHED"])
  BY DEF FollowsProfile, StreamFields
<1>4. FollowsProfile([stream EXCEPT !.status = "IK_FAILED"])
  BY DEF FollowsProfile, StreamFields
<1>5. FollowsProfile(Taken(stream, sample))
  <2> HIDE DEF sample
  <2> QED
    BY DEF FollowsProfile, StreamFields, Taken
<1>6. FollowsProfile(Given(stream, sample).stream)
  <2> HIDE DEF sample
  <2> QED
    BY <1>4, <1>5 DEF Given
<1> QED
  BY <1>2, <1>3, <1>6 DEF single_line_stream_next

\* Neither the seed nor the index of the next sample is part of a profile.
LEMMA SeedKeepsProfile ==
    ASSUME NEW stream, FollowsProfile(stream), NEW x
    PROVE  /\ FollowsProfile([stream EXCEPT !.seed = x])
           /\ FollowsProfile([stream EXCEPT !.next = x])
BY DEF FollowsProfile, StreamFields

\* What a stream along a path has for its profile.
LEMMA StreamOverFollows ==
    ASSUME NEW path, NEW request, HasWholeProfile(StreamOver(path, request))
    PROVE  FollowsProfile(StreamOver(path, request))
<1> DEFINE profile == ProfileOf(LimitsOf(path, request), request.dt)
           stream == [status |-> "OK", initialized |-> TRUE, finished |-> FALSE, next |-> 0,
                      seed |-> request.seed, path |-> path, profile |-> profile]
<1>1. FollowsProfile(Failed("GEOMETRY_FAILED"))
  BY DEF Failed, NoStream, FollowsProfile, StreamFields
<1>2. profile.limits = LimitsOf(path, request)
  BY DEF ProfileOf, ProfileFrom
<1>3. CASE path.ok /\ path.total # 0
  <2>1. StreamOver(path, request) = stream
    BY <1>3 DEF StreamOver
  <2>2. stream.initialized /\ stream.profile = profile /\ DOMAIN stream = StreamFields
    BY DEF StreamFields
  <2>3. IsWhole(LimitsOf(path, request))
    <3> HIDE DEF profile, stream
    <3> QED
      BY <1>2, <2>1, <2>2 DEF HasWholeProfile
  <2>4. IsFeasible(profile)
    BY <2>3, ProfileOfIsFeasible
  <2> HIDE DEF profile, stream
  <2> QED
    BY <2>1, <2>2, <2>4 DEF FollowsProfile
<1>4. CASE ~ path.ok \/ path.total = 0
  <2>1. StreamOver(path, request) = Failed("GEOMETRY_FAILED")
    BY <1>4 DEF StreamOver
  <2> QED
    BY <1>1, <2>1
<1> QED
  BY <1>3, <1>4

\* A stream as it is opened.
LEMMA StreamFollows ==
    ASSUME NEW request
    PROVE  /\ HasWholeProfile(single_line_stream_init(request))
                 => FollowsProfile(single_line_stream_init(request))
           /\ HasWholeProfile(single_circular_stream_init(request))
                 => FollowsProfile(single_circular_stream_init(request))
<1>1. FollowsProfile(Failed("GEOMETRY_FAILED")) /\ FollowsProfile(Failed("INVALID_ARGUMENT"))
  BY DEF Failed, NoStream, FollowsProfile, StreamFields
<1>2. ASSUME NEW points
      PROVE  HasWholeProfile(StreamAlong(points, request))
                => FollowsProfile(StreamAlong(points, request))
  BY StreamOverFollows DEF StreamAlong
<1>3. \/ single_line_stream_init(request) = Failed("INVALID_ARGUMENT")
      \/ \E points : single_line_stream_init(request) = StreamAlong(points, request)
  BY DEF single_line_stream_init
<1>4. \/ single_circular_stream_init(request) = Failed("INVALID_ARGUMENT")
      \/ single_circular_stream_init(request) = Failed("GEOMETRY_FAILED")
      \/ \E points : single_circular_stream_init(request) = StreamAlong(points, request)
  BY DEF single_circular_stream_init
<1>5. HasWholeProfile(single_line_stream_init(request))
         => FollowsProfile(single_line_stream_init(request))
  BY <1>1, <1>2, <1>3
<1>6. HasWholeProfile(single_circular_stream_init(request))
         => FollowsProfile(single_circular_stream_init(request))
  BY <1>1, <1>2, <1>4
<1> QED
  BY <1>5, <1>6

\* Neither the profile nor the path of a segment depends on where inverse kinematics
\* starts.
Alike(one, other) ==
    /\ one.initialized = other.initialized
    /\ one.profile = other.profile /\ one.path = other.path

\* Streams over one path that differ in the seed alone are alike.
LEMMA SeedIsNoLimit ==
    ASSUME NEW piece, NEW one, NEW other
    PROVE  Alike(StreamOf(piece, one), StreamOf(piece, other))
<1> DEFINE r == RequestOf(piece, one)
           s == RequestOf(piece, other)
<1>1. /\ r.points = s.points /\ r.speed = s.speed /\ r.acceleration = s.acceleration
      /\ r.jerk = s.jerk /\ r.dt = s.dt /\ r.count = s.count /\ r.spacing = s.spacing
      /\ r.capacity = s.capacity
  BY DEF RequestOf
<1> HIDE DEF r, s
<1>2. ASSUME NEW path
      PROVE  Alike(StreamOver(path, r), StreamOver(path, s))
  <2>1. LimitsOf(path, r) = LimitsOf(path, s)
    BY <1>1 DEF LimitsOf
  <2>2. ProfileOf(LimitsOf(path, r), r.dt) = ProfileOf(LimitsOf(path, s), s.dt)
    BY <1>1, <2>1
  <2> QED
    BY <2>2 DEF StreamOver, Alike
<1>3. ASSUME NEW points
      PROVE  Alike(StreamAlong(points, r), StreamAlong(points, s))
  BY <1>1, <1>2 DEF StreamAlong
<1>4. Positive(r) <=> Positive(s)
  BY <1>1 DEF Positive
<1>5. Alike(single_line_stream_init(r), single_line_stream_init(s))
  <2> DEFINE points == generate_line_waypoints(r.points[1], r.points[2], r.count)
             refused == ~ Positive(r) \/ r.count < 2 \/ r.count > r.capacity
  <2>1. single_line_stream_init(r) = IF refused THEN Failed("INVALID_ARGUMENT")
                                     ELSE StreamAlong(points, r)
    BY DEF single_line_stream_init
  <2>2. single_line_stream_init(s) = IF refused THEN Failed("INVALID_ARGUMENT")
                                     ELSE StreamAlong(points, s)
    BY <1>1, <1>4 DEF single_line_stream_init
  <2>3. Alike(StreamAlong(points, r), StreamAlong(points, s))
    BY <1>3
  <2> HIDE DEF points, refused
  <2> QED
    BY <2>1, <2>2, <2>3 DEF Alike
<1>6. Alike(single_circular_stream_init(r), single_circular_stream_init(s))
  <2> DEFINE refused == ~ Positive(r) \/ r.count < 3 \/ r.count > r.capacity
  <2>1. single_circular_stream_init(r) = IF refused THEN Failed("INVALID_ARGUMENT")
                                         ELSE IF r.points = << >> THEN Failed("GEOMETRY_FAILED")
                                         ELSE StreamAlong(r.points, r)
    BY DEF single_circular_stream_init
  <2>2. single_circular_stream_init(s) = IF refused THEN Failed("INVALID_ARGUMENT")
                                         ELSE IF r.points = << >> THEN Failed("GEOMETRY_FAILED")
                                         ELSE StreamAlong(r.points, s)
    BY <1>1, <1>4 DEF single_circular_stream_init
  <2>3. Alike(StreamAlong(r.points, r), StreamAlong(r.points, s))
    BY <1>3
  <2> HIDE DEF refused
  <2> QED
    BY <2>1, <2>2, <2>3 DEF Alike
<1> QED
  BY <1>5, <1>6 DEF StreamOf, r, s

\* The stream of a segment that is not too fast.
LEMMA PieceFollows ==
    ASSUME NEW segments, IsProgram(segments), NEW n \in 1 .. Len(segments), NEW seed,
           ~ (SpeedOf(segments[n]) > Config.speedLimit)
    PROVE  FollowsProfile(StreamOf(segments[n], seed))
<1> DEFINE piece == segments[n]
<1>1. HasWholeProfile(StreamOf(piece, piece.taught))
  BY DEF IsProgram, IsSegment
<1>2. Alike(StreamOf(piece, piece.taught), StreamOf(piece, seed))
  BY SeedIsNoLimit
<1> HIDE DEF piece
<1>3. HasWholeProfile(StreamOf(piece, seed))
  BY <1>1, <1>2 DEF HasWholeProfile, Alike
<1>4. FollowsProfile(StreamOf(piece, seed))
  BY <1>3, StreamFollows DEF StreamOf
<1> QED
  BY <1>4 DEF piece

\* Both streams follow a profile of their own, PATH_VALIDATION prepares a segment
\* that the program has, and the planner works on a request of the panel.
StreamsInv ==
    /\ FollowsProfile(checkStream) /\ FollowsProfile(liveStream)
    /\ checkPhase \in {"PREPARE_SEGMENT", "GENERATE_AND_VALIDATE_SAMPLE"} =>
          IsProgram(program) /\ segment \in 1 .. Len(program)
    /\ requests # None => requests[1].path \in Plans
    /\ planner # "WAIT" => plan.path \in Plans

\* A stream that was not opened gives no samples.
LEMMA NoStreamFollows == FollowsProfile(NoStream)
BY DEF NoStream, FollowsProfile, StreamFields

\* It holds at the start.
LEMMA StreamsInvInit == Init => StreamsInv
<1> SUFFICES ASSUME Init
             PROVE  StreamsInv
  OBVIOUS
<1>1. checkStream = NoStream /\ liveStream = NoStream /\ requests = None /\ planner = "WAIT"
  BY DEF Init, CheckInit, LiveInit
<1>2. checkPhase = "IDLE" \/ (program \in Programs /\ segment = 1)
  BY DEF Init, CheckInit
<1>3. program \in Programs => IsProgram(program) /\ 1 \in 1 .. Len(program)
  BY ProgramsAssumption DEF ProgramsAssumption, IsProgram
<1> QED
  BY <1>1, <1>2, <1>3, NoStreamFollows DEF StreamsInv

\* What PATH_VALIDATION does keeps them.
LEMMA CheckKeepsStreams ==
    ASSUME StreamsInv, CheckStep, UNCHANGED liveVars
    PROVE  StreamsInv'
<1> DEFINE Prepared == checkPhase' \in {"PREPARE_SEGMENT", "GENERATE_AND_VALIDATE_SAMPLE"}
                          => IsProgram(program') /\ segment' \in 1 .. Len(program')
<1>1. ASSUME FollowsProfile(checkStream'), Prepared
      PROVE  StreamsInv'
  BY <1>1 DEF StreamsInv, liveVars, plannerVars, motionVars
<1>2. ASSUME NEW error, Fail(error)
      PROVE  StreamsInv'
  <2>1. checkStream' = checkStream /\ checkPhase' = "INVALID"
    BY <1>2 DEF Fail
  <2> QED
    BY <1>1, <2>1 DEF StreamsInv
<1>3. CASE PrepareSegment
  <2> DEFINE stream == StreamOf(Piece, Seed)
  <2>1. IsProgram(program) /\ segment \in 1 .. Len(program)
    BY <1>3 DEF PrepareSegment, StreamsInv
  <2>2. ~ (SpeedOf(Piece) > Config.speedLimit) => FollowsProfile(stream)
    BY <2>1, PieceFollows DEF Piece
  <2> HIDE DEF stream
  <2>3. CASE SpeedOf(Piece) > Config.speedLimit
    BY <1>2, <1>3, <2>3 DEF PrepareSegment
  <2>4. CASE ~ (SpeedOf(Piece) > Config.speedLimit)
    <3> DEFINE Opens == /\ checkStream' = [stream EXCEPT !.next = FirstIndex]
                        /\ checkPhase' = "GENERATE_AND_VALIDATE_SAMPLE"
                        /\ UNCHANGED <<program, segment>>
    <3>1. (\E error : Fail(error)) \/ Opens
      BY <1>3, <2>4 DEF PrepareSegment, stream
    <3>2. CASE \E error : Fail(error)
      BY <1>2, <3>2
    <3>3. CASE Opens
      <4>1. FollowsProfile(stream)
        BY <2>2, <2>4
      <4>2. FollowsProfile(checkStream')
        BY <3>3, <4>1, SeedKeepsProfile
      <4> QED
        BY <1>1, <2>1, <3>3, <4>2
    <3> QED
      BY <3>1, <3>2, <3>3
  <2> QED
    BY <2>3, <2>4
<1>4. CASE CheckSample
  <2> DEFINE next == GeneratedSample
  <2>1. next = single_line_stream_next(checkStream, arm)
    BY DEF GeneratedSample, single_circular_stream_next
  <2>2. FollowsProfile(next.stream)
    BY <2>1, NextKeepsProfile DEF StreamsInv
  <2>3. IsProgram(program) /\ segment \in 1 .. Len(program) /\ Len(program) \in Nat
    BY <1>4 DEF CheckSample, StreamsInv, IsProgram
  <2> HIDE DEF next
  <2>4. (\E error : Fail(error)) \/ StoreChecked(next.stream, next.sample)
    BY <1>4 DEF CheckSample, next
  <2>5. CASE StoreChecked(next.stream, next.sample)
    <3>1. PICK x : checkStream' = [next.stream EXCEPT !.seed = x]
      BY <2>5 DEF StoreChecked
    <3>2. FollowsProfile(checkStream')
      BY <2>2, <3>1, SeedKeepsProfile
    <3>3. Prepared
      <4>1. /\ checkPhase' = PhaseAfter(next.stream) /\ program' = program
            /\ segment' = IF is_finished(next.stream) THEN segment + 1 ELSE segment
        BY <2>5 DEF StoreChecked
      <4>2. CASE is_finished(next.stream)
        <5>1. checkPhase' \in {"PREPARE_SEGMENT", "GENERATE_AND_VALIDATE_SAMPLE"}
                 => segment < Len(program)
          BY <4>1, <4>2 DEF PhaseAfter
        <5>2. segment' = segment + 1
          BY <4>1, <4>2
        <5>3. segment < Len(program) => segment + 1 \in 1 .. Len(program)
          BY <2>3
        <5> QED
          BY <2>3, <4>1, <5>1, <5>2, <5>3
      <4>3. CASE ~ is_finished(next.stream)
        BY <2>3, <4>1, <4>3
      <4> QED
        BY <4>2, <4>3
    <3> QED
      BY <1>1, <3>2, <3>3
  <2> QED
    BY <1>2, <2>4, <2>5
<1>5. CASE FinalizeCheck
  <2>1. (\E error : Fail(error)) \/ (checkPhase' = "VALID" /\ checkStream' = checkStream)
    BY <1>5 DEF FinalizeCheck
  <2> QED
    BY <1>1, <1>2, <2>1 DEF StreamsInv
<1> QED
  BY <1>3, <1>4, <1>5 DEF CheckStep

\* What the planner does keeps them.
LEMMA PlannerKeepsStreams ==
    ASSUME StreamsInv, PlannerStep, UNCHANGED checkVars
    PROVE  StreamsInv'
<1> DEFINE Works == planner' # "WAIT" => plan'.path \in Plans
           Asked == requests' # None => requests'[1].path \in Plans
<1>1. ASSUME FollowsProfile(liveStream'), Works, Asked
      PROVE  StreamsInv'
  BY <1>1 DEF StreamsInv, checkVars
<1>2. ASSUME NEW command, command.path \in Plans
      PROVE  FollowsProfile(Opened(command))
  <2>1. HasWholeProfile(single_line_stream_init(command.path))
    BY <1>2, PlansAssumption DEF PlansAssumption, IsPlan
  <2>2. FollowsProfile(Streams[command.path])
    BY <1>2, <2>1, StreamFollows DEF Streams
  <2> QED
    BY <2>2, SeedKeepsProfile DEF Opened
<1>3. FollowsProfile(single_line_stream_next(liveStream, solver).stream)
  BY NextKeepsProfile DEF StreamsInv
<1>4. CASE TakeRequest
  <2>1. requests[1].path \in Plans
    BY <1>4 DEF TakeRequest, StreamsInv
  <2>2. FollowsProfile(Opened(requests[1]))
    BY <1>2, <2>1
  <2>3. liveStream' = Opened(requests[1]) /\ plan' = requests[1] /\ requests' = None
    BY <1>4 DEF TakeRequest
  <2> QED
    BY <1>1, <2>1, <2>2, <2>3
<1>5. CASE ValidateSample
  <2>1. liveStream' \in {liveStream, single_line_stream_next(liveStream, solver).stream}
    BY <1>5 DEF ValidateSample
  <2>2. plan' = plan /\ requests' = requests /\ planner = "VALIDATE"
    BY <1>5 DEF ValidateSample, motionVars
  <2> QED
    BY <1>1, <1>3, <2>1, <2>2 DEF StreamsInv
<1>6. CASE Judge
  BY <1>1, <1>6 DEF Judge, motionVars, StreamsInv
<1>7. CASE OpenExecution
  <2>1. plan.path \in Plans
    BY <1>7 DEF OpenExecution, StreamsInv
  <2>2. liveStream' = Opened(plan) /\ plan' = plan /\ requests' = requests
    BY <1>7 DEF OpenExecution
  <2> QED
    BY <1>1, <1>2, <2>1, <2>2 DEF StreamsInv
<1>8. CASE Generate
  <2>1. liveStream' \in {liveStream, single_line_stream_next(liveStream, solver).stream}
    BY <1>8 DEF Generate
  <2>2. plan' = plan /\ requests' = requests /\ planner = "GENERATE"
    BY <1>8 DEF Generate, motionVars
  <2> QED
    BY <1>1, <1>3, <2>1, <2>2 DEF StreamsInv
<1>9. CASE PushSample
  BY <1>1, <1>9 DEF PushSample, StreamsInv
<1>10. CASE EndOfProducer
  BY <1>1, <1>10 DEF EndOfProducer, motionVars, StreamsInv
<1>11. CASE Publish
  BY <1>1, <1>11 DEF Publish, StreamsInv
<1>12. CASE AbortPlan
  BY <1>1, <1>12 DEF AbortPlan, StreamsInv
<1> QED
  BY <1>4, <1>5, <1>6, <1>7, <1>8, <1>9, <1>10, <1>11, <1>12 DEF PlannerStep

\* So do the panel and the cycle of the bus.
LEMMA CycleKeepsStreams ==
    ASSUME StreamsInv, UNCHANGED checkVars,
           StopCommand \/ (\E request \in Plans : PlanCommand(request)) \/ EtherCATCycle
    PROVE  StreamsInv'
<1>1. ASSUME UNCHANGED plannerVars, requests' # None => requests'[1].path \in Plans
      PROVE  StreamsInv'
  BY <1>1 DEF StreamsInv, checkVars, plannerVars
<1>2. CASE StopCommand
  BY <1>1, <1>2 DEF StopCommand, StreamsInv
<1>3. CASE \E request \in Plans : PlanCommand(request)
  <2> PICK request \in Plans : PlanCommand(request)
    BY <1>3
  <2>1. \/ requests' = << [path |-> request, seed |-> actual] >>
        \/ requests' = requests
    BY DEF PlanCommand
  <2>2. UNCHANGED plannerVars
    BY DEF PlanCommand
  <2> QED
    BY <1>1, <2>1, <2>2 DEF StreamsInv
<1>4. CASE EtherCATCycle
  <2>1. UNCHANGED plannerVars /\ requests' = requests
    BY <1>4 DEF EtherCATCycle, Underrun, RunCycle, PrepositionCycle, FinishedCycle,
                HoldCycle, motionVars
  <2> QED
    BY <1>1, <2>1 DEF StreamsInv
<1> QED
  BY <1>2, <1>3, <1>4

\* The profiles of both streams end at the end of the path, at rest, and keep the
\* limits of their request at every time, for all speeds, accelerations, jerks and
\* lengths that give whole numbers, whichever of the four shapes they take.
THEOREM ProfilesAreFeasible == FairSpec => []ProfileIsFeasible
<1>1. FairSpec => Init /\ [][Next]_planningVars
  BY DEF FairSpec
<1>2. Init => StreamsInv
  BY StreamsInvInit
<1>3. StreamsInv /\ [Next]_planningVars => StreamsInv'
  <2> SUFFICES ASSUME StreamsInv, [Next]_planningVars
               PROVE  StreamsInv'
    OBVIOUS
  <2>1. CASE CheckStep /\ UNCHANGED liveVars
    BY <2>1, CheckKeepsStreams
  <2>2. CASE PlannerStep /\ UNCHANGED checkVars
    BY <2>2, PlannerKeepsStreams
  <2>3. CASE /\ StopCommand \/ (\E request \in Plans : PlanCommand(request))
                            \/ EtherCATCycle
             /\ UNCHANGED checkVars
    BY <2>3, CycleKeepsStreams
  <2>4. CASE UNCHANGED <<checkVars, liveVars>>
    BY <2>4 DEF checkVars, liveVars, plannerVars, motionVars, StreamsInv
  <2> QED
    BY <2>1, <2>2, <2>3, <2>4
       DEF Next, planningVars, Validating, Reported, Planner, PanelAndCycle, Moving
<1>4. StreamsInv => ProfileIsFeasible
  <2> SUFFICES ASSUME StreamsInv, NEW p \in Profiles
               PROVE  /\ p.starts[8] = [t |-> p.duration, s |-> Sixths * p.limits.d,
                                        v |-> 0, a |-> 0]
                      /\ \A t \in 0 .. p.duration :
                            /\ Evaluate(p, t).v \in 0 .. 2 * p.limits.v
                            /\ Abs(Evaluate(p, t).a) <= p.limits.a
                            /\ t > 0 => Evaluate(p, t - 1).s < Evaluate(p, t).s
    BY DEF ProfileIsFeasible, ProfileArrives, ProfileKeepsLimits
  <2>1. PICK stream \in {checkStream, liveStream} :
            stream.initialized /\ p = stream.profile
    BY DEF Profiles
  <2>2. IsFeasible(p)
    BY <2>1 DEF StreamsInv, FollowsProfile
  <2>3. ASSUME NEW limit \in Nat, NEW x \in -limit .. limit
        PROVE  Abs(x) <= limit
    BY DEF Abs
  <2> QED
    BY <2>2, <2>3 DEF IsFeasible, Onward
<1> QED
  BY <1>1, <1>2, <1>3, <1>4, PTL

-----------------------------------------------------------------------------
(* The places of a stream.                                                 *)

\* A function that fulfils the recursive definition of the distances of points.
IsDistances(f, points, m) ==
    f = [i \in 1 .. m |-> IF i = 1 THEN 0
                          ELSE f[i - 1] + point_distance(points[i - 1], points[i])]

\* There is one.
LEMMA DistancesExist ==
    ASSUME NEW points, NEW m \in Nat \ {0}
    PROVE  \E f : IsDistances(f, points, m)
<1> DEFINE Gap(i) == point_distance(points[i - 1], points[i])
           Without == {i \in Nat \ {0} : ~ \E f : IsDistances(f, points, i)}
<1>1. \E f : IsDistances(f, points, 1)
  <2>1. IsDistances([i \in 1 .. 1 |-> 0], points, 1)
    BY DEF IsDistances
  <2> QED
    BY <2>1
<1>2. ASSUME NEW n \in Nat \ {0}, \E f : IsDistances(f, points, n)
      PROVE  \E f : IsDistances(f, points, n + 1)
  <2>1. PICK f : IsDistances(f, points, n)
    BY <1>2
  <2> DEFINE g == [i \in 1 .. n + 1 |-> IF i = n + 1 THEN f[n] + Gap(n + 1) ELSE f[i]]
  <2> HIDE DEF Gap
  <2>2. \A i \in 1 .. n : f[i] = IF i = 1 THEN 0 ELSE f[i - 1] + Gap(i)
    BY <2>1 DEF IsDistances, Gap
  <2>3. \A i \in 1 .. n + 1 : g[i] = IF i = 1 THEN 0 ELSE g[i - 1] + Gap(i)
    BY <2>2
  <2>4. g = [i \in 1 .. n + 1 |-> g[i]]
    OBVIOUS
  <2> HIDE DEF g
  <2>5. IsDistances(g, points, n + 1)
    BY <2>3, <2>4 DEF IsDistances, Gap
  <2> QED
    BY <2>5
<1>3. ASSUME Without # {}
      PROVE  FALSE
  <2>1. PICK i \in Without : \A k \in Without : ~ (k < i)
    BY <1>3, SmallestOf
  <2>2. i \in Nat \ {0} /\ i # 1
    BY <1>1, <2>1
  <2>3. i - 1 \in Nat \ {0} /\ i - 1 < i /\ (i - 1) + 1 = i
    BY <2>2
  <2>4. \E f : IsDistances(f, points, i - 1)
    BY <2>1, <2>3
  <2> QED
    BY <1>2, <2>1, <2>3, <2>4
<1> QED
  BY <1>3

\* A path begins at the distance 0.
LEMMA DistancesBegin ==
    ASSUME NEW points, Len(points) \in Nat \ {0}
    PROVE  /\ DistancesAlong(points)[1] = 0
           /\ Len(DistancesAlong(points)) = Len(points)
<1> DEFINE m == Len(points)
           along == CHOOSE f : IsDistances(f, points, m)
<1>1. DistancesAlong(points) = [i \in 1 .. m |-> along[i]]
  BY DEF DistancesAlong, IsDistances
<1>2. m \in Nat \ {0}
  OBVIOUS
<1> HIDE DEF m
<1>3. IsDistances(along, points, m)
  <2>1. \E f : IsDistances(f, points, m)
    BY <1>2, DistancesExist
  <2> QED
    BY <2>1
<1> HIDE DEF along
<1>4. along[1] = 0
  <2>1. 1 \in 1 .. m
    BY <1>2
  <2> QED
    BY <1>3, <2>1 DEF IsDistances
<1> QED
  BY <1>1, <1>2, <1>4 DEF m

\* The new points of a path are at its start, at its end and between.
LEMMA NewDistancesEnd ==
    ASSUME NEW length \in Nat, NEW spacing \in Nat \ {0}
    PROVE  LET new == NewDistances(length, spacing)
           IN Len(new) \in Nat \ {0} /\ new[1] = 0 /\ new[Len(new)] = length
<1> DEFINE n == length \div spacing + 1
           regular == [k \in 1 .. n |-> (k - 1) * spacing]
<1>1. n \in Nat \ {0} /\ (n - 1) * spacing \in Nat /\ (n - 1) * spacing <= length
  <2>1. length \div spacing \in Nat /\ spacing * (length \div spacing) <= length
    OBVIOUS
  <2>2. n - 1 = length \div spacing /\ n \in Nat \ {0}
    BY <2>1
  <2>3. (n - 1) * spacing = spacing * (length \div spacing)
    BY <2>1, <2>2
  <2> HIDE DEF n
  <2> QED
    BY <2>1, <2>2, <2>3
<1>2. NewDistances(length, spacing)
        = IF regular[Len(regular)] < length THEN Append(regular, length) ELSE regular
  BY DEF NewDistances
<1> HIDE DEF n
<1>3. \A k \in 1 .. n : (k - 1) * spacing \in Int
  BY <1>1
<1>4. Len(regular) = n /\ regular \in Seq(Int)
  BY <1>1, <1>3
<1>5. regular[n] = (n - 1) * spacing /\ regular[1] = 0
  BY <1>1
<1> HIDE DEF regular
<1>6. CASE regular[n] < length
  <2>1. NewDistances(length, spacing) = Append(regular, length)
    BY <1>2, <1>4, <1>6
  <2>2. /\ Len(Append(regular, length)) = n + 1 /\ Append(regular, length)[1] = regular[1]
        /\ Append(regular, length)[n + 1] = length
    BY <1>1, <1>4
  <2> QED
    BY <1>1, <1>5, <2>1, <2>2
<1>7. CASE ~ (regular[n] < length)
  <2>1. NewDistances(length, spacing) = regular
    BY <1>2, <1>4, <1>7
  <2>2. regular[n] = length
    BY <1>1, <1>5, <1>7
  <2> QED
    BY <1>1, <1>4, <1>5, <2>1, <2>2
<1> QED
  BY <1>6, <1>7

\* The ends of a path are those of the points it is along.
LEMMA PathEnds ==
    ASSUME NEW points, Len(points) \in Nat \ {0}, NEW spacing \in Nat \ {0}, NEW capacity,
           NEW path, path = arc_length_parameterize(points, spacing, capacity),
           path.ok, path.total \in Nat \ {0}
    PROVE  /\ arc_length_interpolate(path.points, path.along, 0) = points[1]
           /\ arc_length_interpolate(path.points, path.along, path.total)
                = points[Len(points)]
<1> DEFINE old == DistancesAlong(points)
           new == NewDistances(old[Len(old)], spacing)
           places == [k \in 1 .. Len(new) |-> arc_length_interpolate(points, old, new[k])]
<1>1. path = IF Len(points) > capacity \/ Len(new) > capacity THEN Refused
             ELSE [ok |-> TRUE, points |-> places, along |-> new, total |-> old[Len(old)]]
  BY DEF arc_length_parameterize
<1>2. old[1] = 0 /\ Len(old) = Len(points)
  BY DistancesBegin
<1> HIDE DEF old
<1>3. path.points = places /\ path.along = new /\ path.total = old[Len(old)]
  <2> HIDE DEF new, places
  <2> QED
    BY <1>1 DEF Refused
<1>4. Len(new) \in Nat \ {0} /\ new[1] = 0 /\ new[Len(new)] = path.total
  <2>1. PICK length \in Nat : length = path.total
    OBVIOUS
  <2>2. new = NewDistances(length, spacing)
    BY <1>3, <2>1
  <2>3. LET distances == NewDistances(length, spacing)
        IN /\ Len(distances) \in Nat \ {0} /\ distances[1] = 0
           /\ distances[Len(distances)] = length
    BY NewDistancesEnd
  <2> HIDE DEF new
  <2> QED
    BY <2>1, <2>2, <2>3
<1> HIDE DEF new
<1>5. 1 \in 1 .. Len(new) /\ Len(new) \in 1 .. Len(new)
  BY <1>4
<1>6. places[1] = points[1]
  <2>1. arc_length_interpolate(points, old, 0) = points[1]
    BY <1>2 DEF arc_length_interpolate
  <2> QED
    BY <1>4, <1>5, <2>1
<1>7. places[Len(new)] = points[Len(points)]
  <2>1. arc_length_interpolate(points, old, path.total) = points[Len(points)]
    <3>1. ~ (path.total <= old[1]) /\ path.total >= old[Len(old)]
      BY <1>2, <1>3
    <3> QED
      BY <3>1 DEF arc_length_interpolate
  <2> QED
    BY <1>4, <1>5, <2>1
<1>8. Len(places) = Len(new)
  BY <1>4
<1> HIDE DEF places
<1>9. arc_length_interpolate(places, new, 0) = places[1]
  BY <1>4 DEF arc_length_interpolate
<1>10. arc_length_interpolate(places, new, path.total) = places[Len(places)]
  <2>1. ~ (path.total <= new[1]) /\ path.total >= new[Len(new)]
    BY <1>4
  <2> QED
    BY <2>1 DEF arc_length_interpolate
<1> QED
  BY <1>3, <1>6, <1>7, <1>8, <1>9, <1>10

\* A line from one point to the other.
LEMMA LineEnds ==
    ASSUME NEW origin \in Int \X Int, NEW end \in Int \X Int, NEW count \in Nat \ {0, 1}
    PROVE  LET points == generate_line_waypoints(origin, end, count)
           IN Len(points) = count /\ points[1] = origin /\ points[count] = end
<1> DEFINE at(i, axis) ==
               origin[axis] + ((i - 1) * (end[axis] - origin[axis])) \div (count - 1)
           points == generate_line_waypoints(origin, end, count)
<1>1. points = [i \in 1 .. count |-> << at(i, 1), at(i, 2) >>]
  BY DEF generate_line_waypoints
<1>2. /\ origin[1] \in Int /\ origin[2] \in Int /\ origin = << origin[1], origin[2] >>
      /\ end[1] \in Int /\ end[2] \in Int /\ end = << end[1], end[2] >>
  OBVIOUS
<1>3. ASSUME NEW axis \in {1, 2}
      PROVE  at(1, axis) = origin[axis] /\ at(count, axis) = end[axis]
  <2>0. origin[axis] \in Int /\ end[axis] \in Int
    BY <1>2
  <2>1. PICK s \in Int, e \in Int : s = origin[axis] /\ e = end[axis]
    BY <2>0
  <2>2. PICK c \in Nat \ {0} : c = count - 1
    OBVIOUS
  <2>3. PICK d \in Int : d = e - s
    OBVIOUS
  <2>4. (0 * d) \div c = 0 /\ (c * d) \div c = d
    BY QuotientOfProduct
  <2>5. at(1, axis) = s + (0 * d) \div c /\ at(count, axis) = s + (c * d) \div c
    BY <2>1, <2>2, <2>3
  <2> HIDE DEF at
  <2>6. s + 0 = s /\ s + d = e
    BY <2>3
  <2> QED
    BY <2>1, <2>4, <2>5, <2>6
<1> HIDE DEF at, points
<1>4. 1 \in 1 .. count /\ count \in 1 .. count
  OBVIOUS
<1>5. points[1] = << at(1, 1), at(1, 2) >> /\ points[count] = << at(count, 1), at(count, 2) >>
  BY <1>1, <1>4
<1>6. Len(points) = count
  BY <1>1
<1> QED
  BY <1>2, <1>3, <1>5, <1>6 DEF points

\* Where a sample of a stream lies.
PlaceAt(stream, n) ==
    arc_length_interpolate(stream.path.points, stream.path.along,
                           EvaluateIndex(stream.profile, n).s)

\* What PATH_VALIDATION needs of the stream of a segment: it is at its first sample,
\* it has two or more, and they go from the first point of the segment to its last.
OpenedFor(stream, piece) ==
    /\ DOMAIN stream = StreamFields
    /\ stream.initialized
    /\ ~ stream.finished
    /\ stream.profile.samples \in 2 .. TimeCapacity
    /\ piece.points # << >>
    /\ PlaceAt(stream, 0) = piece.points[1]
    /\ PlaceAt(stream, stream.profile.samples - 1) = piece.points[Len(piece.points)]

\* There are at least two samples, the last one at the end of the path.
LEMMA SamplesOfProfile ==
    ASSUME NEW l, NEW dt \in Nat \ {0}, IsWhole(l)
    PROVE  LET p == ProfileOf(l, dt)
           IN /\ p.samples \in Nat /\ p.samples >= 2
              /\ EvaluateIndex(p, 0).s = 0
              /\ EvaluateIndex(p, p.samples - 1).s = Sixths * l.d
<1> DEFINE p == ProfileOf(l, dt)
<1>1. IsFeasible(p)
  BY ProfileOfIsFeasible
<1>2. p.duration \in Nat \ {0}
  <2>1. {l.v, l.a, l.j, l.d} \subseteq Nat \ {0}
    BY DEF IsWhole
  <2>2. IsShapeFor(ShapeOf(l), l)
    BY ShapeFits
  <2>3. IsAlong(p, l.j, ShapeOf(l).tJ, ShapeOf(l).tA, ShapeOf(l).tV)
    BY <2>1, <2>2, ProfileIsAlong
  <2> HIDE DEF p
  <2>4. PICK T \in Nat \ {0}, A \in Nat, V \in Nat :
            T = ShapeOf(l).tJ /\ A = ShapeOf(l).tA /\ V = ShapeOf(l).tV
    BY <2>2 DEF IsShapeFor
  <2>5. p.duration = Corners(l.j, T, A, V)[8].t
    BY <2>3, <2>4 DEF IsAlong
  <2>6. p.duration = 4 * T + 2 * A + V
    BY <2>5 DEF Corners, At
  <2> QED
    BY <2>6
<1>3. p.limits = l /\ p.samples = SamplesOf(p.duration, dt) /\ p.dt = dt
  BY DEF ProfileOf, ProfileFrom
<1> HIDE DEF p
<1>4. PICK duration \in Nat \ {0} : duration = p.duration
  BY <1>2
<1>5. p.samples \in Nat /\ p.samples >= 2
  <2> DEFINE q == duration \div dt
  <2>1. q \in Nat /\ duration < dt * (q + 1)
    OBVIOUS
  <2>2. p.samples = IF ((q + 1) - 1) * dt < duration THEN (q + 1) + 1 ELSE q + 1
    BY <1>3, <1>4 DEF SamplesOf
  <2> HIDE DEF q
  <2>3. CASE q = 0
    BY <2>2, <2>3
  <2>4. CASE q # 0
    BY <2>1, <2>2, <2>4
  <2> QED
    BY <2>3, <2>4
<1>6. EvaluateIndex(p, 0).s = 0
  <2>1. SampleTime(p, 0) = 0
    <3>1. 0 # p.samples - 1 /\ 0 * p.dt = 0
      BY <1>3, <1>5
    <3> QED
      BY <3>1 DEF SampleTime
  <2>2. Evaluate(p, 0) = AtRest
    <3>1. ~ (0 < 0) /\ ~ (0 > p.duration) /\ ~ (0 >= p.duration) /\ 0 <= 0
      BY <1>2
    <3> QED
      BY <3>1 DEF Evaluate
  <2> QED
    BY <2>1, <2>2 DEF EvaluateIndex, AtRest
<1>7. EvaluateIndex(p, p.samples - 1).s = Sixths * l.d
  <2>1. SampleTime(p, p.samples - 1) = p.duration
    BY DEF SampleTime
  <2>2. Evaluate(p, p.duration)
          = [t |-> p.duration, s |-> Sixths * p.limits.d, v |-> 0, a |-> 0]
    <3>1. ~ (p.duration < 0) /\ ~ (p.duration > p.duration) /\ p.duration >= p.duration
      BY <1>2
    <3> QED
      BY <3>1 DEF Evaluate
  <2> QED
    BY <1>3, <2>1, <2>2 DEF EvaluateIndex
<1> QED
  BY <1>5, <1>6, <1>7 DEF p

\* The stream over a path of whole length.
LEMMA StreamOverEnds ==
    ASSUME NEW points, Len(points) \in Nat \ {0}, NEW request,
           request.spacing \in Nat \ {0}, request.dt \in Nat \ {0},
           HasWholeProfile(StreamAlong(points, request)),
           IsSampled(StreamAlong(points, request)),
           StreamAlong(points, request).initialized
    PROVE  LET stream == StreamAlong(points, request)
           IN /\ ~ stream.finished
              /\ stream.profile.samples \in 2 .. TimeCapacity
              /\ PlaceAt(stream, 0) = points[1]
              /\ PlaceAt(stream, stream.profile.samples - 1) = points[Len(points)]
<1> DEFINE path == arc_length_parameterize(points, request.spacing, request.capacity)
           limits == LimitsOf(path, request)
           profile == ProfileOf(limits, request.dt)
           stream == StreamAlong(points, request)
<1>1. /\ path.ok /\ path.total # 0
      /\ ~ stream.finished /\ stream.path = path /\ stream.profile = profile
  BY DEF StreamAlong, StreamOver, Failed, NoStream
<1>2. profile.limits = limits
  BY DEF ProfileOf, ProfileFrom
<1>3. limits.d = path.total \div Sixths
  BY DEF LimitsOf
<1> HIDE DEF profile, limits, stream
<1>4. IsWhole(limits)
  BY <1>1, <1>2 DEF HasWholeProfile, stream
<1>5. /\ path.total \in Nat \ {0} /\ path.total % Sixths = 0
      /\ profile.samples <= TimeCapacity
  BY <1>1 DEF IsSampled, stream
<1> HIDE DEF path
<1>6. /\ profile.samples \in Nat /\ profile.samples >= 2
      /\ EvaluateIndex(profile, 0).s = 0
      /\ EvaluateIndex(profile, profile.samples - 1).s = Sixths * limits.d
  BY <1>4, SamplesOfProfile DEF profile
<1>7. Sixths * limits.d = path.total
  <2>1. PICK length \in Nat : length = path.total
    BY <1>5
  <2>2. length % 6 = 0 => 6 * (length \div 6) = length
    OBVIOUS
  <2> QED
    BY <1>3, <1>5, <2>1, <2>2 DEF Sixths
<1>8. /\ arc_length_interpolate(path.points, path.along, 0) = points[1]
      /\ arc_length_interpolate(path.points, path.along, path.total) = points[Len(points)]
  BY <1>1, <1>5, PathEnds DEF path
<1>9. profile.samples \in 2 .. TimeCapacity
  BY <1>5, <1>6, ConfigAssumption DEF ConfigAssumption
<1> QED
  BY <1>1, <1>6, <1>7, <1>8, <1>9 DEF PlaceAt, stream

\* The stream of a segment goes from its first point to its last.
LEMMA PieceOpens ==
    ASSUME NEW segments, IsProgram(segments), NEW n \in 1 .. Len(segments), NEW seed,
           ~ (SpeedOf(segments[n]) > Config.speedLimit),
           StreamOf(segments[n], seed).initialized
    PROVE  OpenedFor(StreamOf(segments[n], seed), segments[n])
<1> DEFINE piece == segments[n]
           stream == StreamOf(piece, seed)
           request == RequestOf(piece, seed)
           points == WaypointsOf(piece)
<1>1. /\ IsPiece(piece) /\ HasWholeProfile(StreamOf(piece, piece.taught))
      /\ IsSampled(StreamOf(piece, piece.taught))
  BY DEF IsProgram, IsSegment
<1>2. Alike(StreamOf(piece, piece.taught), stream)
  BY SeedIsNoLimit
<1>3. DOMAIN stream = StreamFields
  BY PieceFollows DEF FollowsProfile
<1>4. stream.initialized
  OBVIOUS
<1>5. /\ request.points = piece.points /\ request.count = Config.geometryPoints
      /\ request.spacing \in Nat \ {0} /\ request.dt \in Nat \ {0}
      /\ request.count \in Nat \ {0}
  BY ConfigAssumption DEF ConfigAssumption, RequestOf
<1>6. stream = IF piece.type = "LINE" THEN single_line_stream_init(request)
               ELSE single_circular_stream_init(request)
  BY DEF StreamOf
<1> HIDE DEF piece, stream, request
<1>7. HasWholeProfile(stream) /\ IsSampled(stream)
  BY <1>1, <1>2 DEF HasWholeProfile, IsSampled, Alike
<1>8. \A status : ~ Failed(status).initialized
  BY DEF Failed, NoStream
<1>9. piece.points \in Seq(Int \X Int)
  BY <1>1 DEF IsPiece
<1>10. /\ stream = StreamAlong(points, request) /\ Len(points) \in Nat \ {0}
       /\ piece.points # << >> /\ points[1] = piece.points[1]
       /\ points[Len(points)] = piece.points[Len(piece.points)]
  <2>1. CASE piece.type = "LINE"
    <3>1. ~ (request.count < 2)
          /\ stream = StreamAlong(generate_line_waypoints(request.points[1],
                                      request.points[2], request.count), request)
      BY <1>4, <1>6, <1>8, <2>1 DEF single_line_stream_init
    <3>2. /\ Len(piece.points) = 2 /\ piece.points[1] \in Int \X Int
          /\ piece.points[2] \in Int \X Int
      BY <1>1, <1>9, <2>1 DEF IsPiece
    <3>3. PICK origin \in Int \X Int, end \in Int \X Int, count \in Nat \ {0, 1} :
              origin = piece.points[1] /\ end = piece.points[2] /\ count = request.count
      BY <1>5, <3>1, <3>2
    <3>4. LET line == generate_line_waypoints(origin, end, count)
          IN Len(line) = count /\ line[1] = origin /\ line[count] = end
      BY LineEnds
    <3>5. points = generate_line_waypoints(origin, end, count)
      BY <1>5, <2>1, <3>3 DEF WaypointsOf
    <3>6. stream = StreamAlong(points, request)
      BY <1>5, <3>1, <3>3, <3>5
    <3> HIDE DEF points
    <3> QED
      BY <3>2, <3>3, <3>4, <3>5, <3>6
  <2>2. CASE piece.type # "LINE"
    <3>1. request.points # << >> /\ stream = StreamAlong(request.points, request)
      BY <1>4, <1>6, <1>8, <2>2 DEF single_circular_stream_init
    <3>2. points = piece.points
      BY <2>2 DEF WaypointsOf
    <3>3. Len(piece.points) \in Nat \ {0}
      BY <1>5, <1>9, <3>1
    <3> QED
      BY <1>5, <3>1, <3>2, <3>3
  <2> QED
    BY <2>1, <2>2
<1> HIDE DEF points
<1>11. /\ ~ stream.finished
       /\ stream.profile.samples \in 2 .. TimeCapacity
       /\ PlaceAt(stream, 0) = points[1]
       /\ PlaceAt(stream, stream.profile.samples - 1) = points[Len(points)]
  BY <1>4, <1>5, <1>7, <1>10, StreamOverEnds
<1>12. OpenedFor(stream, piece)
  BY <1>3, <1>4, <1>10, <1>11 DEF OpenedFor
<1> QED
  BY <1>12 DEF stream, piece

\* What a stream becomes at a sample that has a solution.
Advanced(stream, next) ==
    /\ next.sample.ok
    /\ next.sample.index = stream.next
    /\ next.sample.place = PlaceAt(stream, stream.next)
    /\ DOMAIN next.stream = StreamFields
    /\ next.stream.initialized = stream.initialized
    /\ next.stream.profile = stream.profile /\ next.stream.path = stream.path
    /\ next.stream.next = stream.next + 1
    /\ next.stream.finished <=> stream.next + 1 >= stream.profile.samples

\* A stream gives the sample it is at, or fails for want of a solution.
LEMMA NextOfStream ==
    ASSUME NEW stream, NEW piece, NEW behaviour, OpenedFor(stream, piece),
           stream.next \in 0 .. stream.profile.samples - 1
    PROVE  LET next == single_line_stream_next(stream, behaviour)
           IN \/ ~ next.sample.ok /\ next.stream.status = "IK_FAILED"
              \/ Advanced(stream, next)
<1> DEFINE next == single_line_stream_next(stream, behaviour)
           movement == EvaluateIndex(stream.profile, stream.next)
           sample == SampleAlong(stream, behaviour, movement)
<1>1. /\ DOMAIN stream = StreamFields /\ stream.initialized /\ ~ stream.finished
      /\ stream.profile.samples \in 2 .. TimeCapacity
  BY DEF OpenedFor
<1>2. ~ (stream.next >= stream.profile.samples)
  BY <1>1
<1>3. next = Given(stream, sample)
  BY <1>1, <1>2 DEF single_line_stream_next
<1>4. /\ sample.ok /\ sample.index = stream.next
      /\ sample.place = PlaceAt(stream, stream.next)
  BY DEF SampleAlong, SampleOf, PlaceAt
<1> HIDE DEF sample, next
<1>5. CASE sample.q = NoSolution
  <2>1. next.stream = [stream EXCEPT !.status = "IK_FAILED"] /\ next.sample = NoSample
    BY <1>3, <1>5 DEF Given
  <2>2. next.stream.status = "IK_FAILED" /\ ~ next.sample.ok
    BY <1>1, <2>1 DEF StreamFields, NoSample
  <2> QED
    BY <2>2 DEF next
<1>6. CASE sample.q # NoSolution
  <2>1. next.stream = Taken(stream, sample) /\ next.sample = sample
    BY <1>3, <1>6 DEF Given
  <2>2. /\ DOMAIN next.stream = StreamFields
        /\ next.stream.initialized = stream.initialized
        /\ next.stream.profile = stream.profile /\ next.stream.path = stream.path
        /\ next.stream.next = stream.next + 1
    BY <1>1, <2>1 DEF StreamFields, Taken
  <2>3. next.stream.finished = (stream.finished
                                 \/ stream.next + 1 >= stream.profile.samples)
    BY <1>1, <2>1 DEF StreamFields, Taken
  <2>4. next.stream.finished <=> stream.next + 1 >= stream.profile.samples
    BY <1>1, <2>3
  <2>5. Advanced(stream, next)
    BY <1>4, <2>1, <2>2, <2>4 DEF Advanced
  <2> QED
    BY <2>5 DEF next
<1> QED
  BY <1>5, <1>6

-----------------------------------------------------------------------------
(* The validation of a program.                                            *)

\* While a validation runs, what was stored is what was counted, and the stream of
\* the segment in work has samples left; nothing is committed before it is valid.
CheckInv ==
    /\ checkPhase \in {"IDLE", "PREPARE_SEGMENT", "GENERATE_AND_VALIDATE_SAMPLE",
                       "FINALIZE", "VALID", "INVALID"}
    /\ checkPhase # "VALID" => committed = FALSE
    /\ checkPhase \notin {"VALID", "INVALID"} =>
          /\ writing = TRUE
          /\ checkError = "NONE"
          /\ sampleIndex = Len(stored)
    /\ \E S : stored \in Seq(S)
    /\ sampleIndex \in 0 .. Config.storageCapacity
    /\ checkPhase \in {"PREPARE_SEGMENT", "GENERATE_AND_VALIDATE_SAMPLE"} =>
          IsProgram(program) /\ segment \in 1 .. Len(program)
    /\ checkPhase = "GENERATE_AND_VALIDATE_SAMPLE" =>
          /\ OpenedFor(checkStream, Piece)
          /\ checkStream.next \in 0 .. checkStream.profile.samples - 1

\* A validation begins with nothing stored.
LEMMA CheckInvInit == Init => CheckInv
<1> SUFFICES ASSUME Init
             PROVE  CheckInv
  OBVIOUS
<1>1. /\ checkPhase \in {"IDLE", "PREPARE_SEGMENT"} /\ committed = FALSE /\ writing = TRUE
      /\ checkError = "NONE" /\ sampleIndex = 0 /\ stored = << >> /\ segment = 1
      /\ checkPhase = "PREPARE_SEGMENT" => program \in Programs
  BY DEF Init, CheckInit
<1>2. program \in Programs => IsProgram(program) /\ 1 \in 1 .. Len(program)
  BY ProgramsAssumption DEF ProgramsAssumption, IsProgram
<1>3. stored \in Seq({})
  BY <1>1
<1>4. 0 \in 0 .. Config.storageCapacity
  BY ConfigAssumption DEF ConfigAssumption
<1>5. Len(stored) = 0
  BY <1>1
<1> QED
  BY <1>1, <1>2, <1>3, <1>4, <1>5 DEF CheckInv

\* The places of what is stored.
PlacesOf(samples) == [n \in 1 .. Len(samples) |-> StoredPlace(samples[n])]

\* One more sample is one more place.
LEMMA SameSequence ==
    ASSUME NEW S, NEW one \in Seq(S), NEW other \in Seq(S), Len(one) = Len(other),
           \A n \in 1 .. Len(one) : one[n] = other[n]
    PROVE  one = other
OBVIOUS

\* A sample that is appended adds one place to the places stored.
LEMMA PlacesAppend ==
    ASSUME NEW S, NEW samples \in Seq(S), NEW sample
    PROVE  /\ \E T : Append(samples, sample) \in Seq(T)
           /\ Len(Append(samples, sample)) = Len(samples) + 1
           /\ PlacesOf(Append(samples, sample))
                = Append(PlacesOf(samples), StoredPlace(sample))
           /\ Len(PlacesOf(samples)) = Len(samples)
<1> DEFINE T == S \cup {sample}
           P == {StoredPlace(x) : x \in T}
           m == Len(samples)
           longer == Append(samples, sample)
           places == PlacesOf(samples)
           one == PlacesOf(longer)
           other == Append(places, StoredPlace(sample))
<1>1. m \in Nat /\ samples \in Seq(T) /\ sample \in T
  OBVIOUS
<1>2. \A x \in T : StoredPlace(x) \in P
  OBVIOUS
<1> HIDE DEF P, T
<1>3. /\ longer \in Seq(T) /\ Len(longer) = m + 1
      /\ \A n \in 1 .. m : longer[n] = samples[n]
      /\ longer[m + 1] = sample
  BY <1>1
<1> HIDE DEF longer
<1>4. /\ places \in Seq(P) /\ Len(places) = m
      /\ \A n \in 1 .. m : places[n] = StoredPlace(samples[n])
  BY <1>1, <1>2 DEF PlacesOf
<1>5. /\ one \in Seq(P) /\ Len(one) = m + 1
      /\ \A n \in 1 .. m + 1 : one[n] = StoredPlace(longer[n])
  BY <1>1, <1>2, <1>3 DEF PlacesOf
<1> HIDE DEF places, one
<1>6. /\ other \in Seq(P) /\ Len(other) = m + 1
      /\ \A n \in 1 .. m : other[n] = places[n]
      /\ other[m + 1] = StoredPlace(sample)
  BY <1>1, <1>2, <1>4
<1> HIDE DEF other, m
<1>7. \A n \in 1 .. m + 1 : one[n] = other[n]
  <2>1. ASSUME NEW n \in 1 .. m + 1
        PROVE  one[n] = other[n]
    <3>1. n = m + 1 \/ n \in 1 .. m
      BY <1>1
    <3>2. CASE n = m + 1
      BY <1>3, <1>5, <1>6, <3>2
    <3>3. CASE n \in 1 .. m
      BY <1>3, <1>4, <1>5, <1>6, <3>3
    <3> QED
      BY <3>1, <3>2, <3>3
  <2> QED
    BY <2>1
<1>8. one = other
  BY <1>5, <1>6, <1>7, SameSequence
<1> QED
  BY <1>3, <1>4, <1>8 DEF longer, places, one, other, m

\* Records of the storage.
StorageFields == {"writing", "committed", "samples", "metadata"}
StorageOf(w, c, s, m) == [writing |-> w, committed |-> c, samples |-> s, metadata |-> m]
IsStorage(r) == DOMAIN r = StorageFields /\ r = [f \in StorageFields |-> r[f]]

\* They are the same if their fields are.
LEMMA SameStorage ==
    ASSUME NEW one, NEW other, IsStorage(one), IsStorage(other),
           one.writing = other.writing, one.committed = other.committed,
           one.samples = other.samples, one.metadata = other.metadata
    PROVE  one = other
BY DEF IsStorage, StorageFields

\* What giving up, committing and writing make of a record of the storage.
GivenUp(r, w, c, s) == [r EXCEPT !.writing = w, !.committed = c, !.samples = s]
Done(r, w, c, m) == [r EXCEPT !.writing = w, !.committed = c, !.metadata = m]
Written(r, s) == [r EXCEPT !.samples = s]

\* A storage that is given up.
LEMMA GivingUp ==
    ASSUME NEW w, NEW c, NEW s, NEW m, NEW w2, NEW c2, NEW s2
    PROVE  GivenUp(StorageOf(w, c, s, m), w2, c2, s2)
             = StorageOf(w2, c2, s2, m)
<1> DEFINE r == StorageOf(w, c, s, m)
           one == [r EXCEPT !.writing = w2, !.committed = c2, !.samples = s2]
<1>1. /\ IsStorage(r) /\ r.writing = w /\ r.committed = c /\ r.samples = s /\ r.metadata = m
      /\ IsStorage(StorageOf(w2, c2, s2, m))
  BY DEF IsStorage, StorageFields, StorageOf
<1> HIDE DEF r
<1>2. IsStorage(one)
  BY <1>1 DEF IsStorage, StorageFields
<1>3. /\ one.writing = w2 /\ one.committed = c2
      /\ one.samples = s2 /\ one.metadata = m
  BY <1>1 DEF IsStorage, StorageFields
<1> HIDE DEF one
<1>4. one = StorageOf(w2, c2, s2, m)
  BY <1>1, <1>2, <1>3, SameStorage DEF StorageOf
<1> QED
  BY <1>4 DEF one, r, GivenUp

\* A storage that is committed.
LEMMA Committing ==
    ASSUME NEW w, NEW c, NEW s, NEW m, NEW w2, NEW c2, NEW m2
    PROVE  Done(StorageOf(w, c, s, m), w2, c2, m2)
             = StorageOf(w2, c2, s, m2)
<1> DEFINE r == StorageOf(w, c, s, m)
           one == [r EXCEPT !.writing = w2, !.committed = c2, !.metadata = m2]
<1>1. /\ IsStorage(r) /\ r.writing = w /\ r.committed = c /\ r.samples = s /\ r.metadata = m
      /\ IsStorage(StorageOf(w2, c2, s, m2))
  BY DEF IsStorage, StorageFields, StorageOf
<1> HIDE DEF r
<1>2. IsStorage(one)
  BY <1>1 DEF IsStorage, StorageFields
<1>3. /\ one.writing = w2 /\ one.committed = c2
      /\ one.samples = s /\ one.metadata = m2
  BY <1>1 DEF IsStorage, StorageFields
<1> HIDE DEF one
<1>4. one = StorageOf(w2, c2, s, m2)
  BY <1>1, <1>2, <1>3, SameStorage DEF StorageOf
<1> QED
  BY <1>4 DEF one, r, Done

\* A storage with one more sample.
LEMMA Writing ==
    ASSUME NEW w, NEW c, NEW s, NEW m, NEW s2
    PROVE  Written(StorageOf(w, c, s, m), s2)
             = StorageOf(w, c, s2, m)
<1> DEFINE r == StorageOf(w, c, s, m)
           one == [r EXCEPT !.samples = s2]
<1>1. /\ IsStorage(r) /\ r.writing = w /\ r.committed = c /\ r.samples = s /\ r.metadata = m
      /\ IsStorage(StorageOf(w, c, s2, m))
  BY DEF IsStorage, StorageFields, StorageOf
<1> HIDE DEF r
<1>2. IsStorage(one)
  BY <1>1 DEF IsStorage, StorageFields
<1>3. /\ one.writing = w /\ one.committed = c
      /\ one.samples = s2 /\ one.metadata = m
  BY <1>1 DEF IsStorage, StorageFields
<1> HIDE DEF one
<1>4. one = StorageOf(w, c, s2, m)
  BY <1>1, <1>2, <1>3, SameStorage DEF StorageOf
<1> QED
  BY <1>4 DEF one, r, Written

\* The storage as the abstract validation has it.
LEMMA StorageIs ==
    /\ committed = FALSE => Storage = StorageOf(writing, FALSE, PlacesOf(stored), << >>)
    /\ committed = TRUE =>
          Storage = StorageOf(writing, TRUE, PlacesOf(stored),
                              [id |-> 1, revision |-> 1, checksum |-> 1,
                               counts |-> counts, samples |-> sampleIndex])
BY DEF Storage, StorageOf, PlacesOf

\* The storage after a step, by whether it is committed.
LEMMA NextStorageIs ==
    /\ committed' = FALSE =>
          Storage' = StorageOf(writing', FALSE, PlacesOf(stored'), << >>)
    /\ committed' = TRUE =>
          Storage' = StorageOf(writing', TRUE, PlacesOf(stored'),
                               [id |-> 1, revision |-> 1, checksum |-> 1,
                                counts |-> counts', samples |-> sampleIndex'])
BY DEF Storage, StorageOf, PlacesOf, StoredPlace

\* What a failed check reports is the failure of the abstract validation.
LEMMA FailIsInvalid ==
    ASSUME CheckInv, checkPhase \notin {"VALID", "INVALID"}, NEW error, Fail(error),
           NEW outcome, Outcome' = outcome
    PROVE  CheckInv' /\ Validation!Invalid(outcome)
<1>1. committed = FALSE /\ committed' = FALSE
  BY DEF CheckInv, Fail
<1>2. /\ checkPhase' = "INVALID" /\ writing' = FALSE /\ stored' = << >>
      /\ UNCHANGED <<program, segment, checkStream, counts, sampleIndex>>
  BY DEF Fail
<1>3. CheckInv'
  <2>1. stored' \in Seq({})
    BY <1>2
  <2> QED
    BY <1>1, <1>2, <2>1 DEF CheckInv
<1>4. Submission' = Submission
  BY <1>2 DEF Submission
<1>5. sample_count(checkStream)' = sample_count(checkStream)
  BY <1>2 DEF sample_count
<1>6. Storage' = [Storage EXCEPT !.writing = FALSE, !.committed = FALSE, !.samples = << >>]
  <2>1. Storage = StorageOf(writing, FALSE, PlacesOf(stored), << >>)
    BY <1>1, StorageIs
  <2>2. Storage' = StorageOf(FALSE, FALSE, << >>, << >>)
    <3>1. PlacesOf(stored') = << >>
      BY <1>2 DEF PlacesOf
    <3> QED
      BY <1>1, <1>2, <3>1, NextStorageIs
  <2> DEFINE no == FALSE
  <2>3. GivenUp(StorageOf(writing, no, PlacesOf(stored), << >>), no, no, << >>)
          = StorageOf(no, no, << >>, << >>)
    <3> HIDE DEF no
    <3> QED
      BY GivingUp
  <2>4. Storage' = GivenUp(Storage, FALSE, FALSE, << >>)
    BY <2>1, <2>2, <2>3
  <2> QED
    BY <2>4 DEF GivenUp
<1> QED
  BY <1>2, <1>3, <1>4, <1>5, <1>6
     DEF Validation!Invalid, Validation!AbortStorage

\* There is room in the budget for the samples of the storage.
LEMMA BudgetIsLeft ==
    ASSUME CheckInv
    PROVE  sampleIndex < Config.storageCapacity + 1
BY ConfigAssumption DEF ConfigAssumption, CheckInv

\* Every segment that is not too fast is opened or refused.
LEMMA PrepareIsPrepare ==
    ASSUME CheckInv, PrepareSegment
    PROVE  CheckInv' /\ Validation!PrepareSegment
<1> DEFINE stream == StreamOf(Piece, Seed)
           fast == SpeedOf(Piece) > Config.speedLimit
<1>1. /\ checkPhase = "PREPARE_SEGMENT" /\ IsProgram(program) /\ segment \in 1 .. Len(program)
      /\ Len(program) \in Nat /\ checkError = "NONE" /\ committed = FALSE
  BY DEF PrepareSegment, CheckInv, IsProgram
<1>2. TooFastPiece <=> fast
  BY <1>1 DEF TooFastPiece
<1>3. Validation!TooFast <=> fast
  <2>1. Submission.segments[segment].speed = IF fast THEN 2 ELSE 1
    BY <1>1 DEF Submission, Piece
  <2> HIDE DEF fast
  <2> QED
    BY <2>1 DEF Validation!TooFast, Validation!Segment, Validation!FastestTaught,
                Validation!FastestValidated
<1>4. ASSUME NEW error, Fail(error)
      PROVE  /\ checkError' = error /\ TooFastPiece' = TooFastPiece
             /\ error \in {"INVALID_PARAMETER", "DEGENERATE_GEOMETRY", "ZERO_LENGTH_SEGMENT"}
                   => Outcome' = IF fast THEN "INVALID_PARAMETER" ELSE "GEOMETRY"
  <2>1. checkError' = error /\ UNCHANGED <<program, segment>>
    BY <1>4 DEF Fail
  <2>2. TooFastPiece' = TooFastPiece
    BY <2>1 DEF TooFastPiece, Piece
  <2> HIDE DEF fast
  <2> QED
    BY <1>2, <2>1, <2>2 DEF Outcome
<1>5. CASE fast
  <2>1. Fail("INVALID_PARAMETER")
    BY <1>5 DEF PrepareSegment
  <2>2. Outcome' = "INVALID_PARAMETER"
    BY <1>4, <1>5, <2>1
  <2>3. CheckInv' /\ Validation!Invalid("INVALID_PARAMETER")
    BY <1>1, <2>1, <2>2, FailIsInvalid
  <2> HIDE DEF fast
  <2> QED
    BY <1>1, <1>3, <1>5, <2>3 DEF Validation!PrepareSegment
<1>6. CASE ~ fast
  <2> DEFINE Opens == /\ stream.initialized
                      /\ checkStream' = [stream EXCEPT !.next = FirstIndex]
                      /\ counts' = Append(counts, 0)
                      /\ checkPhase' = "GENERATE_AND_VALIDATE_SAMPLE"
                      /\ UNCHANGED <<program, checkError, segment, sampleIndex,
                                     writing, committed, stored>>
             errors == {"INVALID_PARAMETER", "DEGENERATE_GEOMETRY", "ZERO_LENGTH_SEGMENT"}
  <2>1. stream.initialized => OpenedFor(stream, Piece)
    BY <1>1, <1>6, PieceOpens DEF Piece
  <2>2. (\E error \in errors : Fail(error)) \/ Opens
    BY <1>6 DEF PrepareSegment, InitFailure
  <2> HIDE DEF stream
  <2>3. CASE \E error \in errors : Fail(error)
    <3>1. PICK error \in errors : Fail(error)
      BY <2>3
    <3>2. Outcome' = "GEOMETRY"
      BY <1>4, <1>6, <3>1
    <3>3. CheckInv' /\ Validation!Invalid("GEOMETRY")
      BY <1>1, <3>1, <3>2, FailIsInvalid
    <3> HIDE DEF fast
    <3> QED
      BY <1>1, <1>3, <1>6, <3>3 DEF Validation!PrepareSegment
  <2>4. CASE Opens
    <3>1. /\ DOMAIN stream = StreamFields /\ stream.initialized
          /\ stream.profile.samples \in 2 .. TimeCapacity
      BY <2>1, <2>4 DEF OpenedFor
    <3>2. /\ DOMAIN checkStream' = StreamFields /\ checkStream'.initialized
          /\ checkStream'.profile = stream.profile /\ checkStream'.path = stream.path
          /\ checkStream'.finished = stream.finished /\ checkStream'.next = FirstIndex
      BY <2>4, <3>1 DEF StreamFields
    <3>3. OpenedFor(checkStream', Piece) /\ Piece' = Piece
      BY <2>1, <2>4, <3>2 DEF OpenedFor, PlaceAt, Piece
    <3>4. FirstIndex \in 0 .. stream.profile.samples - 1
      BY <3>1 DEF FirstIndex
    <3>5. CheckInv'
      BY <1>1, <2>4, <3>2, <3>3, <3>4 DEF CheckInv
    <3>6. Submission' = Submission
      BY <2>4 DEF Submission
    <3>7. Outcome' = Outcome
      BY <1>1, <2>4 DEF Outcome
    <3>8. sample_count(checkStream)' = stream.profile.samples
      BY <3>2 DEF sample_count
    <3>9. Storage' = Storage
      BY <1>1, <2>4 DEF Storage, StoredPlace
    <3>10. FirstIndex = IF segment = 1 THEN 0 ELSE 1
      BY DEF FirstIndex
    <3> HIDE DEF fast
    <3> QED
      BY <1>1, <1>3, <1>6, <2>4, <3>1, <3>2, <3>5, <3>6, <3>7, <3>8, <3>9, <3>10
         DEF Validation!PrepareSegment, Validation!FirstSample
  <2> QED
    BY <2>2, <2>3, <2>4
<1> QED
  BY <1>5, <1>6

\* The points of a segment of the submitted program begin and end as it does.
LEMMA PointsOfPiece ==
    ASSUME NEW piece, IsPiece(piece), piece.points # << >>
    PROVE  LET points == PointsOf(piece)
               last == CASE piece.type = "LINE" -> 2
                         [] piece.type = "ARC" -> 3
                         [] piece.type = "CIRCLE" -> 1
           IN /\ points[1].place = piece.points[1]
              /\ points[last].place = piece.points[Len(piece.points)]
<1> DEFINE point(n) == [place |-> piece.points[n], setup |-> "tool"]
<1>1. \A n : point(n).place = piece.points[n]
  OBVIOUS
<1>2. PointsOf(piece) = IF piece.type = "LINE" THEN << point(1), point(2) >>
                        ELSE << point(1), point(2), point(Len(piece.points)) >>
  BY DEF PointsOf
<1> HIDE DEF point
<1>3. CASE piece.type = "LINE"
  <2>1. Len(piece.points) = 2 /\ PointsOf(piece) = << point(1), point(2) >>
    BY <1>2, <1>3 DEF IsPiece
  <2> QED
    BY <1>1, <1>3, <2>1
<1>4. CASE piece.type \in {"ARC", "CIRCLE"}
  <2>1. PointsOf(piece) = << point(1), point(2), point(Len(piece.points)) >>
    BY <1>2, <1>4
  <2>2. CASE piece.type = "ARC"
    BY <1>1, <2>1, <2>2
  <2>3. CASE piece.type = "CIRCLE"
    <3>1. piece.points[Len(piece.points)] = piece.points[1]
      BY <2>3 DEF IsPiece
    <3> QED
      BY <1>1, <2>1, <2>3, <3>1
  <2> QED
    BY <1>4, <2>2, <2>3
<1> QED
  BY <1>3, <1>4 DEF IsPiece

\* The segment in work, as it was submitted.
LEMMA SegmentIs ==
    ASSUME IsProgram(program), segment \in 1 .. Len(program)
    PROVE  /\ Validation!Segment.type = Piece.type
           /\ Validation!Segment.points = PointsOf(Piece)
           /\ Len(Submission.segments) = Len(program)
<1> DEFINE segments == [n \in 1 .. Len(program) |->
               [type |-> program[n].type, points |-> PointsOf(program[n]),
                speed |-> IF SpeedOf(program[n]) > Config.speedLimit THEN 2 ELSE 1]]
<1>1. Submission.segments = segments
  BY DEF Submission
<1>2. Len(segments) = Len(program)
  BY DEF IsProgram
<1>3. segments[segment].type = Piece.type /\ segments[segment].points = PointsOf(Piece)
  BY DEF Piece
<1> HIDE DEF segments
<1> QED
  BY <1>1, <1>2, <1>3 DEF Validation!Segment

\* A sample is stored where the abstract validation has it.
LEMMA PlaceOfStored ==
    ASSUME IsProgram(program), segment \in 1 .. Len(program),
           OpenedFor(checkStream, Piece),
           checkStream.next \in 0 .. checkStream.profile.samples - 1,
           NEW sample, sample.index = checkStream.next, sample.segment = segment,
           sample.place = PlaceAt(checkStream, checkStream.next),
           sample.last <=> checkStream.next + 1 >= checkStream.profile.samples
    PROVE  StoredPlace(sample) = Validation!PlaceOf(checkStream.next)
<1> DEFINE last == CASE Piece.type = "LINE" -> 2
                     [] Piece.type = "ARC" -> 3
                     [] Piece.type = "CIRCLE" -> 1
           points == PointsOf(Piece)
<1>1. IsPiece(Piece)
  BY DEF IsProgram, IsSegment, Piece
<1>2. /\ Piece.points # << >>
      /\ PlaceAt(checkStream, 0) = Piece.points[1]
      /\ PlaceAt(checkStream, checkStream.profile.samples - 1)
           = Piece.points[Len(Piece.points)]
      /\ checkStream.initialized
      /\ checkStream.profile.samples \in 2 .. TimeCapacity
  BY DEF OpenedFor
<1>3. /\ points[1].place = Piece.points[1]
      /\ points[last].place = Piece.points[Len(Piece.points)]
  BY <1>1, <1>2, PointsOfPiece
<1>4. Validation!Segment.type = Piece.type /\ Validation!Segment.points = points
  BY SegmentIs
<1> HIDE DEF points
<1>5. Validation!EndPoint(Validation!Segment) = points[last]
  BY <1>4 DEF Validation!EndPoint
<1> HIDE DEF last
<1>6. sample_count(checkStream) = checkStream.profile.samples
  BY <1>2 DEF sample_count
<1>7. Validation!PlaceOf(checkStream.next)
        = IF checkStream.next = 0 THEN points[1].place
          ELSE IF checkStream.next = checkStream.profile.samples - 1
          THEN points[last].place
          ELSE << segment, checkStream.next >>
  BY <1>4, <1>5, <1>6 DEF Validation!PlaceOf
<1>8. StoredPlace(sample)
        = IF checkStream.next = 0 \/ checkStream.next + 1 >= checkStream.profile.samples
          THEN PlaceAt(checkStream, checkStream.next)
          ELSE << segment, checkStream.next >>
  BY DEF StoredPlace
<1>9. CASE checkStream.next = 0
  BY <1>2, <1>3, <1>7, <1>8, <1>9
<1>10. CASE checkStream.next # 0 /\ checkStream.next = checkStream.profile.samples - 1
  <2>1. checkStream.next + 1 >= checkStream.profile.samples
    BY <1>2, <1>10
  <2> QED
    BY <1>2, <1>3, <1>7, <1>8, <1>10, <2>1
<1>11. CASE checkStream.next # 0 /\ checkStream.next # checkStream.profile.samples - 1
  <2>1. ~ (checkStream.next + 1 >= checkStream.profile.samples)
    BY <1>2, <1>11
  <2> QED
    BY <1>7, <1>8, <1>11, <2>1
<1> QED
  BY <1>9, <1>10, <1>11

\* A sample that is stored is one that the abstract validation stores.
LEMMA StoreIsStore ==
    ASSUME CheckInv, checkPhase = "GENERATE_AND_VALIDATE_SAMPLE",
           NEW next, Advanced(checkStream, next),
           ~ (sampleIndex >= Config.storageCapacity),
           StoreChecked(next.stream, next.sample)
    PROVE  CheckInv' /\ Validation!StoreSample
<1> DEFINE item == [q |-> Quantized(next.sample.q), place |-> next.sample.place,
                    segment |-> segment, index |-> next.sample.index,
                    last |-> is_finished(next.stream)]
           after == [next.stream EXCEPT !.seed = Quantized(next.sample.q)]
           ends == checkStream.next + 1 >= checkStream.profile.samples
<1>1. /\ committed = FALSE /\ writing = TRUE /\ checkError = "NONE"
      /\ sampleIndex = Len(stored) /\ sampleIndex \in 0 .. Config.storageCapacity
      /\ IsProgram(program) /\ segment \in 1 .. Len(program) /\ Len(program) \in Nat
      /\ OpenedFor(checkStream, Piece)
      /\ checkStream.next \in 0 .. checkStream.profile.samples - 1
  BY DEF CheckInv, IsProgram
<1>2. /\ checkStream.initialized /\ checkStream.profile.samples \in 2 .. TimeCapacity
      /\ DOMAIN checkStream = StreamFields
  BY <1>1 DEF OpenedFor
<1>3. /\ stored' = Append(stored, item)
      /\ checkStream' = after
      /\ sampleIndex' = sampleIndex + 1
      /\ counts' = [counts EXCEPT ![segment] = @ + 1]
      /\ checkPhase' = PhaseAfter(next.stream)
      /\ segment' = IF is_finished(next.stream) THEN segment + 1 ELSE segment
      /\ UNCHANGED <<program, checkError, writing, committed>>
  BY DEF StoreChecked
<1>4. /\ next.sample.index = checkStream.next
      /\ next.sample.place = PlaceAt(checkStream, checkStream.next)
      /\ DOMAIN next.stream = StreamFields
      /\ next.stream.initialized = checkStream.initialized
      /\ next.stream.profile = checkStream.profile /\ next.stream.path = checkStream.path
      /\ next.stream.next = checkStream.next + 1
      /\ next.stream.finished <=> ends
  BY DEF Advanced
<1>5. is_finished(next.stream) <=> ends
  BY <1>2, <1>4 DEF is_finished
<1>6. /\ DOMAIN after = StreamFields /\ after.initialized = checkStream.initialized
      /\ after.profile = checkStream.profile /\ after.path = checkStream.path
      /\ after.next = checkStream.next + 1
      /\ after.finished = next.stream.finished
  BY <1>4 DEF StreamFields
<1>7. after.finished <=> ends
  BY <1>4, <1>6
<1>26. PICK count \in Nat : count = checkStream.profile.samples /\ count >= 2
  BY <1>2
<1>27. PICK k \in Nat : k = checkStream.next /\ k <= count - 1
  BY <1>1, <1>26
<1>8. ends <=> k + 1 >= count
  BY <1>26, <1>27
<1>9. /\ item.index = checkStream.next /\ item.segment = segment
      /\ item.place = PlaceAt(checkStream, checkStream.next)
      /\ item.last = is_finished(next.stream)
  BY <1>4
<1> HIDE DEF item, after
<1>10. StoredPlace(item) = Validation!PlaceOf(checkStream.next)
  BY <1>1, <1>5, <1>9, PlaceOfStored
<1>11. PICK S : stored \in Seq(S)
  BY DEF CheckInv
<1>12. /\ \E T : stored' \in Seq(T)
       /\ Len(stored') = sampleIndex + 1
       /\ PlacesOf(stored') = Append(PlacesOf(stored), StoredPlace(item))
       /\ Len(PlacesOf(stored)) = sampleIndex
  BY <1>1, <1>3, <1>11, PlacesAppend
<1>13. sampleIndex' \in 0 .. Config.storageCapacity /\ sampleIndex' = Len(stored')
  BY <1>1, <1>3, <1>12, ConfigAssumption DEF ConfigAssumption
<1> HIDE DEF ends
<1>14. checkPhase' = IF ~ ends THEN "GENERATE_AND_VALIDATE_SAMPLE"
                     ELSE IF segment < Len(program) THEN "PREPARE_SEGMENT"
                     ELSE "FINALIZE"
  BY <1>3, <1>5 DEF PhaseAfter
<1>15. segment' = IF ends THEN segment + 1 ELSE segment
  BY <1>3, <1>5
<1>16. CheckInv'
  <2>1. CASE ~ ends
    <3>1. segment' = segment /\ program' = program /\ Piece' = Piece
      BY <1>3, <1>15, <2>1 DEF Piece
    <3>2. OpenedFor(checkStream', Piece')
      BY <1>1, <1>3, <1>6, <1>7, <2>1, <3>1 DEF OpenedFor, PlaceAt
    <3>3. checkStream'.next \in 0 .. checkStream'.profile.samples - 1
      BY <1>3, <1>6, <1>8, <1>26, <1>27, <2>1
    <3>4. checkPhase' = "GENERATE_AND_VALIDATE_SAMPLE"
      BY <1>14, <2>1
    <3> QED
      BY <1>1, <1>3, <1>12, <1>13, <3>1, <3>2, <3>3, <3>4 DEF CheckInv
  <2>2. CASE ends /\ segment < Len(program)
    <3>1. checkPhase' = "PREPARE_SEGMENT" /\ segment' \in 1 .. Len(program')
      BY <1>1, <1>3, <1>14, <1>15, <2>2
    <3> QED
      BY <1>1, <1>3, <1>12, <1>13, <3>1 DEF CheckInv
  <2>3. CASE ends /\ ~ (segment < Len(program))
    <3>1. checkPhase' = "FINALIZE"
      BY <1>14, <2>3
    <3> QED
      BY <1>1, <1>3, <1>12, <1>13, <3>1 DEF CheckInv
  <2> QED
    BY <2>1, <2>2, <2>3
<1>17. Submission' = Submission
  BY <1>3 DEF Submission
<1>18. Outcome' = Outcome
  BY <1>1, <1>3 DEF Outcome
<1>19. /\ sample_count(checkStream) = checkStream.profile.samples
       /\ sample_count(checkStream)' = sample_count(checkStream)
  BY <1>2, <1>3, <1>6 DEF sample_count
<1>20. Storage.writing /\ Storage.samples = PlacesOf(stored)
  BY <1>1 DEF Storage, PlacesOf
<1>21. Validation!Write(StoredPlace(item))
  <2> DEFINE no == FALSE
             more == Append(PlacesOf(stored), StoredPlace(item))
  <2>1. Written(StorageOf(writing, no, PlacesOf(stored), << >>), more)
          = StorageOf(writing, no, more, << >>)
    <3> HIDE DEF no, more
    <3> QED
      BY Writing
  <2>2. Storage = StorageOf(writing, no, PlacesOf(stored), << >>)
    BY <1>1, StorageIs
  <2>3. Storage' = StorageOf(writing, no, more, << >>)
    BY <1>1, <1>3, <1>12, NextStorageIs
  <2>4. Storage' = Written(Storage, more)
    BY <2>1, <2>2, <2>3
  <2>5. ~ (sampleIndex < Len(Storage.samples))
    BY <1>1, <1>12, <1>20
  <2> HIDE DEF no
  <2>6. Storage' = [Storage EXCEPT !.samples = Append(@, StoredPlace(item))]
    BY <1>20, <2>4 DEF Written
  <2> QED
    BY <2>5, <2>6 DEF Validation!Write
<1>22. checkPhase' = Validation!PhaseAfterSample
  <2>1. Len(Submission.segments) = Len(program)
    BY <1>1, SegmentIs
  <2>2. checkStream.next + 1 < sample_count(checkStream) <=> ~ ends
    BY <1>8, <1>19, <1>26, <1>27
  <2> QED
    BY <1>14, <2>1, <2>2 DEF Validation!PhaseAfterSample
<1>23. segment' = IF checkStream.next + 1 < sample_count(checkStream) THEN segment
                  ELSE segment + 1
  BY <1>8, <1>15, <1>19, <1>26, <1>27
<1>24. checkStream'.next = checkStream.next + 1
  BY <1>3, <1>6
<1>25. sampleIndex < Config.storageCapacity
  BY <1>1, ConfigAssumption DEF ConfigAssumption
<1> QED
  BY <1>3, <1>10, <1>16, <1>17, <1>18, <1>19, <1>20, <1>21, <1>22, <1>23, <1>24, <1>25
     DEF Validation!StoreSample

\* No check of a sample reports what a segment fails by.
SampleErrors == {"SAMPLE_CAPACITY", "POSITION_CONVERSION", "SINGULARITY_MARGIN",
                 "FK_POSITION", "JOINT_POSITION", "JOINT_DISCONTINUITY",
                 "JOINT_VELOCITY", "JOINT_ACCELERATION", "COLLISION", "STORAGE",
                 "IK_FAILED"}

\* A sample passes, or is rejected with one of the reasons there are.
LEMMA SampleErrorIs ==
    ASSUME NEW sample
    PROVE  SampleError(sample) \in SampleErrors \cup {"NONE"}
<1>1. \A joint, q, moved : JointError(joint, q, moved) \in SampleErrors \cup {"NONE"}
  BY DEF JointError, SampleErrors
<1>2. \A q, moved : JointsError(q, moved) \in SampleErrors \cup {"NONE"}
  BY <1>1 DEF JointsError
<1> QED
  BY <1>2 DEF SampleError, SampleErrors

\* A sample that fails is one that the abstract validation rejects.
LEMMA FailIsReject ==
    ASSUME CheckInv, checkPhase = "GENERATE_AND_VALIDATE_SAMPLE",
           NEW error \in SampleErrors, Fail(error)
    PROVE  CheckInv' /\ Validation!RejectSample
<1>1. Outcome' = "SAMPLE"
  <2>1. checkError' = error
    BY DEF Fail
  <2>2. /\ error # "NONE" /\ error # "INVALID_PARAMETER"
        /\ error # "DEGENERATE_GEOMETRY" /\ error # "ZERO_LENGTH_SEGMENT"
    BY DEF SampleErrors
  <2> QED
    BY <2>1, <2>2 DEF Outcome
<1>2. CheckInv' /\ Validation!Invalid("SAMPLE")
  BY <1>1, FailIsInvalid
<1> QED
  BY <1>2 DEF Validation!RejectSample

\* Every sample is stored or rejected.
LEMMA CheckIsCheck ==
    ASSUME CheckInv, CheckSample
    PROVE  CheckInv' /\ (Validation!RejectSample \/ Validation!StoreSample)
<1> DEFINE next == single_line_stream_next(checkStream, arm)
<1>1. /\ checkPhase = "GENERATE_AND_VALIDATE_SAMPLE" /\ OpenedFor(checkStream, Piece)
      /\ checkStream.next \in 0 .. checkStream.profile.samples - 1
  BY DEF CheckInv, CheckSample
<1>2. \/ ~ next.sample.ok /\ next.stream.status = "IK_FAILED"
      \/ Advanced(checkStream, next)
  BY <1>1, NextOfStream
<1>3. IF ~ next.sample.ok THEN Fail(StreamError(next.stream))
      ELSE IF SampleError(next.sample) # "NONE" THEN Fail(SampleError(next.sample))
      ELSE StoreChecked(next.stream, next.sample)
  BY DEF CheckSample, GeneratedSample, single_circular_stream_next
<1> HIDE DEF next
<1>4. CASE ~ next.sample.ok
  <2>1. StreamError(next.stream) = "IK_FAILED"
    BY <1>2, <1>4 DEF StreamError, Advanced
  <2>2. Fail("IK_FAILED")
    BY <1>3, <1>4, <2>1
  <2>3. "IK_FAILED" \in SampleErrors
    BY DEF SampleErrors
  <2> QED
    BY <1>1, <2>2, <2>3, FailIsReject
<1>5. CASE next.sample.ok /\ SampleError(next.sample) # "NONE"
  <2>1. PICK error : error = SampleError(next.sample)
    OBVIOUS
  <2>2. error \in SampleErrors
    BY <1>5, <2>1, SampleErrorIs
  <2>3. Fail(error)
    BY <1>3, <1>5, <2>1
  <2> QED
    BY <1>1, <2>2, <2>3, FailIsReject
<1>6. CASE next.sample.ok /\ SampleError(next.sample) = "NONE"
  <2>1. Advanced(checkStream, next)
    BY <1>2, <1>6
  <2>2. ~ (sampleIndex >= Config.storageCapacity)
    BY <1>6 DEF SampleError
  <2>3. StoreChecked(next.stream, next.sample)
    BY <1>3, <1>6
  <2> QED
    BY <1>1, <2>1, <2>2, <2>3, StoreIsStore
<1> QED
  BY <1>4, <1>5, <1>6

\* A program whose segments are all stored is committed.
LEMMA FinalizeIsFinalize ==
    ASSUME CheckInv, FinalizeCheck
    PROVE  CheckInv' /\ Validation!Finalize
<1>1. /\ checkPhase = "FINALIZE" /\ committed = FALSE /\ writing = TRUE
      /\ checkError = "NONE" /\ sampleIndex = Len(stored)
      /\ sampleIndex \in 0 .. Config.storageCapacity
  BY DEF CheckInv, FinalizeCheck
<1>2. PICK S : stored \in Seq(S)
  BY DEF CheckInv
<1>3. ~ (sampleIndex > Len(stored))
  BY <1>1, ConfigAssumption DEF ConfigAssumption
<1>4. /\ checkPhase' = "VALID" /\ writing' = FALSE /\ committed' = TRUE
      /\ UNCHANGED <<program, checkError, segment, checkStream, sampleIndex, counts,
                     stored>>
  BY <1>1, <1>3 DEF FinalizeCheck
<1>5. CheckInv'
  BY <1>1, <1>2, <1>4 DEF CheckInv
<1>6. Submission' = Submission /\ Outcome' = Outcome
  BY <1>1, <1>4 DEF Submission, Outcome
<1>7. sample_count(checkStream)' = sample_count(checkStream)
  BY <1>4 DEF sample_count
<1>8. Storage.writing /\ Storage.samples = PlacesOf(stored)
  BY <1>1 DEF Storage, PlacesOf
<1>9. Len(PlacesOf(stored)) = Len(stored)
  BY <1>2 DEF PlacesOf
<1>10. Validation!Commit
  <2> DEFINE no == FALSE
             yes == TRUE
             data == [id |-> 1, revision |-> 1, checksum |-> 1,
                      counts |-> counts, samples |-> sampleIndex]
  <2>1. Done(StorageOf(writing, no, PlacesOf(stored), << >>), no, yes, data)
          = StorageOf(no, yes, PlacesOf(stored), data)
    <3> HIDE DEF no, yes, data
    <3> QED
      BY Committing
  <2>2. Storage = StorageOf(writing, no, PlacesOf(stored), << >>)
    BY <1>1, StorageIs
  <2>3. Storage' = StorageOf(no, yes, PlacesOf(stored), data)
    <3>1. PlacesOf(stored') = PlacesOf(stored) /\ counts' = counts
          /\ sampleIndex' = sampleIndex
      BY <1>4
    <3> QED
      BY <1>4, <3>1, NextStorageIs
  <2>4. Validation!Metadata = data
    BY DEF Validation!Metadata, Submission
  <2> HIDE DEF data
  <2>5. Storage' = Done(Storage, no, yes, data)
    BY <2>1, <2>2, <2>3
  <2> QED
    BY <2>4, <2>5 DEF Done, Validation!Commit
<1> QED
  BY <1>1, <1>3, <1>4, <1>5, <1>6, <1>7, <1>8, <1>9, <1>10 DEF Validation!Finalize

\* What a turn of the abstract validation is about.
LEMMA NothingIsChecked ==
    ASSUME UNCHANGED checkVars
    PROVE  /\ UNCHANGED <<Validation!validationVars, Storage>>
           /\ CheckInv => CheckInv'
<1>1. UNCHANGED <<program, arm, checkPhase, checkError, segment, checkStream, previous,
                  sampleIndex, counts, writing, committed, stored>>
  BY DEF checkVars
<1>2. Submission' = Submission
  BY <1>1 DEF Submission
<1>3. Outcome' = Outcome
  BY <1>1 DEF Outcome, TooFastPiece, Piece
<1>4. sample_count(checkStream)' = sample_count(checkStream)
  BY <1>1 DEF sample_count
<1>5. Storage' = Storage
  BY <1>1 DEF Storage, StoredPlace
<1>6. CheckInv => CheckInv'
  BY <1>1 DEF CheckInv, OpenedFor, PlaceAt, Piece
<1> QED
  BY <1>1, <1>2, <1>3, <1>4, <1>5, <1>6 DEF Validation!validationVars

\* The validation of a program by its streams and its checks takes no step that the
\* abstract validation does not take, for every program, arm and configuration: each
\* segment is sampled from its start or, after the first, from its second sample, up
\* to the point where it was taught to end; a sample that fails is not passed over,
\* and a program that is rejected leaves nothing in the storage.
THEOREM CheckIsValidation == FairSpec => ImplementsPathValidation
<1>1. FairSpec => Init /\ [][Next]_planningVars
  BY DEF FairSpec
<1>2. Init => CheckInv
  BY CheckInvInit
<1>3. CheckInv /\ [Next]_planningVars
        => /\ CheckInv'
           /\ [Validation!ValidationTurn]_<<Validation!validationVars, Storage>>
  <2> SUFFICES ASSUME CheckInv, [Next]_planningVars
               PROVE  /\ CheckInv'
                      /\ \/ Validation!ValidationTurn
                         \/ UNCHANGED <<Validation!validationVars, Storage>>
    OBVIOUS
  <2>1. sampleIndex < Config.storageCapacity + 1
    BY BudgetIsLeft
  <2>2. CASE PrepareSegment
    BY <2>1, <2>2, PrepareIsPrepare DEF Validation!ValidationTurn
  <2>3. CASE CheckSample
    BY <2>1, <2>3, CheckIsCheck DEF Validation!ValidationTurn
  <2>4. CASE FinalizeCheck
    BY <2>1, <2>4, FinalizeIsFinalize DEF Validation!ValidationTurn
  <2>5. CASE UNCHANGED checkVars
    BY <2>5, NothingIsChecked
  <2>6. CheckStep \/ UNCHANGED checkVars
    BY DEF Next, planningVars, Validating, Reported, Planner, PanelAndCycle, Moving
  <2> QED
    BY <2>2, <2>3, <2>4, <2>5, <2>6 DEF CheckStep
<1> QED
  BY <1>1, <1>2, <1>3, PTL DEF ImplementsPathValidation

-----------------------------------------------------------------------------
(* Places along a path.                                                    *)

\* A way that is whole for every unit of its distance.
LEMMA WholeWay ==
    ASSUME NEW way \in Int, NEW gap \in Nat \ {0}, way % gap = 0
    PROVE  way \div gap \in Int /\ way = gap * (way \div gap)
OBVIOUS

\* So is the way of any part of the distance.
LEMMA PartOfDistance ==
    ASSUME NEW n \in Int, NEW way \in Int, NEW gap \in Nat \ {0}, way % gap = 0
    PROVE  (n * way) \div gap = n * (way \div gap)
<1>1. PICK slope \in Int : slope = way \div gap /\ way = gap * slope
  OBVIOUS
<1>2. n * way = gap * (n * slope) /\ n * slope \in Int
  BY <1>1
<1>3. (gap * (n * slope)) \div gap = n * slope
  BY <1>2, QuotientOfProduct
<1> QED
  BY <1>1, <1>2, <1>3

\* Points that are further along the path one after the other, and as far from each
\* other as they are along it, or less; the places between them are whole.
Slope(points, along, k, axis) ==
    (points[k][axis] - points[k - 1][axis]) \div (along[k] - along[k - 1])

IsPath(points, along) ==
    /\ Len(points) \in Nat \ {0} /\ Len(along) = Len(points)
    /\ \A k \in 1 .. Len(points) : points[k] \in Int \X Int /\ along[k] \in Nat
    /\ along[1] = 0
    /\ \A i \in 1 .. Len(points), k \in 1 .. Len(points) : i < k => along[i] < along[k]
    /\ \A k \in 2 .. Len(points) : \A axis \in {1, 2} :
          (points[k][axis] - points[k - 1][axis]) % (along[k] - along[k - 1]) = 0
    /\ \A k \in 2 .. Len(points) :
          Apart(points[k], points[k - 1]) <= PerSixth * (along[k] - along[k - 1])

\* The k-th point is a way after the one before it.
IsStep(points, along, k) ==
    /\ points[k - 1] \in Int \X Int /\ points[k] \in Int \X Int
    /\ along[k - 1] \in Nat /\ along[k] \in Nat /\ along[k - 1] < along[k]
    /\ \A axis \in {1, 2} :
          /\ Slope(points, along, k, axis) \in Int
          /\ points[k][axis] = points[k - 1][axis]
                 + (along[k] - along[k - 1]) * Slope(points, along, k, axis)
          /\ \A n \in Int : (n * (points[k][axis] - points[k - 1][axis]))
                                \div (along[k] - along[k - 1])
                            = n * Slope(points, along, k, axis)

\* Between two neighbouring points a path is straight, and as long as it says.
LEMMA StepsOfPath ==
    ASSUME NEW points, NEW along, IsPath(points, along), NEW k \in 2 .. Len(points)
    PROVE  IsStep(points, along, k)
<1>1. k \in 1 .. Len(points) /\ k - 1 \in 1 .. Len(points) /\ k - 1 < k
  BY DEF IsPath
<1>2. PICK low \in Nat, high \in Nat :
          low = along[k - 1] /\ high = along[k] /\ low < high
  BY <1>1 DEF IsPath
<1>3. points[k - 1] \in Int \X Int /\ points[k] \in Int \X Int
  BY <1>1 DEF IsPath
<1>4. high - low \in Nat \ {0}
  BY <1>2
<1>5. ASSUME NEW axis \in {1, 2}
      PROVE  /\ Slope(points, along, k, axis) \in Int
             /\ points[k][axis] = points[k - 1][axis]
                    + (high - low) * Slope(points, along, k, axis)
             /\ \A n \in Int : (n * (points[k][axis] - points[k - 1][axis]))
                                   \div (high - low)
                               = n * Slope(points, along, k, axis)
  <2>1. points[k][axis] \in Int /\ points[k - 1][axis] \in Int
    BY <1>3
  <2>2. PICK x \in Int : x = points[k - 1][axis]
    BY <2>1
  <2>3. PICK y \in Int : y = points[k][axis]
    BY <2>1
  <2>4. PICK gap \in Nat \ {0} : gap = high - low
    BY <1>4
  <2>5. PICK way \in Int : way = y - x
    OBVIOUS
  <2>6. way % gap = 0
    BY <1>2, <2>2, <2>3, <2>4, <2>5 DEF IsPath
  <2>7. way \div gap \in Int /\ way = gap * (way \div gap)
    BY <2>6, WholeWay
  <2>11. \A n \in Int : (n * way) \div gap = n * (way \div gap)
    <3>1. ASSUME NEW n \in Int
          PROVE  (n * way) \div gap = n * (way \div gap)
      BY <2>6, PartOfDistance
    <3> QED
      BY <3>1
  <2>8. Slope(points, along, k, axis) = way \div gap
    BY <1>2, <2>2, <2>3, <2>4, <2>5 DEF Slope
  <2>9. PICK slope \in Int : slope = way \div gap
    BY <2>7
  <2>10. y = x + gap * slope
    BY <2>5, <2>7, <2>9
  <2> QED
    BY <2>2, <2>3, <2>4, <2>5, <2>8, <2>9, <2>10, <2>11
<1> QED
  BY <1>2, <1>3, <1>5 DEF IsStep

\* The place at a distance between two points.
PlaceBetween(points, along, k, q) ==
    << points[k - 1][1] + (q - along[k - 1]) * Slope(points, along, k, 1),
       points[k - 1][2] + (q - along[k - 1]) * Slope(points, along, k, 2) >>

\* The point to look a distance up at is the one that the distance lies before.
LEMMA UpperOf ==
    ASSUME NEW points, NEW along, IsPath(points, along), NEW k \in 2 .. Len(points),
           NEW q \in Nat, along[k - 1] < q, q <= along[k]
    PROVE  UpperIndex(along, q) = k
<1> DEFINE Behind(i) == q <= along[i] /\ \A m \in 2 .. i - 1 : along[m] < q
<1>1. \A i \in 1 .. Len(points) : along[i] \in Nat
  BY DEF IsPath
<1>2. \A i \in 1 .. Len(points), m \in 1 .. Len(points) : i < m => along[i] < along[m]
  BY DEF IsPath
<1>3. UpperIndex(along, q) = CHOOSE i \in 2 .. Len(points) : Behind(i)
  BY DEF UpperIndex, IsPath
<1>4. PICK count \in Nat : count = Len(points)
  BY DEF IsPath
<1>5. k - 1 \in 1 .. count /\ k \in 1 .. count
  BY <1>4
<1>6. Behind(k)
  <2>1. ASSUME NEW m \in 2 .. k - 1
        PROVE  along[m] < q
    <3>1. m \in 1 .. count /\ (m = k - 1 \/ m < k - 1)
      BY <1>5
    <3>2. along[m] = along[k - 1] \/ along[m] < along[k - 1]
      BY <1>2, <1>4, <1>5, <3>1
    <3>3. along[m] \in Nat /\ along[k - 1] \in Nat
      BY <1>1, <1>4, <1>5, <3>1
    <3> QED
      BY <3>2, <3>3
  <2> QED
    BY <2>1
<1>7. ASSUME NEW i \in 2 .. count, Behind(i)
      PROVE  i = k
  <2>1. i \in 1 .. count
    OBVIOUS
  <2>2. ~ (k < i)
    <3>1. ASSUME k < i
          PROVE  FALSE
      <4>1. k \in 2 .. i - 1
        BY <1>4, <3>1
      <4>2. along[k] < q
        BY <1>7, <4>1
      <4>3. along[k] \in Nat
        BY <1>1, <1>4, <1>5
      <4> QED
        BY <4>2, <4>3
    <3> QED
      BY <3>1
  <2>3. ~ (i < k)
    <3>1. ASSUME i < k
          PROVE  FALSE
      <4>1. i = k - 1 \/ i < k - 1
        BY <1>4, <3>1
      <4>2. along[i] = along[k - 1] \/ along[i] < along[k - 1]
        BY <1>2, <1>4, <1>5, <2>1, <4>1
      <4>3. along[i] \in Nat /\ along[k - 1] \in Nat /\ q <= along[i]
        BY <1>1, <1>4, <1>5, <1>7, <2>1
      <4> QED
        BY <4>2, <4>3
    <3> QED
      BY <3>1
  <2> QED
    BY <1>4, <2>2, <2>3
<1> QED
  BY <1>3, <1>4, <1>6, <1>7

\* A place has two whole coordinates.
LEMMA PairOf ==
    ASSUME NEW p \in Int \X Int
    PROVE  p[1] \in Int /\ p[2] \in Int /\ p = << p[1], p[2] >>
OBVIOUS

\* The places that are interpolated lie on the straight ways between the points, the
\* points themselves included.
LEMMA PlaceIs ==
    ASSUME NEW points, NEW along, IsPath(points, along), NEW k \in 2 .. Len(points),
           NEW q \in Nat, along[k - 1] <= q, q <= along[k]
    PROVE  /\ arc_length_interpolate(points, along, q) = PlaceBetween(points, along, k, q)
           /\ PlaceBetween(points, along, k, q) \in Int \X Int
<1> DEFINE place == arc_length_interpolate(points, along, q)
<1>1. IsStep(points, along, k)
  BY StepsOfPath
<1>2. PICK low \in Nat : low = along[k - 1]
  BY <1>1 DEF IsStep
<1>3. PICK high \in Nat : high = along[k] /\ low < high
  BY <1>1, <1>2 DEF IsStep
<1>4. PICK s1 \in Int : s1 = Slope(points, along, k, 1)
  BY <1>1 DEF IsStep
<1>5. PICK s2 \in Int : s2 = Slope(points, along, k, 2)
  BY <1>1 DEF IsStep
<1>6. PICK x1 \in Int, x2 \in Int : points[k - 1] = << x1, x2 >>
  <2>1. points[k - 1] \in Int \X Int
    BY <1>1 DEF IsStep
  <2> QED
    BY <2>1, PairOf
<1>7. PlaceBetween(points, along, k, q) = << x1 + (q - low) * s1, x2 + (q - low) * s2 >>
  BY <1>2, <1>4, <1>5, <1>6 DEF PlaceBetween
<1>8. PlaceBetween(points, along, k, q) \in Int \X Int
  BY <1>7
<1>9. PICK count \in Nat : count = Len(points) /\ Len(along) = count
  BY DEF IsPath
<1>10. k - 1 \in 1 .. count /\ k \in 1 .. count /\ k - 1 < k /\ 1 \in 1 .. count
       /\ count \in 1 .. count
  BY <1>9
<1>11. along[1] = 0 /\ \A i \in 1 .. count : along[i] \in Nat
  BY <1>9 DEF IsPath
<1>12. \A i \in 1 .. count, m \in 1 .. count : i < m => along[i] < along[m]
  BY <1>9 DEF IsPath
<1>13. PICK length \in Nat : length = along[count]
  BY <1>10, <1>11
<1>14. high <= length /\ (high = length => k = count)
  <2>1. k = count \/ along[k] < along[count]
    BY <1>9, <1>10, <1>12
  <2> QED
    BY <1>3, <1>13, <2>1
<1>15. CASE q = low /\ k = 2
  <2>1. q = 0 /\ q <= along[1]
    BY <1>2, <1>11, <1>15
  <2>2. place = points[1]
    BY <2>1 DEF arc_length_interpolate
  <2>3. PlaceBetween(points, along, k, q) = << x1, x2 >>
    BY <1>7, <1>15
  <2> QED
    BY <1>6, <1>8, <1>15, <2>2, <2>3
<1>16. CASE q = low /\ k # 2
  <2>1. k - 1 \in 2 .. Len(points) /\ (k - 1) - 1 \in 1 .. count /\ (k - 1) - 1 < k - 1
        /\ 1 < k - 1
    BY <1>9, <1>10, <1>16
  <2>2. IsStep(points, along, k - 1)
    BY <2>1, StepsOfPath
  <2>3. along[(k - 1) - 1] < q /\ q <= along[k - 1] /\ 0 < q
    BY <1>2, <1>10, <1>11, <1>12, <1>16, <2>1
  <2>4. UpperIndex(along, q) = k - 1
    BY <2>1, <2>3, UpperOf
  <2>5. ~ (q <= along[1]) /\ ~ (q >= along[Len(along)])
    BY <1>3, <1>9, <1>11, <1>13, <1>14, <1>16, <2>3
  <2> DEFINE u == k - 1
  <2>6. place = << points[u - 1][1] + ((q - along[u - 1])
                                        * (points[u][1] - points[u - 1][1]))
                                       \div (along[u] - along[u - 1]),
                   points[u - 1][2] + ((q - along[u - 1])
                                        * (points[u][2] - points[u - 1][2]))
                                       \div (along[u] - along[u - 1]) >>
    BY <2>4, <2>5 DEF arc_length_interpolate
  <2>7. q = along[u] /\ IsStep(points, along, u)
    BY <1>2, <1>16, <2>2
  <2> HIDE DEF u
  <2>8. along[u] - along[u - 1] \in Int
    <3>1. along[u] \in Nat /\ along[u - 1] \in Nat
      BY <2>7 DEF IsStep
    <3> QED
      BY <3>1
  <2>9. PICK gap \in Int : gap = along[u] - along[u - 1]
    BY <2>8
  <2>10. ASSUME NEW axis \in {1, 2}
         PROVE  points[u - 1][axis] + ((q - along[u - 1])
                                        * (points[u][axis] - points[u - 1][axis]))
                                       \div (along[u] - along[u - 1]) = points[u][axis]
    <3>1. (gap * (points[u][axis] - points[u - 1][axis])) \div (along[u] - along[u - 1])
            = gap * Slope(points, along, u, axis)
      BY <2>7, <2>9 DEF IsStep
    <3>2. points[u][axis] = points[u - 1][axis] + gap * Slope(points, along, u, axis)
      BY <2>7, <2>9 DEF IsStep
    <3> QED
      BY <2>7, <2>9, <3>1, <3>2
  <2>11. place = << points[u][1], points[u][2] >>
    BY <2>6, <2>10
  <2>12. place = << x1, x2 >>
    BY <1>6, <2>11 DEF u
  <2>13. PlaceBetween(points, along, k, q) = << x1, x2 >>
    BY <1>7, <1>16
  <2> QED
    BY <1>8, <2>12, <2>13
<1>17. CASE q # low /\ q # length
  <2>1. along[k - 1] < q /\ q <= along[k] /\ low < q
    BY <1>2, <1>17
  <2>2. UpperIndex(along, q) = k
    BY <2>1, UpperOf
  <2>3. ~ (q <= along[1]) /\ ~ (q >= along[Len(along)])
    BY <1>3, <1>9, <1>11, <1>13, <1>14, <1>17, <2>1
  <2>4. place = << points[k - 1][1] + ((q - along[k - 1])
                                        * (points[k][1] - points[k - 1][1]))
                                       \div (along[k] - along[k - 1]),
                   points[k - 1][2] + ((q - along[k - 1])
                                        * (points[k][2] - points[k - 1][2]))
                                       \div (along[k] - along[k - 1]) >>
    BY <2>2, <2>3 DEF arc_length_interpolate
  <2>5. PICK n \in Int : n = q - along[k - 1] /\ n = q - low
    BY <1>2
  <2>6. /\ (n * (points[k][1] - points[k - 1][1])) \div (along[k] - along[k - 1]) = n * s1
        /\ (n * (points[k][2] - points[k - 1][2])) \div (along[k] - along[k - 1]) = n * s2
    BY <1>1, <1>4, <1>5 DEF IsStep
  <2>7. place = << x1 + n * s1, x2 + n * s2 >>
    BY <1>6, <2>4, <2>5, <2>6
  <2> QED
    BY <1>7, <1>8, <2>5, <2>7
<1>18. CASE q # low /\ q = length
  <2>1. high = length /\ k = count /\ q = high
    BY <1>3, <1>14, <1>18
  <2>2. ~ (q <= along[1]) /\ q >= along[Len(along)]
    BY <1>2, <1>9, <1>11, <1>13, <1>18
  <2>3. place = points[k]
    BY <1>9, <2>1, <2>2 DEF arc_length_interpolate
  <2>4. points[k][1] = x1 + (high - low) * s1 /\ points[k][2] = x2 + (high - low) * s2
    BY <1>1, <1>2, <1>3, <1>4, <1>5, <1>6 DEF IsStep
  <2>5. points[k] = << points[k][1], points[k][2] >>
    <3>1. points[k] \in Int \X Int
      BY <1>1 DEF IsStep
    <3> QED
      BY <3>1, PairOf
  <2> QED
    BY <1>7, <1>8, <2>1, <2>3, <2>4, <2>5
<1> QED
  BY <1>15, <1>16, <1>17, <1>18

\* Every distance lies between two points.
LEMMA DistanceFound ==
    ASSUME NEW points, NEW along, IsPath(points, along), NEW q \in Nat,
           q < along[Len(points)]
    PROVE  \E k \in 2 .. Len(points) : along[k - 1] <= q /\ q < along[k]
<1> DEFINE Later == {k \in 1 .. Len(points) : q < along[k]}
<1>1. PICK count \in Nat \ {0} : count = Len(points)
  BY DEF IsPath
<1>2. along[1] = 0 /\ \A k \in 1 .. count : along[k] \in Nat
  BY <1>1 DEF IsPath
<1>3. Later # {} /\ Later \subseteq Nat
  BY <1>1
<1>4. PICK k \in Later : \A m \in Later : ~ (m < k)
  BY <1>3, SmallestOf
<1>5. k \in 1 .. count /\ q < along[k] /\ k # 1
  BY <1>1, <1>2, <1>4
<1>6. k - 1 \in 1 .. count /\ k - 1 \notin Later
  BY <1>4, <1>5
<1>7. along[k - 1] <= q
  BY <1>1, <1>2, <1>6
<1>8. k \in 2 .. Len(points)
  BY <1>1, <1>5
<1> QED
  BY <1>5, <1>7, <1>8

\* Ways and parts of them.
LEMMA AbsOfProduct ==
    ASSUME NEW n \in Nat, NEW x \in Int
    PROVE  Abs(n * x) = n * Abs(x) /\ Abs(x) \in Nat
<1>1. CASE x < 0
  <2>1. PICK y \in Nat : y = -x
    BY <1>1
  <2>2. n * x = -(n * y) /\ n * y \in Nat
    BY <2>1
  <2>3. Abs(x) = y /\ Abs(n * x) = n * y
    BY <1>1, <2>1, <2>2 DEF Abs
  <2> QED
    BY <2>3
<1>2. CASE ~ (x < 0)
  <2>1. x \in Nat /\ n * x \in Nat
    BY <1>2
  <2> QED
    BY <2>1 DEF Abs
<1> QED
  BY <1>1, <1>2

\* The distance is that of a plane: no way around is shorter.
LEMMA ApartAdds ==
    ASSUME NEW a \in Int \X Int, NEW b \in Int \X Int, NEW c \in Int \X Int
    PROVE  /\ Apart(a, c) <= Apart(a, b) + Apart(b, c)
           /\ Apart(a, b) \in Nat /\ Apart(b, c) \in Nat /\ Apart(a, c) \in Nat
           /\ Apart(a, a) = 0 /\ Apart(a, b) = Apart(b, a)
<1>1. /\ a[1] \in Int /\ a[2] \in Int /\ b[1] \in Int /\ b[2] \in Int
      /\ c[1] \in Int /\ c[2] \in Int
  OBVIOUS
<1> QED
  BY <1>1 DEF Apart, Abs

\* A unit further along the path the place is no more than a unit further.
MovesOn(points, along, q) ==
    /\ arc_length_interpolate(points, along, q) \in Int \X Int
    /\ arc_length_interpolate(points, along, q + 1) \in Int \X Int
    /\ Apart(arc_length_interpolate(points, along, q + 1),
             arc_length_interpolate(points, along, q)) <= PerSixth

\* The tool goes no further than the distance along the path, over corners too.
LEMMA PlaceMovesOn ==
    ASSUME NEW points, NEW along, IsPath(points, along), NEW q \in Nat
    PROVE  MovesOn(points, along, q)
<1> DEFINE place(x) == arc_length_interpolate(points, along, x)
<1>1. PICK count \in Nat \ {0} : count = Len(points) /\ count = Len(along)
  BY DEF IsPath
<1>2. /\ along[1] = 0 /\ along[count] \in Nat /\ points[1] \in Int \X Int
      /\ points[count] \in Int \X Int
  BY <1>1 DEF IsPath
<1>3. CASE ~ (q < along[Len(points)])
  <2>1. ASSUME NEW x \in Nat, x >= along[count]
        PROVE  place(x) = points[count]
    <3>1. CASE count = 1
      BY <1>1, <2>1, <3>1 DEF arc_length_interpolate
    <3>2. CASE count # 1
      <4>1. along[1] < along[count]
        <5>1. \A i \in 1 .. Len(points), k \in 1 .. Len(points) :
                  i < k => along[i] < along[k]
          BY DEF IsPath
        <5>2. 1 \in 1 .. Len(points) /\ count \in 1 .. Len(points) /\ 1 < count
          BY <1>1, <3>2
        <5> QED
          BY <5>1, <5>2
      <4>2. ~ (x <= along[1])
        BY <1>2, <2>1, <4>1
      <4> QED
        BY <1>1, <2>1, <4>2 DEF arc_length_interpolate
    <3> QED
      BY <3>1, <3>2
  <2>2. place(q) = points[count] /\ place(q + 1) = points[count]
    <3>1. q >= along[count] /\ q + 1 >= along[count] /\ q + 1 \in Nat
      BY <1>1, <1>2, <1>3
    <3> HIDE DEF place
    <3> QED
      BY <2>1, <3>1
  <2>3. Apart(points[count], points[count]) = 0
    BY <1>2, ApartAdds
  <2> QED
    BY <1>2, <2>2, <2>3 DEF MovesOn, PerSixth
<1>4. CASE q < along[Len(points)]
  <2>1. PICK k \in 2 .. Len(points) : along[k - 1] <= q /\ q < along[k]
    BY <1>4, DistanceFound
  <2>2. IsStep(points, along, k)
    BY StepsOfPath
  <2>3. PICK low \in Nat : low = along[k - 1]
    BY <2>2 DEF IsStep
  <2>4. PICK high \in Nat : high = along[k] /\ low < high
    BY <2>2, <2>3 DEF IsStep
  <2>5. PICK s1 \in Int : s1 = Slope(points, along, k, 1)
    BY <2>2 DEF IsStep
  <2>6. PICK s2 \in Int : s2 = Slope(points, along, k, 2)
    BY <2>2 DEF IsStep
  <2>7. PICK x1 \in Int, x2 \in Int : points[k - 1] = << x1, x2 >>
    <3>1. points[k - 1] \in Int \X Int
      BY <2>2 DEF IsStep
    <3> QED
      BY <3>1, PairOf
  <2>8. PICK gap \in Nat \ {0} : gap = high - low
    BY <2>4
  <2>9. Abs(s1) + Abs(s2) <= PerSixth
    <3>1. Apart(points[k], points[k - 1]) <= PerSixth * gap
      BY <2>3, <2>4, <2>8 DEF IsPath
    <3>2. points[k][1] - points[k - 1][1] = gap * s1
          /\ points[k][2] - points[k - 1][2] = gap * s2
      <4>1. points[k][1] = x1 + gap * s1 /\ points[k][2] = x2 + gap * s2
        BY <2>2, <2>3, <2>4, <2>5, <2>6, <2>7, <2>8 DEF IsStep
      <4>2. points[k - 1][1] = x1 /\ points[k - 1][2] = x2
        BY <2>7
      <4>3. gap * s1 \in Int /\ gap * s2 \in Int
        OBVIOUS
      <4> QED
        BY <4>1, <4>2, <4>3
    <3>3. Apart(points[k], points[k - 1]) = Abs(gap * s1) + Abs(gap * s2)
      BY <3>2 DEF Apart
    <3>4. /\ Abs(gap * s1) = gap * Abs(s1) /\ Abs(gap * s2) = gap * Abs(s2)
          /\ Abs(s1) \in Nat /\ Abs(s2) \in Nat
      BY AbsOfProduct
    <3>5. PICK a \in Nat, b \in Nat : a = Abs(s1) /\ b = Abs(s2)
      BY <3>4
    <3>6. gap * a + gap * b <= 6 * gap
      BY <3>1, <3>3, <3>4, <3>5 DEF PerSixth
    <3>7. gap * (a + b) <= gap * 6 /\ a + b \in Int
      BY <3>6
    <3>8. a + b <= 6
      BY <3>7, Factor
    <3> QED
      BY <3>5, <3>8 DEF PerSixth
  <2>10. /\ place(q) = PlaceBetween(points, along, k, q)
         /\ place(q) \in Int \X Int
    <3>1. along[k - 1] <= q /\ q <= along[k]
      BY <2>1, <2>4
    <3> QED
      BY <3>1, PlaceIs
  <2>11. /\ place(q + 1) = PlaceBetween(points, along, k, q + 1)
         /\ place(q + 1) \in Int \X Int
    <3>1. along[k - 1] <= q + 1 /\ q + 1 <= along[k] /\ q + 1 \in Nat
      BY <2>1, <2>3, <2>4
    <3> QED
      BY <3>1, PlaceIs
  <2> HIDE DEF place
  <2>12. points[k - 1][1] = x1 /\ points[k - 1][2] = x2
    BY <2>7
  <2>13. PICK n \in Nat : n = q - low
    BY <2>1, <2>3
  <2>18. PICK m \in Nat : m = n + 1
    OBVIOUS
  <2>19. PICK r \in Nat : r = q + 1
    OBVIOUS
  <2>20. m = r - low
    BY <2>13, <2>18, <2>19
  <2>15. place(q) = << x1 + n * s1, x2 + n * s2 >>
    BY <2>3, <2>5, <2>6, <2>10, <2>12, <2>13 DEF PlaceBetween
  <2>16. place(q + 1) = << x1 + m * s1, x2 + m * s2 >>
    <3>1. place(r) = PlaceBetween(points, along, k, r)
      BY <2>11, <2>19
    <3>2. place(r) = << x1 + m * s1, x2 + m * s2 >>
      BY <2>3, <2>5, <2>6, <2>12, <2>20, <3>1 DEF PlaceBetween
    <3> QED
      BY <2>19, <3>2
  <2>17. /\ (x1 + m * s1) - (x1 + n * s1) = s1
         /\ (x2 + m * s2) - (x2 + n * s2) = s2
    BY <2>18
  <2>21. PICK u1 \in Int, u2 \in Int : u1 = x1 + n * s1 /\ u2 = x2 + n * s2
    OBVIOUS
  <2>22. PICK w1 \in Int, w2 \in Int : w1 = x1 + m * s1 /\ w2 = x2 + m * s2
    OBVIOUS
  <2>14. Apart(place(q + 1), place(q)) = Abs(s1) + Abs(s2)
    <3>1. place(q) = << u1, u2 >> /\ place(q + 1) = << w1, w2 >>
      BY <2>15, <2>16, <2>21, <2>22
    <3>2. w1 - u1 = s1 /\ w2 - u2 = s2
      BY <2>17, <2>21, <2>22
    <3>3. Apart(<< w1, w2 >>, << u1, u2 >>) = Abs(w1 - u1) + Abs(w2 - u2)
      BY DEF Apart
    <3> QED
      BY <3>1, <3>2, <3>3
  <2> QED
    BY <2>9, <2>10, <2>11, <2>14 DEF MovesOn, place
<1> QED
  BY <1>3, <1>4

\* So it is over any distance.
LEMMA PlaceFollows ==
    ASSUME NEW points, NEW along, IsPath(points, along), NEW q \in Nat, NEW n \in Nat
    PROVE  /\ arc_length_interpolate(points, along, q) \in Int \X Int
           /\ arc_length_interpolate(points, along, q + n) \in Int \X Int
           /\ Apart(arc_length_interpolate(points, along, q + n),
                    arc_length_interpolate(points, along, q)) <= PerSixth * n
<1> DEFINE place(x) == arc_length_interpolate(points, along, x)
           Further == {i \in Nat : ~ (Apart(place(q + i), place(q)) <= PerSixth * i)}
<1>1. ASSUME NEW x \in Nat
      PROVE  /\ place(x) \in Int \X Int /\ place(x + 1) \in Int \X Int
             /\ Apart(place(x + 1), place(x)) <= PerSixth
  BY PlaceMovesOn DEF MovesOn
<1> HIDE DEF place
<1>2. \A i \in Nat : place(q + i) \in Int \X Int
  BY <1>1
<1>3. Apart(place(q + 0), place(q)) = 0
  <2>1. q + 0 = q /\ place(q) \in Int \X Int
    BY <1>1
  <2> QED
    BY <2>1, ApartAdds
<1>4. ASSUME NEW i \in Nat, Apart(place(q + i), place(q)) <= PerSixth * i
      PROVE  Apart(place(q + (i + 1)), place(q)) <= PerSixth * (i + 1)
  <2>1. PICK a \in Int \X Int : a = place(q)
    BY <1>1
  <2>2. PICK b \in Int \X Int : b = place(q + i)
    BY <1>2
  <2>3. PICK c \in Int \X Int : c = place(q + (i + 1))
    BY <1>2
  <2>4. Apart(c, b) <= PerSixth
    <3>1. q + i \in Nat /\ (q + i) + 1 = q + (i + 1)
      OBVIOUS
    <3>2. Apart(place((q + i) + 1), place(q + i)) <= PerSixth
      BY <1>1, <3>1
    <3> QED
      BY <2>2, <2>3, <3>1, <3>2
  <2>5. Apart(c, a) <= Apart(c, b) + Apart(b, a)
        /\ Apart(c, b) \in Nat /\ Apart(b, a) \in Nat /\ Apart(c, a) \in Nat
    BY ApartAdds
  <2> QED
    BY <1>4, <2>1, <2>2, <2>3, <2>4, <2>5 DEF PerSixth
<1>5. Further = {}
  <2>1. ASSUME Further # {}
        PROVE  FALSE
    <3>1. PICK i \in Further : \A m \in Further : ~ (m < i)
      BY <2>1, SmallestOf
    <3>2. i \in Nat /\ i # 0
      BY <1>3, <3>1 DEF PerSixth
    <3>3. i - 1 \in Nat /\ i - 1 \notin Further /\ (i - 1) + 1 = i
      BY <3>1, <3>2
    <3>4. Apart(place(q + (i - 1)), place(q)) <= PerSixth * (i - 1)
      BY <3>3
    <3>5. Apart(place(q + ((i - 1) + 1)), place(q)) <= PerSixth * ((i - 1) + 1)
      BY <1>4, <3>3, <3>4
    <3> QED
      BY <3>1, <3>3, <3>5
  <2> QED
    BY <2>1
<1>6. Apart(place(q + n), place(q)) <= PerSixth * n
  BY <1>5
<1>7. place(q) \in Int \X Int /\ place(q + n) \in Int \X Int
  BY <1>1, <1>2
<1> QED
  BY <1>6, <1>7 DEF place

-----------------------------------------------------------------------------
(* The path through the points of a segment.                               *)

\* A product is divided by its factor without a rest.
LEMMA NoRest ==
    ASSUME NEW n \in Nat \ {0}, NEW x \in Int
    PROVE  (n * x) % n = 0
OBVIOUS

\* A way along an axis that is a whole distance, which divides it.
IsAxial(w1, w2, gap) ==
    /\ gap \in Nat \ {0}
    /\ Abs(w1) + Abs(w2) = 6 * gap
    /\ w1 % gap = 0 /\ w2 % gap = 0

\* Every way along one axis, in sixths, is a whole distance that divides it.
LEMMA AxialWay ==
    ASSUME NEW w1 \in Int, NEW w2 \in Int, (w1 # 0 /\ w2 = 0) \/ (w2 # 0 /\ w1 = 0),
           w1 % 6 = 0, w2 % 6 = 0
    PROVE  \E gap \in Nat \ {0} : IsAxial(w1, w2, gap)
<1>1. ASSUME NEW x \in Int, x # 0, x % 6 = 0
      PROVE  \E n \in Nat \ {0} : x = n * 6 \/ x = n * (-6)
  <2>1. PICK y \in Int : x = 6 * y
    BY <1>1
  <2>2. CASE y > 0
    <3>1. y \in Nat \ {0} /\ x = y * 6
      BY <2>1, <2>2
    <3> QED
      BY <3>1
  <2>3. CASE ~ (y > 0)
    <3>1. PICK n \in Nat \ {0} : n = -y
      BY <1>1, <2>1, <2>3
    <3>2. x = n * (-6)
      BY <2>1, <3>1
    <3> QED
      BY <3>2
  <2> QED
    BY <2>2, <2>3
<1>2. ASSUME NEW x \in Int, NEW n \in Nat \ {0}, x = n * 6 \/ x = n * (-6)
      PROVE  /\ Abs(x) = 6 * n /\ x % n = 0
             /\ Abs(0) = 0 /\ 0 % n = 0
  <2>1. Abs(x) = 6 * n /\ Abs(0) = 0
    BY <1>2 DEF Abs
  <2>2. (n * 6) % n = 0 /\ (n * (-6)) % n = 0 /\ (n * 0) % n = 0
    BY NoRest
  <2>3. n * 0 = 0
    OBVIOUS
  <2> QED
    BY <1>2, <2>1, <2>2, <2>3
<1>3. CASE w1 # 0 /\ w2 = 0
  <2>1. PICK n \in Nat \ {0} : w1 = n * 6 \/ w1 = n * (-6)
    BY <1>1, <1>3
  <2>2. Abs(w1) = 6 * n /\ w1 % n = 0 /\ Abs(0) = 0 /\ 0 % n = 0
    BY <1>2, <2>1
  <2>3. 6 * n + 0 = 6 * n
    OBVIOUS
  <2>4. IsAxial(w1, w2, n)
    BY <1>3, <2>2, <2>3 DEF IsAxial
  <2> QED
    BY <2>4
<1>4. CASE w2 # 0 /\ w1 = 0
  <2>1. PICK n \in Nat \ {0} : w2 = n * 6 \/ w2 = n * (-6)
    BY <1>1, <1>4
  <2>2. Abs(w2) = 6 * n /\ w2 % n = 0 /\ Abs(0) = 0 /\ 0 % n = 0
    BY <1>2, <2>1
  <2>3. 0 + 6 * n = 6 * n
    OBVIOUS
  <2>4. IsAxial(w1, w2, n)
    BY <1>4, <2>2, <2>3 DEF IsAxial
  <2> QED
    BY <2>4
<1> QED
  BY <1>3, <1>4

\* A point at a whole distance along an axis.
IsWayOf(p, q, gap) ==
    /\ gap \in Nat \ {0}
    /\ Apart(q, p) = PerSixth * gap
    /\ (q[1] - p[1]) % gap = 0 /\ (q[2] - p[2]) % gap = 0

\* So the distance of two points on an axis is the one that divides their way.
LEMMA DistanceAlongAxis ==
    ASSUME NEW p \in Int \X Int, NEW q \in Int \X Int,
           NEW w1 \in Int, w1 = q[1] - p[1], NEW w2 \in Int, w2 = q[2] - p[2],
           (w1 # 0 /\ w2 = 0) \/ (w2 # 0 /\ w1 = 0), w1 % 6 = 0, w2 % 6 = 0
    PROVE  IsWayOf(p, q, point_distance(p, q))
<1>1. PICK gap \in Nat \ {0} : IsAxial(w1, w2, gap)
  BY AxialWay
<1>2. point_distance(p, q) = gap
  <2>1. point_distance(p, q) = (6 * gap) \div 6
    BY <1>1 DEF IsAxial, point_distance, PerSixth
  <2>2. (6 * gap) \div 6 = gap
    BY QuotientOfProduct
  <2> QED
    BY <2>1, <2>2
<1>3. Apart(q, p) = 6 * gap
  BY <1>1 DEF IsAxial, Apart
<1>4. (q[1] - p[1]) % gap = 0 /\ (q[2] - p[2]) % gap = 0
  BY <1>1 DEF IsAxial
<1> QED
  BY <1>2, <1>3, <1>4 DEF IsWayOf, PerSixth

\* The distances are the sums of the ways between the points.
LEMMA DistancesAdd ==
    ASSUME NEW points, Len(points) \in Nat \ {0}, NEW k \in 2 .. Len(points)
    PROVE  DistancesAlong(points)[k]
             = DistancesAlong(points)[k - 1] + point_distance(points[k - 1], points[k])
<1> DEFINE m == Len(points)
           along == CHOOSE f : IsDistances(f, points, m)
           gap(i) == point_distance(points[i - 1], points[i])
<1>1. DistancesAlong(points) = [i \in 1 .. m |-> along[i]]
  BY DEF DistancesAlong, IsDistances
<1>2. m \in Nat \ {0} /\ k \in 2 .. m
  OBVIOUS
<1> HIDE DEF m, gap
<1>3. IsDistances(along, points, m)
  <2>1. \E f : IsDistances(f, points, m)
    BY <1>2, DistancesExist
  <2> QED
    BY <2>1
<1> HIDE DEF along
<1>4. along[k] = along[k - 1] + gap(k)
  <2>1. k \in 1 .. m /\ k # 1
    BY <1>2
  <2> QED
    BY <1>3, <2>1 DEF IsDistances, gap
<1>5. k \in 1 .. m /\ k - 1 \in 1 .. m
  BY <1>2
<1> QED
  BY <1>1, <1>4, <1>5 DEF gap

\* What grows from one point to the next grows from every point to every later one.
LEMMA Ascending ==
    ASSUME NEW along, NEW m \in Nat, along[1] = 0,
           \A k \in 2 .. m : \E gap \in Nat \ {0} : along[k] = along[k - 1] + gap
    PROVE  /\ \A k \in 1 .. m : along[k] \in Nat
           /\ \A i \in 1 .. m, k \in 1 .. m : i < k => along[i] < along[k]
<1> DEFINE Odd == {k \in 1 .. m : ~ (along[k] \in Nat)}
<1>1. Odd = {}
  <2>1. ASSUME Odd # {}
        PROVE  FALSE
    <3>1. PICK k \in Odd : \A i \in Odd : ~ (i < k)
      <4>1. Odd \subseteq Nat
        OBVIOUS
      <4> QED
        BY <2>1, <4>1, SmallestOf
    <3>2. k \in 2 .. m
      BY <3>1
    <3>3. k - 1 \in 1 .. m /\ k - 1 < k
      BY <3>2
    <3>4. along[k - 1] \in Nat
      BY <3>1, <3>3
    <3>5. PICK gap \in Nat \ {0} : along[k] = along[k - 1] + gap
      BY <3>2
    <3> QED
      BY <3>1, <3>4, <3>5
  <2> QED
    BY <2>1
<1>2. \A k \in 1 .. m : along[k] \in Nat
  BY <1>1
<1>3. ASSUME NEW i \in 1 .. m
      PROVE  \A k \in 1 .. m : i < k => along[i] < along[k]
  <2> DEFINE Low == {k \in 1 .. m : i < k /\ ~ (along[i] < along[k])}
  <2>1. ASSUME Low # {}
        PROVE  FALSE
    <3>1. PICK k \in Low : \A n \in Low : ~ (n < k)
      <4>1. Low \subseteq Nat
        OBVIOUS
      <4> QED
        BY <2>1, <4>1, SmallestOf
    <3>2. k \in 2 .. m /\ i < k
      BY <3>1
    <3>3. k - 1 \in 1 .. m /\ k - 1 < k /\ (i = k - 1 \/ i < k - 1)
      BY <3>2
    <3>4. PICK gap \in Nat \ {0} : along[k] = along[k - 1] + gap
      BY <3>2
    <3>5. along[i] \in Nat /\ along[k - 1] \in Nat
      BY <1>2, <3>3
    <3>6. i = k - 1 \/ along[i] < along[k - 1]
      BY <3>1, <3>3
    <3> QED
      BY <3>1, <3>4, <3>5, <3>6
  <2> QED
    BY <2>1
<1> QED
  BY <1>2, <1>3

\* The points of a segment are a path.
LEMMA PointsAreAPath ==
    ASSUME NEW points, Len(points) \in Nat \ {0},
           \A k \in 1 .. Len(points) : points[k] \in Int \X Int, LieAlongAxes(points)
    PROVE  IsPath(points, DistancesAlong(points))
<1> DEFINE m == Len(points)
           along == DistancesAlong(points)
           gap(k) == point_distance(points[k - 1], points[k])
<1>1. m \in Nat \ {0} /\ along[1] = 0 /\ Len(along) = m
  BY DistancesBegin
<1>2. ASSUME NEW k \in 2 .. m
      PROVE  IsWayOf(points[k - 1], points[k], gap(k)) /\ along[k] = along[k - 1] + gap(k)
  <2>1. along[k] = along[k - 1] + gap(k)
    BY DistancesAdd
  <2>2. k \in 1 .. m /\ k - 1 \in 1 .. m
    BY <1>1
  <2>3. points[k] \in Int \X Int /\ points[k - 1] \in Int \X Int
    BY <2>2
  <2>4. PICK axis \in {1, 2} :
            /\ points[k][axis] - points[k - 1][axis] # 0
            /\ (points[k][axis] - points[k - 1][axis]) % PerSixth = 0
            /\ points[k][3 - axis] = points[k - 1][3 - axis]
    BY DEF LieAlongAxes
  <2>6. PICK p \in Int \X Int, q \in Int \X Int : p = points[k - 1] /\ q = points[k]
    BY <2>3
  <2>7. PICK w1 \in Int : w1 = q[1] - p[1]
    BY PairOf
  <2>8. PICK w2 \in Int : w2 = q[2] - p[2]
    BY PairOf
  <2>9. p[1] \in Int /\ p[2] \in Int /\ q[1] \in Int /\ q[2] \in Int
    BY PairOf
  <2>10. 0 % 6 = 0
    OBVIOUS
  <2> DEFINE whole(w) == w % 6 = 0
  <2>11. ((w1 # 0 /\ w2 = 0) \/ (w2 # 0 /\ w1 = 0)) /\ whole(w1) /\ whole(w2)
    <3>1. CASE axis = 1
      <4>1. w1 # 0 /\ w1 % 6 = 0 /\ q[2] = p[2]
        BY <2>4, <2>6, <2>7, <3>1 DEF PerSixth
      <4>2. w2 = 0
        BY <2>8, <2>9, <4>1
      <4>3. whole(w2)
        BY <2>10, <4>2
      <4>4. whole(w1)
        BY <4>1
      <4> HIDE DEF whole
      <4> QED
        BY <4>1, <4>2, <4>3, <4>4
    <3>2. CASE axis = 2
      <4>1. w2 # 0 /\ w2 % 6 = 0 /\ q[1] = p[1]
        BY <2>4, <2>6, <2>8, <3>2 DEF PerSixth
      <4>2. w1 = 0
        BY <2>7, <2>9, <4>1
      <4>3. whole(w1)
        BY <2>10, <4>2
      <4>4. whole(w2)
        BY <4>1
      <4> HIDE DEF whole
      <4> QED
        BY <4>1, <4>2, <4>3, <4>4
    <3> QED
      BY <3>1, <3>2
  <2>5. IsWayOf(points[k - 1], points[k], gap(k))
    BY <2>6, <2>7, <2>8, <2>11, DistanceAlongAxis
  <2> QED
    BY <2>1, <2>5
<1> HIDE DEF along, gap
<1>3. \A k \in 2 .. m : \E g \in Nat \ {0} : along[k] = along[k - 1] + g
  BY <1>2 DEF IsWayOf
<1>4. /\ \A k \in 1 .. m : along[k] \in Nat
      /\ \A i \in 1 .. m, k \in 1 .. m : i < k => along[i] < along[k]
  BY <1>1, <1>3, Ascending
<1>5. ASSUME NEW k \in 2 .. m
      PROVE  /\ \A axis \in {1, 2} :
                    (points[k][axis] - points[k - 1][axis]) % (along[k] - along[k - 1]) = 0
             /\ Apart(points[k], points[k - 1]) <= PerSixth * (along[k] - along[k - 1])
  <2>1. PICK g \in Nat \ {0} : g = gap(k)
    BY <1>2 DEF IsWayOf
  <2>2. k \in 1 .. m /\ k - 1 \in 1 .. m
    BY <1>1
  <2>3. PICK low \in Nat : low = along[k - 1]
    BY <1>4, <2>2
  <2>4. PICK high \in Nat : high = along[k]
    BY <1>4, <2>2
  <2>5. high = low + g
    BY <1>2, <2>1, <2>3, <2>4
  <2>6. along[k] - along[k - 1] = g
    BY <2>3, <2>4, <2>5
  <2>7. /\ Apart(points[k], points[k - 1]) = PerSixth * g
        /\ (points[k][1] - points[k - 1][1]) % g = 0
        /\ (points[k][2] - points[k - 1][2]) % g = 0
    BY <1>2, <2>1 DEF IsWayOf
  <2>8. PerSixth * g <= PerSixth * g
    BY DEF PerSixth
  <2> QED
    BY <2>6, <2>7, <2>8
<1> HIDE DEF m
<1>6. /\ Len(points) = m
      /\ \A k \in 1 .. m : points[k] \in Int \X Int
  BY DEF m
<1> QED
  BY <1>1, <1>4, <1>5, <1>6 DEF IsPath, along

\* The new points lie one behind the other.
LEMMA NewDistancesAscend ==
    ASSUME NEW length \in Nat, NEW spacing \in Nat \ {0}
    PROVE  LET new == NewDistances(length, spacing)
           IN /\ \A k \in 1 .. Len(new) : new[k] \in Nat
              /\ \A i \in 1 .. Len(new), k \in 1 .. Len(new) : i < k => new[i] < new[k]
<1> DEFINE n == length \div spacing + 1
           regular == [k \in 1 .. n |-> (k - 1) * spacing]
           new == NewDistances(length, spacing)
<1>1. n \in Nat \ {0}
  <2>1. length \div spacing \in Nat
    OBVIOUS
  <2> QED
    BY <2>1
<1>2. new = IF regular[Len(regular)] < length THEN Append(regular, length) ELSE regular
  BY DEF NewDistances
<1> HIDE DEF n, new
<1>3. \A k \in 1 .. n : (k - 1) * spacing \in Nat
  BY <1>1
<1>4. Len(regular) = n /\ regular \in Seq(Nat)
  BY <1>1, <1>3
<1>5. \A k \in 1 .. n : regular[k] = (k - 1) * spacing /\ regular[k] \in Nat
  BY <1>3
<1>6. ASSUME NEW i \in 1 .. n, NEW k \in 1 .. n, i < k
      PROVE  regular[i] < regular[k]
  <2>1. PICK g \in Nat \ {0} : k = i + g
    <3>1. k - i \in Nat \ {0} /\ k = i + (k - i)
      BY <1>1, <1>6
    <3> QED
      BY <3>1
  <2>2. g * spacing > 0 /\ g * spacing \in Nat
    OBVIOUS
  <2>3. (k - 1) * spacing = (i - 1) * spacing + g * spacing
    BY <1>1, <2>1
  <2>4. (i - 1) * spacing \in Nat
    BY <1>3
  <2> QED
    BY <1>5, <2>2, <2>3, <2>4
<1> HIDE DEF regular
<1>7. CASE ~ (regular[n] < length)
  <2>1. new = regular
    BY <1>2, <1>4, <1>7
  <2> QED
    BY <1>4, <1>5, <1>6, <2>1 DEF new
<1>8. CASE regular[n] < length
  <2>1. new = Append(regular, length)
    BY <1>2, <1>4, <1>8
  <2>2. Len(new) = n + 1 /\ new[n + 1] = length /\ \A k \in 1 .. n : new[k] = regular[k]
    BY <1>4, <1>1, <2>1
  <2>3. \A k \in 1 .. n + 1 : k \in 1 .. n \/ k = n + 1
    BY <1>1
  <2>4. \A k \in 1 .. n + 1 : new[k] \in Nat
    BY <1>5, <2>2, <2>3
  <2>5. ASSUME NEW i \in 1 .. n + 1, NEW k \in 1 .. n + 1, i < k
        PROVE  new[i] < new[k]
    <3>1. i \in 1 .. n
      BY <1>1, <2>5
    <3>2. CASE k \in 1 .. n
      BY <1>6, <2>2, <2>5, <3>1, <3>2
    <3>3. CASE k = n + 1
      <4>1. n \in 1 .. n /\ (i = n \/ i < n)
        BY <1>1, <3>1
      <4>2. regular[i] = regular[n] \/ regular[i] < regular[n]
        BY <1>6, <3>1, <4>1
      <4>3. regular[i] \in Nat /\ regular[n] \in Nat
        BY <1>5, <3>1, <4>1
      <4> QED
        BY <1>8, <2>2, <3>1, <3>3, <4>2, <4>3
    <3> QED
      BY <2>3, <3>2, <3>3
  <2>6. 1 .. Len(new) = 1 .. n + 1
    BY <2>2
  <2> QED
    BY <2>4, <2>5, <2>6 DEF new
<1> QED
  BY <1>7, <1>8

\* The places between two points of a path are whole.
IsWholeBetween(path) ==
    \A n \in 2 .. Len(path.points), axis \in {1, 2} :
        (path.points[n][axis] - path.points[n - 1][axis])
            % (path.along[n] - path.along[n - 1]) = 0

\* The path over the new points is a path.
LEMMA NewPointsAreAPath ==
    ASSUME NEW points, Len(points) \in Nat \ {0},
           \A k \in 1 .. Len(points) : points[k] \in Int \X Int, LieAlongAxes(points),
           NEW spacing \in Nat \ {0}, NEW capacity,
           NEW path, path = arc_length_parameterize(points, spacing, capacity),
           path.ok, path.total \in Nat \ {0}, IsWholeBetween(path)
    PROVE  IsPath(path.points, path.along)
<1> DEFINE old == DistancesAlong(points)
           new == NewDistances(old[Len(old)], spacing)
           place(q) == arc_length_interpolate(points, old, q)
           places == [k \in 1 .. Len(new) |-> arc_length_interpolate(points, old, new[k])]
<1>1. path = IF Len(points) > capacity \/ Len(new) > capacity THEN Refused
             ELSE [ok |-> TRUE, points |-> places, along |-> new, total |-> old[Len(old)]]
  BY DEF arc_length_parameterize
<1>2. IsPath(points, old)
  BY PointsAreAPath
<1>3. path.points = places /\ path.along = new /\ path.total = old[Len(old)]
  <2> HIDE DEF new, places, old
  <2> QED
    BY <1>1 DEF Refused
<1>4. PICK length \in Nat : length = path.total
  OBVIOUS
<1>5. new = NewDistances(length, spacing)
  BY <1>3, <1>4
<1> HIDE DEF new
<1>6. Len(new) \in Nat \ {0} /\ new[1] = 0
  BY <1>5, NewDistancesEnd
<1>7. /\ \A k \in 1 .. Len(new) : new[k] \in Nat
      /\ \A i \in 1 .. Len(new), k \in 1 .. Len(new) : i < k => new[i] < new[k]
  BY <1>5, NewDistancesAscend
<1>8. PICK m \in Nat \ {0} : m = Len(new)
  BY <1>6
<1>9. ASSUME NEW q \in Nat, NEW n \in Nat
      PROVE  /\ place(q) \in Int \X Int
             /\ Apart(place(q + n), place(q)) <= PerSixth * n
  BY <1>2, PlaceFollows
<1> HIDE DEF place, old
<1>10. Len(places) = m /\ \A k \in 1 .. m : places[k] = place(new[k])
  BY <1>8 DEF place
<1> HIDE DEF places
<1>11. ASSUME NEW k \in 1 .. m
       PROVE  places[k] \in Int \X Int /\ new[k] \in Nat
  <2>1. new[k] \in Nat
    BY <1>7, <1>8
  <2>2. place(new[k]) \in Int \X Int
    BY <1>9, <2>1
  <2> QED
    BY <1>10, <2>1, <2>2
<1>12. ASSUME NEW k \in 2 .. m
       PROVE  Apart(places[k], places[k - 1]) <= PerSixth * (new[k] - new[k - 1])
  <2>1. k \in 1 .. m /\ k - 1 \in 1 .. m /\ k - 1 < k
    BY <1>8
  <2>2. PICK low \in Nat : low = new[k - 1]
    BY <1>11, <2>1
  <2>3. PICK high \in Nat : high = new[k]
    BY <1>11, <2>1
  <2>4. low < high
    BY <1>7, <1>8, <2>1, <2>2, <2>3
  <2>5. PICK n \in Nat : high = low + n /\ n = high - low
    <3>1. high - low \in Nat /\ high = low + (high - low)
      BY <2>4
    <3> QED
      BY <3>1
  <2>6. Apart(place(high), place(low)) <= PerSixth * n
    BY <1>9, <2>5
  <2> QED
    BY <1>10, <2>1, <2>2, <2>3, <2>5, <2>6
<1>13. \A k \in 2 .. m : \A axis \in {1, 2} :
           (places[k][axis] - places[k - 1][axis]) % (new[k] - new[k - 1]) = 0
  BY <1>3, <1>10 DEF IsWholeBetween
<1> QED
  BY <1>3, <1>6, <1>7, <1>8, <1>10, <1>11, <1>12, <1>13 DEF IsPath

-----------------------------------------------------------------------------
(* The speed of the samples.                                               *)

\* Over a time the way grows by no more than at the speed that is allowed.
LEMMA WayInTime ==
    ASSUME NEW p, IsFeasible(p), NEW t \in Nat, Evaluate(p, t).s \in Nat,
           NEW h \in Nat, t + h <= p.duration
    PROVE  /\ Evaluate(p, t + h).s \in Nat
           /\ Evaluate(p, t).s <= Evaluate(p, t + h).s
           /\ Evaluate(p, t + h).s <= Evaluate(p, t).s + (6 * p.limits.v) * h
<1>1. PICK v \in Nat : v = p.limits.v
  BY DEF IsFeasible
<1>2. PICK duration \in Nat : duration = p.duration
  BY DEF IsFeasible
<1>3. PICK from \in Nat : from = Evaluate(p, t).s
  OBVIOUS
<1> DEFINE way(i) == Evaluate(p, t + i).s
           Inside(i) == way(i) \in Nat /\ from <= way(i) /\ way(i) <= from + (6 * v) * i
           Beyond == {i \in 0 .. h : ~ Inside(i)}
<1>4. ASSUME NEW i \in 0 .. h, i > 0
      PROVE  /\ way(i - 1) \in Int /\ way(i) \in Int
             /\ way(i - 1) < way(i) /\ way(i) <= way(i - 1) + 6 * v
  <2>1. t + i \in 0 .. p.duration /\ t + i > 0 /\ (t + i) - 1 = t + (i - 1)
    BY <1>2, <1>4
  <2>2. Onward(p, t + i)
    BY <2>1 DEF IsFeasible
  <2> QED
    BY <1>1, <2>1, <2>2 DEF Onward
<1>5. Inside(0)
  <2>1. t + 0 = t /\ (6 * v) * 0 = 0
    OBVIOUS
  <2> QED
    BY <1>3, <2>1
<1> HIDE DEF way
<1>6. ASSUME Beyond # {}
      PROVE  FALSE
  <2>1. PICK i \in Beyond : \A k \in Beyond : ~ (k < i)
    <3>1. Beyond \subseteq Nat
      OBVIOUS
    <3> QED
      BY <1>6, <3>1, SmallestOf
  <2>2. i \in 0 .. h /\ i > 0
    BY <1>5, <2>1
  <2>3. i - 1 \in 0 .. h /\ i - 1 < i
    BY <2>2
  <2>4. Inside(i - 1)
    BY <2>1, <2>3
  <2>5. PICK x \in Nat : x = way(i - 1)
    BY <2>4
  <2>6. PICK y \in Int : y = way(i)
    BY <1>4, <2>2
  <2>7. x < y /\ y <= x + 6 * v /\ from <= x /\ x <= from + (6 * v) * (i - 1)
    BY <1>4, <2>2, <2>4, <2>5, <2>6
  <2>8. (6 * v) * (i - 1) + 6 * v = (6 * v) * i /\ (6 * v) * (i - 1) \in Int
    BY <2>2
  <2>9. Inside(i)
    BY <2>2, <2>6, <2>7, <2>8
  <2> QED
    BY <2>1, <2>9
<1>7. Inside(h)
  BY <1>6
<1> QED
  BY <1>1, <1>3, <1>7 DEF way

\* From one sample to the next it is a period at most.
SampleFollows(p, n) ==
    /\ EvaluateIndex(p, n - 1).s \in Nat /\ EvaluateIndex(p, n).s \in Nat
    /\ EvaluateIndex(p, n - 1).s <= EvaluateIndex(p, n).s
    /\ EvaluateIndex(p, n).s <= EvaluateIndex(p, n - 1).s + (6 * p.limits.v) * p.dt

\* From one sample to the next the way does not shrink, and keeps the speed.
LEMMA SamplesFollow ==
    ASSUME NEW l, NEW dt \in Nat \ {0}, IsWhole(l),
           NEW n \in 1 .. ProfileOf(l, dt).samples - 1
    PROVE  SampleFollows(ProfileOf(l, dt), n)
<1> DEFINE p == ProfileOf(l, dt)
<1>1. IsFeasible(p)
  BY ProfileOfIsFeasible
<1>2. /\ p.samples \in Nat /\ p.samples >= 2 /\ EvaluateIndex(p, 0).s = 0
  BY SamplesOfProfile
<1>3. p.samples = SamplesOf(p.duration, dt) /\ p.dt = dt
  BY DEF ProfileOf, ProfileFrom
<1>4. n \in 1 .. p.samples - 1
  OBVIOUS
<1> HIDE DEF p
<1>5. PICK duration \in Nat \ {0} : duration = p.duration
  BY <1>1 DEF IsFeasible
<1>6. PICK v \in Nat : v = p.limits.v
  BY <1>1 DEF IsFeasible
<1>7. PICK samples \in Nat : samples = p.samples
  BY <1>2
<1>8. PICK q \in Nat : q = duration \div dt /\ q * dt <= duration /\ duration < q * dt + dt
  <2>1. /\ duration \div dt \in Nat /\ dt * (duration \div dt) <= duration
        /\ duration < dt * (duration \div dt + 1)
    OBVIOUS
  <2>2. PICK q \in Nat : q = duration \div dt
    BY <2>1
  <2>3. dt * q <= duration /\ duration < dt * (q + 1)
    BY <2>1, <2>2
  <2>4. q * dt <= duration /\ duration < q * dt + dt
    BY <2>3
  <2> QED
    BY <2>2, <2>4
<1>9. samples = IF q * dt < duration THEN q + 2 ELSE q + 1
  <2>1. samples = IF ((q + 1) - 1) * dt < duration THEN (q + 1) + 1 ELSE q + 1
    BY <1>3, <1>5, <1>7, <1>8 DEF SamplesOf
  <2>2. (q + 1) - 1 = q /\ (q + 1) + 1 = q + 2
    OBVIOUS
  <2> QED
    BY <2>1, <2>2
<1>10. PICK x \in Nat : x = SampleTime(p, n - 1) /\ x = (n - 1) * dt
  <2>1. n - 1 # samples - 1 /\ (n - 1) * dt \in Nat
    BY <1>4, <1>7
  <2> QED
    BY <1>3, <1>7, <2>1 DEF SampleTime
<1>11. PICK y \in Nat : /\ y = SampleTime(p, n)
                        /\ x <= y /\ y <= x + dt /\ y <= duration
  <2>1. CASE n = samples - 1
    <3>1. SampleTime(p, n) = duration
      BY <1>5, <1>7, <2>1 DEF SampleTime
    <3>2. x <= duration /\ duration <= x + dt
      <4>1. CASE q * dt < duration
        <5>1. n - 1 = q
          BY <1>9, <2>1, <4>1
        <5>2. x = q * dt
          BY <1>10, <5>1
        <5> QED
          BY <1>8, <5>2
      <4>2. CASE ~ (q * dt < duration)
        <5>1. n - 1 = q - 1
          BY <1>9, <2>1, <4>2
        <5>2. x = (q - 1) * dt
          BY <1>10, <5>1
        <5>3. x = q * dt - dt /\ q * dt \in Nat
          BY <5>2
        <5> QED
          BY <1>8, <4>2, <5>3
      <4> QED
        BY <4>1, <4>2
    <3> QED
      BY <3>1, <3>2
  <2>2. CASE n # samples - 1
    <3>1. SampleTime(p, n) = n * dt
      BY <1>3, <1>7, <2>2 DEF SampleTime
    <3>2. n <= q
      BY <1>4, <1>7, <1>9, <2>2
    <3>3. n * dt <= q * dt /\ n * dt \in Nat /\ q * dt \in Nat
      BY <3>2
    <3>4. n * dt = x + dt
      BY <1>10
    <3>5. n * dt <= duration
      BY <1>8, <3>3
    <3> QED
      BY <3>1, <3>3, <3>4, <3>5
  <2> QED
    BY <2>1, <2>2
<1>12. EvaluateIndex(p, n - 1) = Evaluate(p, x) /\ EvaluateIndex(p, n) = Evaluate(p, y)
  BY <1>10, <1>11 DEF EvaluateIndex
<1>13. Evaluate(p, 0).s = 0
  <2>1. SampleTime(p, 0) = 0
    <3>1. 0 # p.samples - 1 /\ 0 * p.dt = 0
      BY <1>2, <1>3
    <3> QED
      BY <3>1 DEF SampleTime
  <2> QED
    BY <1>2, <2>1 DEF EvaluateIndex
<1>14. Evaluate(p, x).s \in Nat
  <2>1. 0 + x <= p.duration /\ 0 + x = x
    BY <1>5, <1>11
  <2>2. Evaluate(p, 0 + x).s \in Nat
    BY <1>1, <1>13, <2>1, WayInTime
  <2> QED
    BY <2>1, <2>2
<1>15. PICK h \in Nat : y = x + h /\ h <= dt
  <2>1. y - x \in Nat /\ y = x + (y - x) /\ y - x <= dt
    BY <1>11
  <2> QED
    BY <2>1
<1>16. /\ Evaluate(p, y).s \in Nat /\ Evaluate(p, x).s <= Evaluate(p, y).s
       /\ Evaluate(p, y).s <= Evaluate(p, x).s + (6 * v) * h
  BY <1>1, <1>5, <1>6, <1>11, <1>14, <1>15, WayInTime
<1>17. (6 * v) * h <= (6 * v) * dt /\ (6 * v) * h \in Nat /\ (6 * v) * dt \in Nat
  BY <1>15
<1>18. Evaluate(p, y).s <= Evaluate(p, x).s + (6 * v) * dt
  BY <1>14, <1>16, <1>17
<1> QED
  BY <1>3, <1>6, <1>12, <1>14, <1>16, <1>18 DEF SampleFollows, p

\* The points of a line are whole places.
LEMMA WholeLine ==
    ASSUME NEW origin \in Int \X Int, NEW end \in Int \X Int, NEW count \in Nat \ {0, 1},
           NEW k \in 1 .. count
    PROVE  generate_line_waypoints(origin, end, count)[k] \in Int \X Int
<1> DEFINE at(i, axis) ==
               origin[axis] + ((i - 1) * (end[axis] - origin[axis])) \div (count - 1)
<1>1. generate_line_waypoints(origin, end, count)[k] = << at(k, 1), at(k, 2) >>
  BY DEF generate_line_waypoints
<1>2. ASSUME NEW axis \in {1, 2}
      PROVE  at(k, axis) \in Int
  <2>1. origin[axis] \in Int /\ end[axis] \in Int
    BY PairOf
  <2>2. PICK s \in Int, e \in Int : s = origin[axis] /\ e = end[axis]
    BY <2>1
  <2>3. PICK c \in Nat \ {0} : c = count - 1
    OBVIOUS
  <2>4. PICK w \in Int : w = (k - 1) * (e - s)
    OBVIOUS
  <2>5. w \div c \in Int
    OBVIOUS
  <2> QED
    BY <2>2, <2>3, <2>4, <2>5
<1> HIDE DEF at
<1> QED
  BY <1>1, <1>2

\* From sample to sample the tool goes no further than at the speed of the segment.
KeepsPace(stream, speed, period) ==
    \A n \in 1 .. stream.profile.samples - 1 :
        /\ PlaceAt(stream, n - 1) \in Int \X Int /\ PlaceAt(stream, n) \in Int \X Int
        /\ Apart(PlaceAt(stream, n), PlaceAt(stream, n - 1)) <= speed * period * Unit

\* A stream never moves the tool faster between two samples than it was asked to.
LEMMA StreamKeepsPace ==
    ASSUME NEW points, Len(points) \in Nat \ {0},
           \A k \in 1 .. Len(points) : points[k] \in Int \X Int, LieAlongAxes(points),
           NEW request, request.spacing \in Nat \ {0}, request.dt \in Nat \ {0},
           HasWholeProfile(StreamAlong(points, request)),
           IsSampled(StreamAlong(points, request)),
           StreamAlong(points, request).initialized
    PROVE  KeepsPace(StreamAlong(points, request), request.speed, request.dt)
<1> DEFINE path == arc_length_parameterize(points, request.spacing, request.capacity)
           limits == LimitsOf(path, request)
           profile == ProfileOf(limits, request.dt)
           stream == StreamAlong(points, request)
<1>1. path.ok /\ path.total # 0 /\ stream.path = path /\ stream.profile = profile
  BY DEF StreamAlong, StreamOver, Failed, NoStream
<1>2. profile.limits = limits /\ profile.dt = request.dt
  BY DEF ProfileOf, ProfileFrom
<1>3. limits.v = request.speed
  BY DEF LimitsOf
<1> HIDE DEF profile, limits, stream
<1>4. IsWhole(limits)
  BY <1>1, <1>2 DEF HasWholeProfile, stream
<1>5. PICK v \in Nat \ {0} : v = request.speed
  BY <1>3, <1>4 DEF IsWhole
<1>6. PICK dt \in Nat \ {0} : dt = request.dt
  OBVIOUS
<1>7. path.total \in Nat \ {0} /\ IsWholeBetween(path)
  BY <1>1 DEF IsSampled, IsWholeBetween, stream
<1>8. IsPath(path.points, path.along)
  BY <1>1, <1>7, NewPointsAreAPath
<1> HIDE DEF path
<1>9. ASSUME NEW n \in 1 .. profile.samples - 1
      PROVE  /\ PlaceAt(stream, n - 1) \in Int \X Int /\ PlaceAt(stream, n) \in Int \X Int
             /\ Apart(PlaceAt(stream, n), PlaceAt(stream, n - 1))
                  <= request.speed * request.dt * Unit
  <2>1. SampleFollows(profile, n)
    BY <1>4, SamplesFollow DEF profile
  <2>2. PICK x \in Nat : x = EvaluateIndex(profile, n - 1).s
    BY <2>1 DEF SampleFollows
  <2>3. PICK y \in Nat : y = EvaluateIndex(profile, n).s
    BY <2>1 DEF SampleFollows
  <2>4. x <= y /\ y <= x + (6 * v) * dt
    BY <1>2, <1>3, <1>5, <1>6, <2>1, <2>2, <2>3 DEF SampleFollows
  <2>5. PICK h \in Nat : y = x + h /\ h <= (6 * v) * dt
    <3>1. y - x \in Nat /\ y = x + (y - x)
      BY <2>4
    <3>2. (6 * v) * dt \in Int
      OBVIOUS
    <3>3. y - x <= (6 * v) * dt
      BY <2>4, <3>2
    <3> QED
      BY <3>1, <3>3
  <2>6. /\ PlaceAt(stream, n - 1) = arc_length_interpolate(path.points, path.along, x)
        /\ PlaceAt(stream, n) = arc_length_interpolate(path.points, path.along, x + h)
    BY <1>1, <2>2, <2>3, <2>5 DEF PlaceAt
  <2>7. /\ PlaceAt(stream, n - 1) \in Int \X Int /\ PlaceAt(stream, n) \in Int \X Int
        /\ Apart(PlaceAt(stream, n), PlaceAt(stream, n - 1)) <= PerSixth * h
    <3>1. /\ arc_length_interpolate(path.points, path.along, x) \in Int \X Int
          /\ arc_length_interpolate(path.points, path.along, x + h) \in Int \X Int
          /\ Apart(arc_length_interpolate(path.points, path.along, x + h),
                   arc_length_interpolate(path.points, path.along, x)) <= PerSixth * h
      BY <1>8, PlaceFollows
    <3> QED
      BY <2>6, <3>1
  <2>8. PICK d \in Nat : d = Apart(PlaceAt(stream, n), PlaceAt(stream, n - 1))
    BY <2>7, ApartAdds
  <2>9. d <= v * dt * 36
    <3>1. d <= 6 * h
      BY <2>7, <2>8 DEF PerSixth
    <3>2. 6 * ((6 * v) * dt) = v * dt * 36 /\ (6 * v) * dt \in Int
      OBVIOUS
    <3>3. 6 * h <= 6 * ((6 * v) * dt)
      BY <2>5, <3>2
    <3> QED
      BY <3>1, <3>2, <3>3
  <2> QED
    BY <1>5, <1>6, <2>7, <2>8, <2>9 DEF Unit
<1> QED
  BY <1>1, <1>9 DEF KeepsPace, stream

\* So it is for a segment of a program.
LEMMA PieceKeepsPace ==
    ASSUME NEW segments, IsProgram(segments), NEW n \in 1 .. Len(segments), NEW seed,
           ~ (SpeedOf(segments[n]) > Config.speedLimit),
           StreamOf(segments[n], seed).initialized
    PROVE  KeepsPace(StreamOf(segments[n], seed), SpeedOf(segments[n]), Config.period)
<1> DEFINE piece == segments[n]
           stream == StreamOf(piece, seed)
           request == RequestOf(piece, seed)
           points == WaypointsOf(piece)
<1>1. /\ IsPiece(piece) /\ HasWholeProfile(StreamOf(piece, piece.taught))
      /\ IsSampled(StreamOf(piece, piece.taught))
      /\ StreamOf(piece, piece.taught).initialized => LieAlongAxes(points)
  BY DEF IsProgram, IsSegment
<1>2. Alike(StreamOf(piece, piece.taught), stream)
  BY SeedIsNoLimit
<1>3. stream.initialized
  OBVIOUS
<1>4. /\ request.points = piece.points /\ request.count = Config.geometryPoints
      /\ request.spacing \in Nat \ {0} /\ request.dt \in Nat \ {0}
      /\ request.count \in Nat \ {0}
      /\ request.speed = SpeedOf(piece) /\ request.dt = Config.period
  BY ConfigAssumption DEF ConfigAssumption, RequestOf
<1>5. stream = IF piece.type = "LINE" THEN single_line_stream_init(request)
               ELSE single_circular_stream_init(request)
  BY DEF StreamOf
<1> HIDE DEF piece, stream, request
<1>6. HasWholeProfile(stream) /\ IsSampled(stream) /\ LieAlongAxes(points)
  BY <1>1, <1>2, <1>3 DEF HasWholeProfile, IsSampled, Alike
<1>7. \A status : ~ Failed(status).initialized
  BY DEF Failed, NoStream
<1>8. piece.points \in Seq(Int \X Int)
  BY <1>1 DEF IsPiece
<1>9. /\ stream = StreamAlong(points, request) /\ Len(points) \in Nat \ {0}
      /\ \A k \in 1 .. Len(points) : points[k] \in Int \X Int
  <2>1. CASE piece.type = "LINE"
    <3>1. ~ (request.count < 2)
          /\ stream = StreamAlong(generate_line_waypoints(request.points[1],
                                      request.points[2], request.count), request)
      BY <1>3, <1>5, <1>7, <2>1 DEF single_line_stream_init
    <3>2. /\ Len(piece.points) = 2 /\ piece.points[1] \in Int \X Int
          /\ piece.points[2] \in Int \X Int
      BY <1>1, <1>8, <2>1 DEF IsPiece
    <3>3. PICK origin \in Int \X Int, end \in Int \X Int, count \in Nat \ {0, 1} :
              origin = piece.points[1] /\ end = piece.points[2] /\ count = request.count
      BY <1>4, <3>1, <3>2
    <3>4. Len(generate_line_waypoints(origin, end, count)) = count
      BY LineEnds
    <3>5. points = generate_line_waypoints(origin, end, count)
      BY <1>4, <2>1, <3>3 DEF WaypointsOf
    <3>6. stream = StreamAlong(points, request)
      BY <1>4, <3>1, <3>3, <3>5
    <3>7. \A k \in 1 .. count : points[k] \in Int \X Int
      BY <3>5, WholeLine
    <3> HIDE DEF points
    <3> QED
      BY <3>4, <3>5, <3>6, <3>7
  <2>2. CASE piece.type # "LINE"
    <3>1. request.points # << >> /\ stream = StreamAlong(request.points, request)
      BY <1>3, <1>5, <1>7, <2>2 DEF single_circular_stream_init
    <3>2. points = piece.points
      BY <2>2 DEF WaypointsOf
    <3>3. Len(piece.points) \in Nat \ {0}
      BY <1>4, <1>8, <3>1
    <3>4. \A k \in 1 .. Len(piece.points) : piece.points[k] \in Int \X Int
      BY <1>8
    <3> QED
      BY <1>4, <3>1, <3>2, <3>3, <3>4
  <2> QED
    BY <2>1, <2>2
<1> HIDE DEF points
<1>10. KeepsPace(stream, request.speed, request.dt)
  BY <1>3, <1>4, <1>6, <1>9, StreamKeepsPace
<1> QED
  BY <1>4, <1>10 DEF stream, piece

-----------------------------------------------------------------------------
(* The joints of a sample.                                                 *)

IsPosition(q) == q[1] \in Int /\ q[2] \in Int

\* The solver gives whole positions of the joints.
LEMMA SolutionIsPosition ==
    ASSUME NEW behaviour, behaviour.tolerance \in Int, NEW place \in Int \X Int,
           NEW seed, IsPosition(seed), adls_ik(behaviour, place, seed) # NoSolution
    PROVE  IsPosition(adls_ik(behaviour, place, seed))
<1> DEFINE posture == IF place[1] > behaviour.bend THEN 1 ELSE PostureOf(seed)
           near == << place[1] - behaviour.tolerance, place[2] >>
           bent == << near[1] + posture * Flip, near[2] >>
<1>1. \/ adls_ik(behaviour, place, seed) = NoSolution
      \/ adls_ik(behaviour, place, seed) = seed
      \/ adls_ik(behaviour, place, seed) = bent
  BY DEF adls_ik
<1>2. PICK x \in Int : x = place[1]
  BY PairOf
<1>3. PICK y \in Int : y = place[2]
  BY PairOf
<1>4. PICK p \in {0, 1} : p = posture
  BY DEF PostureOf
<1>5. near = << x - behaviour.tolerance, y >>
  BY <1>2, <1>3
<1> HIDE DEF posture, near
<1>6. near[1] = x - behaviour.tolerance /\ near[2] = y
  BY <1>5
<1>7. p * Flip \in Int
  BY DEF Flip, Unit
<1>8. bent[1] = near[1] + p * Flip /\ bent[2] = near[2]
  BY <1>4
<1>9. bent[1] \in Int /\ bent[2] \in Int
  BY <1>6, <1>7, <1>8
<1> HIDE DEF bent
<1>10. IsPosition(bent)
  BY <1>9 DEF IsPosition
<1> QED
  BY <1>1, <1>10

\* So are those that the drives are commanded to.
LEMMA QuantizedIsPosition ==
    ASSUME NEW q, IsPosition(q)
    PROVE  IsPosition(Quantized(q))
<1>1. Config.quantum \in Nat \ {0}
  BY ConfigAssumption DEF ConfigAssumption
<1>2. PICK quantum \in Nat \ {0} : quantum = Config.quantum
  BY <1>1
<1>3. ASSUME NEW x \in Int
      PROVE  a6ec_position_units_to_joint_rad(a6ec_joint_rad_to_position_units(x)) \in Int
  <2>1. ASSUME NEW y \in Int
        PROVE  y \div (2 * quantum) \in Int
    <3>1. PICK d \in Nat \ {0} : d = 2 * quantum
      OBVIOUS
    <3>2. y \div d \in Int
      OBVIOUS
    <3> QED
      BY <3>1, <3>2
  <2>2. 2 * x + quantum \in Int /\ 2 * (-x) + quantum \in Int
    OBVIOUS
  <2>3. /\ (2 * x + quantum) \div (2 * quantum) \in Int
        /\ (2 * (-x) + quantum) \div (2 * quantum) \in Int
    BY <2>1, <2>2
  <2>4. a6ec_joint_rad_to_position_units(x)
          = IF x >= 0 THEN (2 * x + quantum) \div (2 * quantum)
            ELSE -((2 * (-x) + quantum) \div (2 * quantum))
    BY <1>2 DEF a6ec_joint_rad_to_position_units
  <2>5. a6ec_joint_rad_to_position_units(x) \in Int
    BY <2>3, <2>4
  <2>6. PICK u \in Int : u = a6ec_joint_rad_to_position_units(x)
    BY <2>5
  <2>7. u * quantum \in Int
    OBVIOUS
  <2> QED
    BY <1>2, <2>6, <2>7 DEF a6ec_position_units_to_joint_rad
<1>4. Quantized(q)[1] \in Int /\ Quantized(q)[2] \in Int
  BY <1>3 DEF Quantized, IsPosition
<1> QED
  BY <1>4 DEF IsPosition

\* A sample that passes keeps the range of every joint, and the steps and turns that
\* the drives can follow.
JointPasses(joint, q, moved) ==
    /\ ~ (q[joint] < Config.lowest) /\ ~ (q[joint] > Config.highest)
    /\ previous.qValid =>
          /\ ~ (Abs(moved[joint]) > Config.jointSpeed)
          /\ previous.qdValid =>
                ~ (Abs(moved[joint] - previous.qd[joint]) > Config.jointAcceleration)

\* A sample that is not rejected keeps every joint in its range and its limits.
LEMMA JointsPass ==
    ASSUME NEW sample, SampleError(sample) = "NONE", NEW joint \in 1 .. 2
    PROVE  JointPasses(joint, Quantized(sample.q), Moved(Quantized(sample.q)))
<1> DEFINE q == Quantized(sample.q)
           moved == Moved(q)
<1>1. JointsError(q, moved) = "NONE"
  BY DEF SampleError
<1> HIDE DEF q, moved
<1>2. JointError(1, q, moved) = "NONE" /\ JointError(2, q, moved) = "NONE"
  BY <1>1 DEF JointsError
<1>3. joint = 1 \/ joint = 2
  OBVIOUS
<1>4. JointError(joint, q, moved) = "NONE"
  BY <1>2, <1>3
<1>5. JointPasses(joint, q, moved)
  BY <1>4 DEF JointError, JointPasses
<1> QED
  BY <1>5 DEF q, moved

-----------------------------------------------------------------------------
(* What is stored can be followed.                                         *)

InReach(sample) ==
    \A joint \in 1 .. 2 : sample.q[joint] \in Config.lowest .. Config.highest

Follows(sample, before) ==
    /\ Apart(sample.place, before.place)
         <= SpeedOf(program[sample.segment]) * Config.period * Unit
    /\ \A joint \in 1 .. 2 :
          Abs(sample.q[joint] - before.q[joint]) <= Config.jointSpeed

Turns(sample, before, first) ==
    \A joint \in 1 .. 2 :
        Abs(sample.q[joint] - 2 * before.q[joint] + first.q[joint])
            <= Config.jointAcceleration

IsSmooth(samples) ==
    /\ \A n \in 1 .. Len(samples) : InReach(samples[n])
    /\ \A n \in 2 .. Len(samples) : Follows(samples[n], samples[n - 1])
    /\ \A n \in 3 .. Len(samples) : Turns(samples[n], samples[n - 1], samples[n - 2])

Last == stored[Len(stored)]

\* What the checks compare the next sample with is what was stored last.
IsRemembered ==
    /\ previous.qValid <=> Len(stored) >= 1
    /\ Len(stored) >= 1 => previous.q = Last.q
    /\ previous.qdValid <=> Len(stored) >= 2
    /\ Len(stored) >= 2 =>
          \A joint \in 1 .. 2 :
              previous.qd[joint] = Last.q[joint] - stored[Len(stored) - 1].q[joint]

\* The next segment begins where the last sample lies.
IsAtSeam ==
    Len(stored) >= 1 =>
        /\ segment > 1
        /\ program[segment - 1].points # << >>
        /\ Last.place = program[segment - 1].points[Len(program[segment - 1].points)]

\* So does the next sample of the stream follow it.
IsOnStream ==
    /\ KeepsPace(checkStream, SpeedOf(Piece), Config.period)
    /\ IsPosition(checkStream.seed)
    /\ Len(stored) >= 1 =>
          /\ checkStream.next >= 1
          /\ Last.place = PlaceAt(checkStream, checkStream.next - 1)

SmoothInv ==
    /\ IsSmooth(stored)
    /\ arm.tolerance \in Int
    /\ checkPhase \in {"PREPARE_SEGMENT", "GENERATE_AND_VALIDATE_SAMPLE"} => IsRemembered
    /\ checkPhase = "PREPARE_SEGMENT" => IsAtSeam
    /\ checkPhase = "GENERATE_AND_VALIDATE_SAMPLE" => IsOnStream

\* A validation begins with nothing to follow.
LEMMA SmoothInvInit == Init => SmoothInv
<1> SUFFICES ASSUME Init
             PROVE  SmoothInv
  OBVIOUS
<1>1. /\ stored = << >> /\ previous = NoPrevious
      /\ checkPhase \in {"IDLE", "PREPARE_SEGMENT"}
      /\ arm = Idling \/ arm \in Arms
  BY DEF Init, CheckInit
<1>2. Len(stored) = 0
  BY <1>1
<1>3. arm.tolerance \in Int
  BY <1>1, ArmsAssumption DEF ArmsAssumption, Idling
<1>4. ~ previous.qValid /\ ~ previous.qdValid
  BY <1>1 DEF NoPrevious
<1>5. IsSmooth(stored) /\ IsRemembered /\ IsAtSeam
  BY <1>2, <1>4 DEF IsSmooth, IsRemembered, IsAtSeam
<1> QED
  BY <1>1, <1>3, <1>5 DEF SmoothInv

\* One sample more that follows the last ones.
LEMMA SmoothAppend ==
    ASSUME NEW S, NEW samples \in Seq(S), IsSmooth(samples), NEW item, InReach(item),
           Len(samples) >= 1 => Follows(item, samples[Len(samples)]),
           Len(samples) >= 2 => Turns(item, samples[Len(samples)], samples[Len(samples) - 1])
    PROVE  IsSmooth(Append(samples, item))
<1> DEFINE more == Append(samples, item)
<1>1. PICK m \in Nat : m = Len(samples)
  OBVIOUS
<1>2. Len(more) = m + 1 /\ more[m + 1] = item /\ \A n \in 1 .. m : more[n] = samples[n]
  BY <1>1
<1> HIDE DEF more
<1>3. ASSUME NEW n \in 1 .. m + 1
      PROVE  InReach(more[n])
  <2>1. CASE n = m + 1
    BY <1>2, <2>1
  <2>2. CASE n # m + 1
    <3>1. n \in 1 .. m
      BY <2>2
    <3> QED
      BY <1>1, <1>2, <3>1 DEF IsSmooth
  <2> QED
    BY <2>1, <2>2
<1>4. ASSUME NEW n \in 2 .. m + 1
      PROVE  Follows(more[n], more[n - 1])
  <2>1. CASE n = m + 1
    <3>1. n - 1 = m /\ m \in 1 .. m /\ m >= 1
      BY <2>1
    <3> QED
      BY <1>1, <1>2, <2>1, <3>1
  <2>2. CASE n # m + 1
    <3>1. n \in 2 .. m /\ n \in 1 .. m /\ n - 1 \in 1 .. m
      BY <2>2
    <3>2. Follows(samples[n], samples[n - 1])
      BY <1>1, <3>1 DEF IsSmooth
    <3> QED
      BY <1>2, <3>1, <3>2
  <2> QED
    BY <2>1, <2>2
<1>5. ASSUME NEW n \in 3 .. m + 1
      PROVE  Turns(more[n], more[n - 1], more[n - 2])
  <2>1. CASE n = m + 1
    <3>1. n - 1 = m /\ n - 2 = m - 1 /\ m \in 1 .. m /\ m - 1 \in 1 .. m /\ m >= 2
      BY <2>1
    <3> QED
      BY <1>1, <1>2, <2>1, <3>1
  <2>2. CASE n # m + 1
    <3>1. n \in 3 .. m /\ n \in 1 .. m /\ n - 1 \in 1 .. m /\ n - 2 \in 1 .. m
      BY <2>2
    <3>2. Turns(samples[n], samples[n - 1], samples[n - 2])
      BY <1>1, <3>1 DEF IsSmooth
    <3> QED
      BY <1>2, <3>1, <3>2
  <2> QED
    BY <2>1, <2>2
<1> QED
  BY <1>2, <1>3, <1>4, <1>5 DEF IsSmooth, more

\* A failure leaves nothing.
LEMMA FailIsSmooth ==
    ASSUME SmoothInv, NEW error, Fail(error)
    PROVE  SmoothInv'
<1>1. stored' = << >> /\ checkPhase' = "INVALID" /\ arm' = arm
  BY DEF Fail
<1>2. IsSmooth(stored)'
  <2>1. Len(stored') = 0
    BY <1>1
  <2> QED
    BY <2>1 DEF IsSmooth
<1> QED
  BY <1>1, <1>2 DEF SmoothInv

\* Inverse kinematics of a stream starts where it was opened with.
LEMMA SeedOfStream ==
    ASSUME NEW piece, NEW seed, StreamOf(piece, seed).initialized
    PROVE  StreamOf(piece, seed).seed = seed
<1> DEFINE request == RequestOf(piece, seed)
<1>1. request.seed = seed
  BY DEF RequestOf
<1> HIDE DEF request
<1>2. \A status : ~ Failed(status).initialized
  BY DEF Failed, NoStream
<1>3. ASSUME NEW points, StreamAlong(points, request).initialized
      PROVE  StreamAlong(points, request).seed = seed
  BY <1>1, <1>2, <1>3 DEF StreamAlong, StreamOver
<1>4. single_line_stream_init(request).initialized
        => single_line_stream_init(request).seed = seed
  BY <1>2, <1>3 DEF single_line_stream_init
<1>5. single_circular_stream_init(request).initialized
        => single_circular_stream_init(request).seed = seed
  BY <1>2, <1>3 DEF single_circular_stream_init
<1> QED
  BY <1>4, <1>5 DEF StreamOf, request

\* The stream of the next segment goes on where the last one ended.
LEMMA PrepareIsSmooth ==
    ASSUME CheckInv, SmoothInv, PrepareSegment
    PROVE  SmoothInv'
<1> DEFINE stream == StreamOf(Piece, Seed)
<1>1. /\ checkPhase = "PREPARE_SEGMENT" /\ IsProgram(program) /\ segment \in 1 .. Len(program)
      /\ Len(program) \in Nat
      /\ IsRemembered /\ IsAtSeam /\ IsSmooth(stored) /\ arm.tolerance \in Int
  BY DEF PrepareSegment, CheckInv, SmoothInv, IsProgram
<1>2. CASE \E error : Fail(error)
  BY <1>2, FailIsSmooth
<1> DEFINE Opens == /\ stream.initialized
                    /\ ~ (SpeedOf(Piece) > Config.speedLimit)
                    /\ checkStream' = [stream EXCEPT !.next = FirstIndex]
                    /\ checkPhase' = "GENERATE_AND_VALIDATE_SAMPLE"
                    /\ UNCHANGED <<program, arm, segment, previous, stored>>
<1>3. CASE Opens
  <2>1. stream.initialized /\ ~ (SpeedOf(Piece) > Config.speedLimit)
    BY <1>3
  <2>2. OpenedFor(stream, Piece)
    BY <1>1, <2>1, PieceOpens DEF Piece
  <2>3. KeepsPace(stream, SpeedOf(Piece), Config.period)
    BY <1>1, <2>1, PieceKeepsPace DEF Piece
  <2>4. stream.seed = Seed
    BY <2>1, SeedOfStream
  <2>5. /\ checkStream' = [stream EXCEPT !.next = FirstIndex]
        /\ checkPhase' = "GENERATE_AND_VALIDATE_SAMPLE"
        /\ UNCHANGED <<program, arm, segment, previous, stored>>
    BY <1>3
  <2> HIDE DEF stream, Opens
  <2>6. /\ checkStream'.profile = stream.profile /\ checkStream'.path = stream.path
        /\ checkStream'.seed = stream.seed /\ checkStream'.next = FirstIndex
    BY <2>2, <2>5 DEF OpenedFor, StreamFields
  <2>7. Piece' = Piece /\ SpeedOf(Piece)' = SpeedOf(Piece)
    BY <2>5 DEF Piece
  <2>8. \A n : PlaceAt(checkStream', n) = PlaceAt(stream, n)
    BY <2>6 DEF PlaceAt
  <2>9. KeepsPace(checkStream', SpeedOf(Piece), Config.period)
    BY <2>3, <2>6, <2>8 DEF KeepsPace
  <2>10. IsPosition(Seed)
    <3>1. CASE Len(stored) >= 1
      <4>1. previous.qValid /\ previous.q = Last.q
        BY <1>1, <3>1 DEF IsRemembered
      <4>2. Len(stored) \in 1 .. Len(stored)
        <5>1. PICK S : stored \in Seq(S)
          BY DEF CheckInv
        <5>2. Len(stored) \in Nat
          BY <5>1
        <5> QED
          BY <3>1, <5>2
      <4>3. InReach(Last)
        BY <1>1, <4>2 DEF IsSmooth, Last
      <4>4. Last.q[1] \in Int /\ Last.q[2] \in Int
        BY <4>3, ConfigAssumption DEF InReach, ConfigAssumption
      <4> QED
        BY <4>1, <4>4 DEF Seed, IsPosition
    <3>2. CASE ~ (Len(stored) >= 1)
      <4>1. ~ previous.qValid
        BY <1>1, <3>2 DEF IsRemembered
      <4>2. IsPiece(Piece)
        BY <1>1 DEF IsProgram, IsSegment, Piece
      <4>3. Piece.taught \in Int \X Int
        BY <4>2 DEF IsPiece
      <4>4. Piece.taught[1] \in Int /\ Piece.taught[2] \in Int
        BY <4>3, PairOf
      <4> QED
        BY <4>1, <4>4 DEF Seed, IsPosition
    <3> QED
      BY <3>1, <3>2
  <2>11. ASSUME Len(stored) >= 1
         PROVE  checkStream'.next >= 1 /\ Last.place = PlaceAt(stream, checkStream'.next - 1)
    <3>1. /\ segment > 1 /\ program[segment - 1].points # << >>
          /\ Last.place = program[segment - 1].points[Len(program[segment - 1].points)]
      BY <1>1, <2>11 DEF IsAtSeam
    <3>2. FirstIndex = 1
      BY <1>1, <3>1 DEF FirstIndex
    <3>3. segment \in 2 .. Len(program)
      BY <1>1, <3>1
    <3>4. PlaceAt(stream, 0) = Piece.points[1] /\ Piece.points # << >>
      BY <2>2 DEF OpenedFor
    <3>5. Piece.points[1] = program[segment - 1].points[Len(program[segment - 1].points)]
      BY <1>1, <3>1, <3>3, <3>4 DEF IsProgram, Piece
    <3> QED
      BY <2>6, <3>1, <3>2, <3>4, <3>5
  <2>12. IsOnStream'
    <3>1. KeepsPace(checkStream', SpeedOf(Piece'), Config.period)
      BY <2>7, <2>9
    <3>2. IsPosition(checkStream'.seed)
      BY <2>4, <2>6, <2>10
    <3>3. Len(stored') >= 1 =>
             /\ checkStream'.next >= 1
             /\ Last' = Last
             /\ Last.place = PlaceAt(checkStream', checkStream'.next - 1)
      BY <2>5, <2>8, <2>11 DEF Last
    <3> QED
      BY <2>7, <3>1, <3>2, <3>3 DEF IsOnStream
  <2>13. IsRemembered' /\ IsSmooth(stored)'
    BY <1>1, <2>5 DEF IsRemembered, IsSmooth, Last, Follows
  <2> QED
    BY <1>1, <2>5, <2>12, <2>13 DEF SmoothInv
<1>4. (\E error : Fail(error)) \/ Opens
  <2>1. PrepareSegment
    OBVIOUS
  <2> HIDE DEF stream
  <2>2. \/ \E error : Fail(error)
        \/ /\ stream.initialized
           /\ ~ (SpeedOf(Piece) > Config.speedLimit)
           /\ checkStream' = [stream EXCEPT !.next = FirstIndex]
           /\ checkPhase' = "GENERATE_AND_VALIDATE_SAMPLE"
           /\ UNCHANGED <<program, arm, segment, previous, stored>>
    BY <2>1 DEF PrepareSegment, stream
  <2> QED
    BY <2>2
<1> QED
  BY <1>2, <1>3, <1>4

\* The joints of a sample of the stream.
LEMMA SampleIsPosition ==
    ASSUME NEW stream, NEW behaviour, behaviour.tolerance \in Int,
           PlaceAt(stream, stream.next) \in Int \X Int, IsPosition(stream.seed),
           stream.initialized, ~ (stream.next >= stream.profile.samples),
           single_line_stream_next(stream, behaviour).sample.ok
    PROVE  IsPosition(single_line_stream_next(stream, behaviour).sample.q)
<1> DEFINE next == single_line_stream_next(stream, behaviour)
           movement == EvaluateIndex(stream.profile, stream.next)
           sample == SampleAlong(stream, behaviour, movement)
<1>1. next = Given(stream, sample)
  BY DEF single_line_stream_next
<1>2. sample.q = adls_ik(behaviour, PlaceAt(stream, stream.next), stream.seed)
  BY DEF SampleAlong, SampleOf, PlaceAt
<1>3. next.sample.ok
  OBVIOUS
<1> HIDE DEF sample, next
<1>4. sample.q # NoSolution /\ next.sample = sample
  BY <1>1, <1>3 DEF Given, NoSample
<1>5. IsPosition(sample.q)
  BY <1>2, <1>4, SolutionIsPosition
<1> QED
  BY <1>4, <1>5 DEF next

\* A sample that passes follows the last one.
LEMMA PassedFollows ==
    ASSUME CheckInv, SmoothInv, checkPhase = "GENERATE_AND_VALIDATE_SAMPLE",
           NEW sample, SampleError(sample) = "NONE", IsPosition(sample.q),
           sample.place = PlaceAt(checkStream, checkStream.next),
           NEW item, item.q = Quantized(sample.q), item.place = sample.place,
           item.segment = segment
    PROVE  /\ InReach(item)
           /\ Len(stored) >= 1 => Follows(item, Last)
           /\ Len(stored) >= 2 => Turns(item, Last, stored[Len(stored) - 1])
<1> DEFINE q == Quantized(sample.q)
<1>1. /\ IsRemembered /\ IsSmooth(stored) /\ IsOnStream
      /\ OpenedFor(checkStream, Piece)
      /\ checkStream.next \in 0 .. checkStream.profile.samples - 1
  BY DEF SmoothInv, CheckInv
<1>2. \A joint \in 1 .. 2 : JointPasses(joint, q, Moved(q))
  BY JointsPass
<1>3. \A joint \in 1 .. 2 : q[joint] \in Int
  BY QuantizedIsPosition DEF IsPosition
<1>4. /\ \A joint \in 1 .. 2 : Moved(q)[joint] = IF previous.qValid
                                                  THEN q[joint] - previous.q[joint] ELSE 0
  BY DEF Moved
<1> HIDE DEF q
<1>5. Config.lowest \in Int /\ Config.highest \in Int /\ Config.jointSpeed \in Int
      /\ Config.jointAcceleration \in Int
  BY ConfigAssumption DEF ConfigAssumption
<1>6. InReach(item)
  <2>1. ASSUME NEW joint \in 1 .. 2
        PROVE  q[joint] \in Config.lowest .. Config.highest
    <3>1. ~ (q[joint] < Config.lowest) /\ ~ (q[joint] > Config.highest)
      BY <1>2 DEF JointPasses
    <3> QED
      BY <1>3, <1>5, <3>1
  <2> QED
    BY <2>1 DEF InReach, q
<1>7. PICK m \in Nat : m = Len(stored)
  <2>1. PICK S : stored \in Seq(S)
    BY DEF CheckInv
  <2> QED
    BY <2>1
<1>8. \A n \in 1 .. m : \A joint \in 1 .. 2 : stored[n].q[joint] \in Int
  BY <1>1, <1>5, <1>7 DEF IsSmooth, InReach
<1>9. ASSUME m >= 1
      PROVE  Follows(item, Last)
  <2>1. previous.qValid /\ previous.q = Last.q /\ m \in 1 .. m
    BY <1>1, <1>7, <1>9 DEF IsRemembered
  <2>2. ASSUME NEW joint \in 1 .. 2
        PROVE  Abs(q[joint] - Last.q[joint]) <= Config.jointSpeed
    <3>1. Moved(q)[joint] = q[joint] - Last.q[joint]
      BY <1>4, <2>1
    <3>2. ~ (Abs(Moved(q)[joint]) > Config.jointSpeed)
      BY <1>2, <2>1 DEF JointPasses
    <3>3. q[joint] \in Int /\ Last.q[joint] \in Int
      BY <1>3, <1>7, <1>8, <2>1 DEF Last
    <3>4. PICK d \in Int : d = q[joint] - Last.q[joint]
      BY <3>3
    <3>5. Abs(d) \in Int /\ ~ (Abs(d) > Config.jointSpeed)
      BY <3>1, <3>2, <3>4 DEF Abs
    <3>6. Abs(d) <= Config.jointSpeed
      BY <1>5, <3>5
    <3> QED
      BY <3>4, <3>6
  <2>3. Apart(item.place, Last.place) <= SpeedOf(program[segment]) * Config.period * Unit
    <3>1. /\ KeepsPace(checkStream, SpeedOf(Piece), Config.period)
          /\ checkStream.next >= 1 /\ Last.place = PlaceAt(checkStream, checkStream.next - 1)
      BY <1>1, <1>7, <1>9 DEF IsOnStream
    <3>2. checkStream.next \in 1 .. checkStream.profile.samples - 1
      BY <1>1, <3>1
    <3> QED
      BY <3>1, <3>2 DEF KeepsPace, Piece
  <2> QED
    BY <2>2, <2>3 DEF Follows, q
<1>10. ASSUME m >= 2
       PROVE  Turns(item, Last, stored[m - 1])
  <2>1. /\ previous.qValid /\ previous.q = Last.q /\ m \in 1 .. m /\ m - 1 \in 1 .. m
        /\ previous.qdValid
        /\ \A joint \in 1 .. 2 :
               previous.qd[joint] = Last.q[joint] - stored[m - 1].q[joint]
    BY <1>1, <1>7, <1>10 DEF IsRemembered
  <2>2. ASSUME NEW joint \in 1 .. 2
        PROVE  Abs(q[joint] - 2 * Last.q[joint] + stored[m - 1].q[joint])
                 <= Config.jointAcceleration
    <3>1. Moved(q)[joint] = q[joint] - Last.q[joint]
      BY <1>4, <2>1
    <3>2. ~ (Abs(Moved(q)[joint] - previous.qd[joint]) > Config.jointAcceleration)
      BY <1>2, <2>1 DEF JointPasses
    <3>3. q[joint] \in Int /\ Last.q[joint] \in Int /\ stored[m - 1].q[joint] \in Int
      BY <1>3, <1>7, <1>8, <2>1 DEF Last
    <3>4. PICK x \in Int : x = q[joint]
      BY <3>3
    <3>5. PICK y \in Int : y = Last.q[joint]
      BY <3>3
    <3>6. PICK z \in Int : z = stored[m - 1].q[joint]
      BY <3>3
    <3>7. Moved(q)[joint] - previous.qd[joint] = (x - y) - (y - z)
      BY <2>1, <3>1, <3>4, <3>5, <3>6
    <3>8. PICK d \in Int : d = (x - y) - (y - z) /\ d = x - 2 * y + z
      OBVIOUS
    <3>9. Abs(d) \in Int /\ ~ (Abs(d) > Config.jointAcceleration)
      BY <3>2, <3>7, <3>8 DEF Abs
    <3>10. Abs(d) <= Config.jointAcceleration
      BY <1>5, <3>9
    <3> QED
      BY <3>4, <3>5, <3>6, <3>8, <3>10
  <2> QED
    BY <2>2 DEF Turns, q
<1> QED
  BY <1>6, <1>7, <1>9, <1>10

\* What is stored goes on as it did.
LEMMA StoreIsSmooth ==
    ASSUME CheckInv, SmoothInv, checkPhase = "GENERATE_AND_VALIDATE_SAMPLE",
           NEW next, Advanced(checkStream, next), IsPosition(next.sample.q),
           SampleError(next.sample) = "NONE", StoreChecked(next.stream, next.sample)
    PROVE  SmoothInv'
<1> DEFINE item == [q |-> Quantized(next.sample.q), place |-> next.sample.place,
                    segment |-> segment, index |-> next.sample.index,
                    last |-> is_finished(next.stream)]
           after == [next.stream EXCEPT !.seed = Quantized(next.sample.q)]
           ends == checkStream.next + 1 >= checkStream.profile.samples
<1>1. /\ IsRemembered /\ IsSmooth(stored) /\ IsOnStream /\ arm.tolerance \in Int
      /\ OpenedFor(checkStream, Piece)
      /\ checkStream.next \in 0 .. checkStream.profile.samples - 1
      /\ segment \in 1 .. Len(program)
  BY DEF SmoothInv, CheckInv
<1>2. /\ checkStream.initialized /\ checkStream.profile.samples \in 2 .. TimeCapacity
      /\ DOMAIN checkStream = StreamFields /\ Piece.points # << >>
      /\ PlaceAt(checkStream, checkStream.profile.samples - 1)
           = Piece.points[Len(Piece.points)]
  BY <1>1 DEF OpenedFor
<1>3. /\ stored' = Append(stored, item)
      /\ checkStream' = after
      /\ previous' = Kept(next.sample)
      /\ checkPhase' = PhaseAfter(next.stream)
      /\ segment' = IF is_finished(next.stream) THEN segment + 1 ELSE segment
      /\ UNCHANGED <<program, arm>>
  BY DEF StoreChecked
<1>4. /\ next.sample.place = PlaceAt(checkStream, checkStream.next)
      /\ DOMAIN next.stream = StreamFields
      /\ next.stream.initialized = checkStream.initialized
      /\ next.stream.profile = checkStream.profile /\ next.stream.path = checkStream.path
      /\ next.stream.next = checkStream.next + 1
      /\ next.stream.finished <=> ends
  BY DEF Advanced
<1>5. is_finished(next.stream) <=> ends
  BY <1>2, <1>4 DEF is_finished
<1>6. /\ after.profile = checkStream.profile /\ after.path = checkStream.path
      /\ after.next = checkStream.next + 1 /\ after.seed = Quantized(next.sample.q)
  BY <1>4 DEF StreamFields
<1>7. item.q = Quantized(next.sample.q) /\ item.place = next.sample.place
      /\ item.segment = segment
  OBVIOUS
<1>8. PICK count \in Nat : count = checkStream.profile.samples /\ count >= 2
  BY <1>2
<1>9. PICK k \in Nat : k = checkStream.next /\ k <= count - 1
  BY <1>1, <1>8
<1>10. ends <=> k + 1 >= count
  BY <1>8, <1>9
<1> HIDE DEF item, after, ends
<1>11. /\ InReach(item)
       /\ Len(stored) >= 1 => Follows(item, Last)
       /\ Len(stored) >= 2 => Turns(item, Last, stored[Len(stored) - 1])
  BY <1>4, <1>7, PassedFollows
<1>12. PICK S : stored \in Seq(S)
  BY DEF CheckInv
<1>13. IsSmooth(stored)'
  <2>1. IsSmooth(Append(stored, item))
    BY <1>1, <1>11, <1>12, SmoothAppend DEF Last
  <2> QED
    BY <1>3, <2>1 DEF IsSmooth, Follows
<1>14. PICK m \in Nat : m = Len(stored)
  BY <1>12
<1>15. Len(stored') = m + 1 /\ stored'[m + 1] = item /\ \A n \in 1 .. m : stored'[n] = stored[n]
  BY <1>3, <1>12, <1>14
<1>16. Last' = item
  BY <1>15 DEF Last
<1>17. IsRemembered'
  <2>1. /\ previous'.qValid /\ previous'.q = item.q
        /\ previous'.qdValid = previous.qValid
        /\ previous'.qd = Moved(Quantized(next.sample.q))
    BY <1>3, <1>7 DEF Kept
  <2>2. previous.qValid <=> m >= 1
    BY <1>1, <1>14 DEF IsRemembered
  <2>3. previous'.qValid <=> Len(stored') >= 1
    BY <1>15, <2>1
  <2>4. previous'.qdValid <=> Len(stored') >= 2
    <3>1. m >= 1 <=> Len(stored') >= 2
      BY <1>15
    <3> QED
      BY <2>1, <2>2, <3>1
  <2>5. ASSUME Len(stored') >= 2, NEW joint \in 1 .. 2
        PROVE  previous'.qd[joint] = item.q[joint] - stored'[Len(stored') - 1].q[joint]
    <3>1. m >= 1 /\ m \in 1 .. m /\ Len(stored') - 1 = m
      BY <1>15, <2>5
    <3>2. previous.qValid /\ previous.q = stored[m].q
      BY <1>1, <1>14, <3>1 DEF IsRemembered, Last
    <3>3. Moved(item.q)[joint] = item.q[joint] - stored[m].q[joint]
      BY <3>2 DEF Moved
    <3> QED
      BY <1>7, <1>15, <2>1, <3>1, <3>3
  <2>6. Len(stored') >= 1 => previous'.q = Last'.q
    BY <1>16, <2>1
  <2>7. Len(stored') >= 2 =>
           \A joint \in 1 .. 2 :
               previous'.qd[joint] = Last'.q[joint] - stored'[Len(stored') - 1].q[joint]
    BY <1>16, <2>5
  <2> QED
    BY <2>3, <2>4, <2>6, <2>7 DEF IsRemembered
<1>18. checkPhase' = IF ~ ends THEN "GENERATE_AND_VALIDATE_SAMPLE"
                     ELSE IF segment < Len(program) THEN "PREPARE_SEGMENT"
                     ELSE "FINALIZE"
  BY <1>3, <1>5 DEF PhaseAfter
<1>19. CASE ~ ends
  <2>1. segment' = segment /\ Piece' = Piece /\ SpeedOf(Piece)' = SpeedOf(Piece)
    BY <1>3, <1>5, <1>19 DEF Piece
  <2>2. \A n : PlaceAt(checkStream', n) = PlaceAt(checkStream, n)
    BY <1>3, <1>6 DEF PlaceAt
  <2>3. KeepsPace(checkStream', SpeedOf(Piece'), Config.period)
    <3>1. KeepsPace(checkStream, SpeedOf(Piece), Config.period)
      BY <1>1 DEF IsOnStream
    <3>2. checkStream'.profile = checkStream.profile
      BY <1>3, <1>6
    <3> QED
      BY <2>1, <2>2, <3>1, <3>2 DEF KeepsPace
  <2>4. IsPosition(checkStream'.seed)
    BY <1>3, <1>6, QuantizedIsPosition
  <2>5. checkStream'.next >= 1 /\ Last'.place = PlaceAt(checkStream', checkStream'.next - 1)
    <3>1. checkStream'.next = k + 1 /\ (k + 1) - 1 = k /\ k + 1 >= 1
      BY <1>3, <1>6, <1>9
    <3> QED
      BY <1>4, <1>7, <1>9, <1>16, <2>2, <3>1
  <2>6. IsOnStream'
    BY <2>3, <2>4, <2>5 DEF IsOnStream
  <2>7. checkPhase' = "GENERATE_AND_VALIDATE_SAMPLE"
    BY <1>18, <1>19
  <2> QED
    BY <1>1, <1>3, <1>13, <1>17, <2>6, <2>7 DEF SmoothInv
<1>20. CASE ends
  <2>1. segment' = segment + 1
    BY <1>3, <1>5, <1>20
  <2>2. checkPhase' # "GENERATE_AND_VALIDATE_SAMPLE"
    BY <1>18, <1>20
  <2>3. IsAtSeam'
    <3>1. k = count - 1
      BY <1>9, <1>10, <1>20
    <3>2. item.place = Piece.points[Len(Piece.points)]
      BY <1>2, <1>4, <1>7, <1>8, <1>9, <3>1
    <3>3. segment' > 1 /\ segment' - 1 = segment
      BY <1>1, <2>1
    <3> QED
      BY <1>2, <1>3, <1>16, <3>2, <3>3 DEF IsAtSeam, Piece
  <2> QED
    BY <1>1, <1>3, <1>13, <1>17, <2>2, <2>3 DEF SmoothInv
<1> QED
  BY <1>19, <1>20

\* Every sample is stored or ends the validation.
LEMMA CheckIsSmooth ==
    ASSUME CheckInv, SmoothInv, CheckSample
    PROVE  SmoothInv'
<1> DEFINE next == single_line_stream_next(checkStream, arm)
<1>1. /\ checkPhase = "GENERATE_AND_VALIDATE_SAMPLE" /\ OpenedFor(checkStream, Piece)
      /\ checkStream.next \in 0 .. checkStream.profile.samples - 1
      /\ IsOnStream /\ arm.tolerance \in Int
  BY DEF CheckInv, SmoothInv, CheckSample
<1>2. \/ ~ next.sample.ok /\ next.stream.status = "IK_FAILED"
      \/ Advanced(checkStream, next)
  BY <1>1, NextOfStream
<1>3. IF ~ next.sample.ok THEN Fail(StreamError(next.stream))
      ELSE IF SampleError(next.sample) # "NONE" THEN Fail(SampleError(next.sample))
      ELSE StoreChecked(next.stream, next.sample)
  BY DEF CheckSample, GeneratedSample, single_circular_stream_next
<1>4. ASSUME next.sample.ok
      PROVE  IsPosition(next.sample.q)
  <2>1. /\ checkStream.initialized /\ checkStream.profile.samples \in 2 .. TimeCapacity
    BY <1>1 DEF OpenedFor
  <2>2. PICK count \in Nat : count = checkStream.profile.samples /\ count >= 2
    BY <2>1
  <2>3. PICK k \in Nat : k = checkStream.next /\ k <= count - 1
    BY <1>1, <2>2
  <2>4. PlaceAt(checkStream, k) \in Int \X Int
    <3>1. \A n \in 1 .. count - 1 : /\ PlaceAt(checkStream, n - 1) \in Int \X Int
                                   /\ PlaceAt(checkStream, n) \in Int \X Int
      BY <1>1, <2>2 DEF IsOnStream, KeepsPace
    <3>2. CASE k = 0
      <4>1. 1 \in 1 .. count - 1 /\ 1 - 1 = k
        BY <2>2, <3>2
      <4>2. PlaceAt(checkStream, 1 - 1) \in Int \X Int
        BY <3>1, <4>1
      <4> QED
        BY <4>1, <4>2
    <3>3. CASE k # 0
      <4>1. k \in 1 .. count - 1
        BY <2>3, <3>3
      <4> QED
        BY <3>1, <4>1
    <3> QED
      BY <3>2, <3>3
  <2>5. ~ (checkStream.next >= checkStream.profile.samples)
    BY <2>2, <2>3
  <2> QED
    BY <1>1, <1>4, <2>1, <2>3, <2>4, <2>5, SampleIsPosition DEF IsOnStream
<1> HIDE DEF next
<1>5. CASE \E error : Fail(error)
  BY <1>5, FailIsSmooth
<1>6. CASE next.sample.ok /\ SampleError(next.sample) = "NONE"
  <2>1. Advanced(checkStream, next) /\ IsPosition(next.sample.q)
    BY <1>2, <1>4, <1>6
  <2>2. StoreChecked(next.stream, next.sample)
    BY <1>3, <1>6
  <2> QED
    BY <1>1, <1>6, <2>1, <2>2, StoreIsSmooth
<1> QED
  BY <1>3, <1>5, <1>6

\* A step that leaves the samples alone and checks nothing more.
LEMMA RestIsSmooth ==
    ASSUME SmoothInv, FinalizeCheck \/ UNCHANGED checkVars
    PROVE  SmoothInv'
<1>1. CASE \E error : Fail(error)
  BY <1>1, FailIsSmooth
<1>2. CASE checkPhase' = "VALID" /\ UNCHANGED <<program, arm, stored>>
  <2>1. IsSmooth(stored)'
    BY <1>2 DEF SmoothInv, IsSmooth, Follows
  <2> QED
    BY <1>2, <2>1 DEF SmoothInv
<1>3. CASE UNCHANGED checkVars
  <2>1. UNCHANGED <<program, arm, checkPhase, segment, checkStream, previous, stored>>
    BY <1>3 DEF checkVars
  <2>2. Piece' = Piece
    BY <2>1 DEF Piece
  <2>3. IsSmooth(stored)' = IsSmooth(stored) /\ IsRemembered' = IsRemembered
    BY <2>1 DEF IsSmooth, Follows, IsRemembered, Last
  <2>4. IsAtSeam' = IsAtSeam /\ IsOnStream' = IsOnStream
    BY <2>1, <2>2 DEF IsAtSeam, IsOnStream, Last
  <2> QED
    BY <2>1, <2>3, <2>4 DEF SmoothInv
<1>4. FinalizeCheck => \/ \E error : Fail(error)
                       \/ checkPhase' = "VALID" /\ UNCHANGED <<program, arm, stored>>
  BY DEF FinalizeCheck
<1> QED
  BY <1>1, <1>2, <1>3, <1>4

\* What was stored keeps the speed of the tool and the limits of the joints, over the
\* seams between the segments too, for every program, arm and configuration: what a
\* sample is compared with is the one that was stored last, however often a segment
\* began since, and the path through the new points of a segment is never longer
\* than the one through the points that were taught.
THEOREM StoredIsSmooth == FairSpec => []StoredTrajectoryIsSmooth
<1>1. FairSpec => Init /\ [][Next]_planningVars
  BY DEF FairSpec
<1>2. Init => CheckInv /\ SmoothInv
  BY CheckInvInit, SmoothInvInit
<1>3. CheckInv /\ SmoothInv /\ [Next]_planningVars => CheckInv' /\ SmoothInv'
  <2> SUFFICES ASSUME CheckInv, SmoothInv, [Next]_planningVars
               PROVE  CheckInv' /\ SmoothInv'
    OBVIOUS
  <2>1. CASE PrepareSegment
    BY <2>1, PrepareIsPrepare, PrepareIsSmooth
  <2>2. CASE CheckSample
    BY <2>2, CheckIsCheck, CheckIsSmooth
  <2>3. CASE FinalizeCheck
    BY <2>3, FinalizeIsFinalize, RestIsSmooth
  <2>4. CASE UNCHANGED checkVars
    BY <2>4, NothingIsChecked, RestIsSmooth
  <2>5. CheckStep \/ UNCHANGED checkVars
    BY DEF Next, planningVars, Validating, Reported, Planner, PanelAndCycle, Moving
  <2> QED
    BY <2>1, <2>2, <2>3, <2>4, <2>5 DEF CheckStep
<1>4. CheckInv /\ SmoothInv => StoredTrajectoryIsSmooth
  <2> SUFFICES ASSUME CheckInv, SmoothInv
               PROVE  StoredTrajectoryIsSmooth
    OBVIOUS
  <2>1. PICK S : stored \in Seq(S)
    BY DEF CheckInv
  <2>2. CASE ~ committed
    <3>1. Len(Replayed) = 0
      BY <2>2 DEF Replayed
    <3> QED
      BY <3>1 DEF StoredTrajectoryIsSmooth, PlaybackKeepsSpeed
  <2>3. CASE committed
    <3>1. Replayed = stored /\ Len(stored) \in Nat
      BY <2>1, <2>3 DEF Replayed
    <3>2. PICK m \in Nat : m = Len(stored)
      BY <3>1
    <3>3. /\ \A n \in 1 .. m : InReach(stored[n])
          /\ \A n \in 2 .. m : Follows(stored[n], stored[n - 1])
          /\ \A n \in 3 .. m : Turns(stored[n], stored[n - 1], stored[n - 2])
      BY <3>2 DEF SmoothInv, IsSmooth
    <3>4. PlaybackKeepsSpeed
      BY <3>1, <3>2, <3>3 DEF PlaybackKeepsSpeed, Follows
    <3>5. ASSUME NEW joint \in 1 .. 2, NEW n \in 1 .. m
          PROVE  /\ stored[n].q[joint] \in Config.lowest .. Config.highest
                 /\ n > 1 => Abs(stored[n].q[joint] - stored[n - 1].q[joint])
                               <= Config.jointSpeed
                 /\ n > 2 => Abs(stored[n].q[joint] - 2 * stored[n - 1].q[joint]
                                   + stored[n - 2].q[joint]) <= Config.jointAcceleration
      <4>1. stored[n].q[joint] \in Config.lowest .. Config.highest
        BY <3>3 DEF InReach
      <4>2. ASSUME n > 1
            PROVE  Abs(stored[n].q[joint] - stored[n - 1].q[joint]) <= Config.jointSpeed
        <5>1. n \in 2 .. m
          BY <4>2
        <5> QED
          BY <3>3, <5>1 DEF Follows
      <4>3. ASSUME n > 2
            PROVE  Abs(stored[n].q[joint] - 2 * stored[n - 1].q[joint]
                         + stored[n - 2].q[joint]) <= Config.jointAcceleration
        <5>1. n \in 3 .. m
          BY <4>3
        <5> QED
          BY <3>3, <5>1 DEF Turns
      <4> QED
        BY <4>1, <4>2, <4>3
    <3> QED
      BY <3>1, <3>2, <3>4, <3>5 DEF StoredTrajectoryIsSmooth
  <2> QED
    BY <2>2, <2>3
<1> QED
  BY <1>1, <1>2, <1>3, <1>4, PTL

-----------------------------------------------------------------------------
(* The samples of a line that is planned all at once.                      *)

\* The arrays select the shape that the profile selects.
LEMMA ShapesAgree ==
    ASSUME NEW l, {l.v, l.a, l.j, l.d} \subseteq Nat \ {0}
    PROVE  ScalingShape(l) = ShapeOf(l)
<1>1. PICK v \in Nat, a \in Nat, j \in Nat, d \in Nat :
          v = l.v /\ a = l.a /\ j = l.j /\ d = l.d
  OBVIOUS
<1>2. v * j \in Nat /\ a * a \in Nat
  OBVIOUS
<1>3. (v * j >= a * a) <=> ~ (v * j < a * a)
  BY <1>2
<1>4. (l.v * l.j >= l.a * l.a) <=> ~ (l.v * l.j < l.a * l.a)
  BY <1>1, <1>3
<1>5. CASE l.v * l.j < l.a * l.a
  BY <1>4, <1>5, Zenon DEF ScalingShape, ShapeOf
<1>6. CASE ~ (l.v * l.j < l.a * l.a)
  BY <1>4, <1>6, Zenon DEF ScalingShape, ShapeOf
<1> QED
  BY <1>5, <1>6

\* They have a time for every sample of the profile.
LEMMA ScalingTimesAreSampleTimes ==
    ASSUME NEW duration \in Nat \ {0}, NEW dt \in Nat \ {0}
    PROVE  LET times == ScalingTimes(duration, dt)
               many == SamplesOf(duration, dt)
           IN /\ many \in Nat /\ many >= 2
              /\ Len(times) = many
              /\ times[many] = duration
              /\ \A i \in 1 .. many - 1 : times[i] = (i - 1) * dt
              /\ \A i \in 2 .. many - 1 : times[i] \in 1 .. duration - 1
<1> DEFINE q == duration \div dt
           regular == q + 1
           steps == [i \in 1 .. regular |-> (i - 1) * dt]
           times == ScalingTimes(duration, dt)
           many == SamplesOf(duration, dt)
<1>1. q \in Nat /\ dt * q <= duration /\ duration < dt * (q + 1)
  OBVIOUS
<1>2. times = IF steps[regular] < duration THEN Append(steps, duration) ELSE steps
  BY DEF ScalingTimes
<1>3. many = IF (regular - 1) * dt < duration THEN regular + 1 ELSE regular
  BY DEF SamplesOf
<1> HIDE DEF q, times, many
<1>4. regular \in Nat \ {0} /\ regular - 1 = q
  BY <1>1
<1>5. steps[regular] = q * dt /\ q * dt \in Nat /\ q * dt <= duration
  BY <1>1, <1>4
<1>6. steps \in Seq(Int) /\ Len(steps) = regular
  BY <1>4
<1>7. \A i \in 1 .. regular : steps[i] = (i - 1) * dt
  OBVIOUS
<1>8. \A i \in 2 .. q : (i - 1) * dt \in 1 .. duration - 1
  <2> TAKE i \in 2 .. q
  <2>1. PICK n \in Nat \ {0}, m \in Nat \ {0} : n = i - 1 /\ q = n + m
    <3>1. i - 1 \in Nat \ {0} /\ q - (i - 1) \in Nat \ {0} /\ q = (i - 1) + (q - (i - 1))
      BY <1>1
    <3> QED
      BY <3>1
  <2>2. PICK x \in Nat \ {0}, y \in Nat \ {0} : x = n * dt /\ y = m * dt
    OBVIOUS
  <2>3. q * dt = x + y
    BY <2>1, <2>2
  <2>4. x \in 1 .. duration - 1
    BY <1>5, <2>2, <2>3
  <2> QED
    BY <2>1, <2>2, <2>4
<1> HIDE DEF steps, regular
<1>9. CASE q * dt < duration
  <2>1. times = Append(steps, duration) /\ many = regular + 1
    BY <1>2, <1>3, <1>4, <1>5, <1>9
  <2>2. Len(times) = many /\ times[many] = duration
    BY <1>4, <1>6, <2>1
  <2>3. \A i \in 1 .. regular : times[i] = steps[i]
    BY <1>6, <2>1
  <2>7. many - 1 = regular /\ many \in Nat
    BY <1>4, <2>1
  <2>4. \A i \in 1 .. many - 1 : times[i] = (i - 1) * dt
    BY <1>7, <2>3, <2>7
  <2>5. \A i \in 2 .. many - 1 : times[i] \in 1 .. duration - 1
    <3> TAKE i \in 2 .. many - 1
    <3>4. i \in 1 .. many - 1
      BY <2>7
    <3>1. times[i] = (i - 1) * dt
      BY <2>4, <3>4
    <3>2. CASE i = regular
      <4>1. i - 1 = q /\ q \in Nat \ {0}
        BY <1>1, <1>4, <3>2
      <4>2. q * dt \in Nat \ {0}
        BY <4>1
      <4> QED
        BY <1>9, <3>1, <4>1, <4>2
    <3>3. CASE i # regular
      <4>1. i \in 2 .. q
        BY <1>1, <1>4, <2>1, <3>3
      <4> QED
        BY <1>8, <3>1, <4>1
    <3> QED
      BY <3>2, <3>3
  <2>6. many \in Nat /\ many >= 2
    BY <1>4, <2>1
  <2> QED
    BY <2>2, <2>4, <2>5, <2>6 DEF times, many
<1>10. CASE ~ (q * dt < duration)
  <2>7. PICK x \in Nat : x = q * dt
    BY <1>5
  <2>8. x = duration
    BY <1>5, <1>10, <2>7
  <2>1. times = steps /\ many = regular /\ q * dt = duration
    BY <1>2, <1>3, <1>4, <1>5, <1>10, <2>7, <2>8
  <2>2. Len(times) = many /\ times[many] = duration
    BY <1>5, <1>6, <2>1
  <2>3. q # 0
    BY <2>1
  <2>4. \A i \in 1 .. many - 1 : times[i] = (i - 1) * dt
    BY <1>4, <1>7, <2>1
  <2>5. \A i \in 2 .. many - 1 : times[i] \in 1 .. duration - 1
    <3> TAKE i \in 2 .. many - 1
    <3>1. i \in 2 .. q /\ i \in 1 .. many - 1
      BY <1>1, <1>4, <2>1
    <3> QED
      BY <1>8, <2>4, <3>1
  <2>6. many \in Nat /\ many >= 2
    BY <1>1, <1>4, <2>1, <2>3
  <2> QED
    BY <2>2, <2>4, <2>5, <2>6 DEF times, many
<1> QED
  BY <1>9, <1>10

\* The segment they find a time in is the one the profile finds.
LEMMA SegmentsAgree ==
    ASSUME NEW j \in Nat, NEW T \in Nat \ {0}, NEW A \in Nat, NEW V \in Nat,
           NEW p, IsAlong(p, j, T, A, V),
           NEW t \in 1 .. p.duration - 1
    PROVE  ScalingMotion(Holds(T, A, V), p.starts, JerksOf(j), t) = Motion(p, t)
<1> DEFINE c == Corners(j, T, A, V)
           lasting == Holds(T, A, V)
           later == {k \in 1 .. 7 : t <= p.starts[k].t + lasting[k]}
           n == SegmentAt(p, t)
<1>1. \A k \in 1 .. 8 : p.starts[k] = c[k]
  BY DEF IsAlong
<1>2. \A k \in 1 .. 7 : c[k].t + lasting[k] = c[k + 1].t
  <2> TAKE k \in 1 .. 7
  <2>1. MeetsCorners(j, T, A, V, k)
    BY SegmentMeetsCorners
  <2> HIDE DEF c, lasting
  <2> QED
    BY <2>1 DEF MeetsCorners, c, lasting
<1>3. \A k \in 1 .. 8 : c[k].t \in Nat
  <2>1. c[8].t \in Nat
    BY DEF Corners, At, AtRest
  <2>2. \A k \in 1 .. 7 : c[k].t \in Nat
    BY SegmentMeetsCorners DEF MeetsCorners
  <2> HIDE DEF c
  <2> QED
    BY <2>1, <2>2
<1>4. \A k \in 1 .. 8, m \in 1 .. 8 : k <= m => c[k].t <= c[m].t
  <2>1. ASSUME NEW k \in 1 .. 8, NEW m \in 1 .. 8, k <= m
        PROVE  InOrder(Corners(j, T, A, V), k, m)
    BY <2>1, CornersAtATime
  <2> HIDE DEF c
  <2> QED
    BY <2>1 DEF InOrder, c
<1>5. p.duration = c[8].t /\ p.duration \in Nat
  BY <1>3 DEF IsAlong
<1>6. t \in 1 .. c[8].t /\ t < p.duration /\ t \in Nat
  BY <1>5
<1>7. n \in 1 .. 7 /\ c[n].t < t /\ t <= c[n + 1].t
  BY <1>6, SegmentFound
<1> HIDE DEF c, lasting, n
<1>8. \A k \in 1 .. 7 : k \in later <=> t <= c[k + 1].t
  <2> TAKE k \in 1 .. 7
  <2>1. k \in 1 .. 8 /\ p.starts[k].t + lasting[k] = c[k + 1].t
    BY <1>1, <1>2
  <2> QED
    BY <2>1
<1>9. n \in later
  BY <1>7, <1>8
<1>10. ASSUME NEW m \in later
       PROVE  n <= m
  <2>1. m \in 1 .. 7 /\ t <= c[m + 1].t
    BY <1>8
  <2>2. CASE m < n
    <3>1. m + 1 \in 1 .. 8 /\ n \in 1 .. 8 /\ m + 1 <= n
      BY <1>7, <2>1, <2>2
    <3>2. c[m + 1].t <= c[n].t
      BY <1>4, <3>1
    <3>3. c[m + 1].t \in Nat /\ c[n].t \in Nat
      BY <1>3, <3>1
    <3> QED
      BY <1>6, <1>7, <2>1, <3>2, <3>3
  <2> QED
    BY <1>7, <2>1, <2>2
<1> DEFINE segment1 == CHOOSE k \in later : \A m \in later : k <= m
<1>11. segment1 = n
  <2>1. segment1 \in later /\ \A m \in later : segment1 <= m
    BY <1>9, <1>10
  <2>2. segment1 <= n /\ n <= segment1
    BY <1>9, <1>10, <2>1
  <2>3. segment1 \in 1 .. 7
    BY <2>1
  <2> HIDE DEF segment1
  <2> QED
    BY <1>7, <2>2, <2>3
<1>12. ScalingMotion(lasting, p.starts, JerksOf(j), t)
         = After(p.starts[segment1], t - p.starts[segment1].t, JerksOf(j)[segment1])
  BY DEF ScalingMotion
<1>13. Motion(p, t) = After(p.starts[n], t - p.starts[n].t, Jerks(p.limits)[n])
  BY DEF Motion, n
<1>14. Jerks(p.limits) = JerksOf(j)
  BY DEF IsAlong
<1> HIDE DEF segment1
<1> QED
  BY <1>11, <1>12, <1>13, <1>14 DEF lasting

\* The motions of a profile at its samples.
MotionsOf(profile) == [i \in 1 .. profile.samples |-> EvaluateIndex(profile, i - 1)]

\* The two implementations of the profile, the one that is evaluated sample by
\* sample and the one that fills arrays, agree.
LEMMA ScalingIsProfile ==
    ASSUME NEW l, NEW dt \in Nat \ {0}, NEW capacity, IsWhole(l),
           ~ (ProfileOf(l, dt).samples > capacity)
    PROVE  TimeScaling(l, dt, capacity)
             = [ok |-> TRUE, samples |-> MotionsOf(ProfileOf(l, dt))]
<1> DEFINE p == ProfileOf(l, dt)
           lasting == Durations(ShapeOf(l))
           origin == StartsFrom(lasting, Jerks(l))
           times == ScalingTimes(ScalingDuration(lasting), dt)
<1>1. {l.v, l.a, l.j, l.d} \subseteq Nat \ {0}
  BY DEF IsWhole
<1>2. ScalingShape(l) = ShapeOf(l)
  BY <1>1, ShapesAgree
<1>3. IsShapeFor(ShapeOf(l), l)
  BY ShapeFits
<1>4. PICK j \in Nat \ {0}, T \in Nat \ {0}, A \in Nat, V \in Nat :
          j = l.j /\ T = ShapeOf(l).tJ /\ A = ShapeOf(l).tA /\ V = ShapeOf(l).tV
  BY <1>1, <1>3 DEF IsShapeFor
<1>5. IsAlong(p, j, T, A, V)
  BY <1>1, <1>3, <1>4, ProfileIsAlong
<1>6. lasting = Holds(T, A, V) /\ Jerks(l) = JerksOf(j)
  BY <1>4 DEF Durations, Holds, Jerks, JerksOf
<1>7. /\ p.starts = origin /\ p.limits = l /\ p.dt = dt
      /\ p.samples = SamplesOf(p.duration, dt)
  BY DEF ProfileOf, ProfileFrom, SegmentStarts
<1>8. p.duration = ScalingDuration(lasting) /\ p.duration \in Nat \ {0}
  <2>1. p.duration = 4 * T + 2 * A + V
    <3>1. p.duration = Corners(j, T, A, V)[8].t
      BY <1>5 DEF IsAlong
    <3> QED
      BY <3>1 DEF Corners, At
  <2>2. ScalingDuration(Holds(T, A, V)) = 4 * T + 2 * A + V
    BY DEF ScalingDuration, Holds
  <2> HIDE DEF p, lasting
  <2> QED
    BY <1>6, <2>1, <2>2
<1>9. TimeScaling(l, dt, capacity)
        = IF Len(times) > capacity THEN NoScaling
          ELSE [ok |-> TRUE, samples |-> ScaledAlong(times, lasting, origin, l)]
  BY <1>2 DEF TimeScaling
<1> DEFINE many == p.samples
<1>10. /\ many \in Nat /\ many >= 2
       /\ Len(times) = many
       /\ times[many] = p.duration
       /\ \A i \in 1 .. many - 1 : times[i] = (i - 1) * dt
       /\ \A i \in 2 .. many - 1 : times[i] \in 1 .. p.duration - 1
  <2>1. times = ScalingTimes(p.duration, dt) /\ many = SamplesOf(p.duration, dt)
    BY <1>7, <1>8
  <2>2. p.duration \in Nat \ {0}
    BY <1>8
  <2>3. ASSUME NEW duration, duration = p.duration
        PROVE  LET written == ScalingTimes(duration, dt)
               IN /\ SamplesOf(duration, dt) \in Nat /\ SamplesOf(duration, dt) >= 2
                  /\ Len(written) = SamplesOf(duration, dt)
                  /\ written[SamplesOf(duration, dt)] = duration
                  /\ \A i \in 1 .. SamplesOf(duration, dt) - 1 : written[i] = (i - 1) * dt
                  /\ \A i \in 2 .. SamplesOf(duration, dt) - 1 :
                        written[i] \in 1 .. duration - 1
    <3>1. duration \in Nat \ {0}
      BY <2>2, <2>3
    <3> HIDE DEF p, lasting, times, many
    <3> QED
      BY ONLY <3>1, dt \in Nat \ {0}, ScalingTimesAreSampleTimes
  <2> HIDE DEF p, lasting, times, many
  <2> QED
    BY <2>1, <2>3
<1>11. ScaledAlong(times, lasting, origin, l)
         = [i \in 1 .. Len(times) |->
               IF i = Len(times) THEN [t |-> times[i], s |-> Sixths * l.d, v |-> 0, a |-> 0]
               ELSE IF i = 1 THEN AtRest
               ELSE ScalingMotion(lasting, origin, Jerks(l), times[i])]
  BY DEF ScaledAlong
<1>12. ~ (many > capacity)
  OBVIOUS
<1> HIDE DEF p, lasting, origin, times
<1>13. ASSUME NEW i \in 1 .. many
       PROVE  EvaluateIndex(p, i - 1)
                = IF i = many THEN [t |-> times[i], s |-> Sixths * l.d, v |-> 0, a |-> 0]
                  ELSE IF i = 1 THEN AtRest
                  ELSE ScalingMotion(lasting, origin, Jerks(l), times[i])
  <2>1. SampleTime(p, i - 1) = times[i]
    <3>1. CASE i = many
      BY <1>10, <3>1 DEF SampleTime
    <3>2. CASE i # many
      <4>1. i \in 1 .. many - 1 /\ i - 1 # p.samples - 1
        BY <1>10, <3>2
      <4> QED
        BY <1>7, <1>10, <4>1 DEF SampleTime
    <3> QED
      BY <3>1, <3>2
  <2>2. CASE i = many
    <3>1. ~ (p.duration < 0) /\ ~ (p.duration > p.duration) /\ p.duration >= p.duration
      BY <1>8
    <3>2. Evaluate(p, p.duration)
            = [t |-> p.duration, s |-> Sixths * p.limits.d, v |-> 0, a |-> 0]
      BY <3>1 DEF Evaluate
    <3> QED
      BY <1>7, <1>10, <2>1, <2>2, <3>2 DEF EvaluateIndex
  <2>3. CASE i = 1 /\ i # many
    <3>1. 1 \in 1 .. many - 1 /\ times[1] = (1 - 1) * dt
      BY <1>10
    <3>2. times[1] = 0
      BY <3>1
    <3>3. ~ (0 < 0) /\ ~ (0 > p.duration) /\ ~ (0 >= p.duration) /\ 0 <= 0
      BY <1>8
    <3>4. Evaluate(p, 0) = AtRest
      BY <3>3 DEF Evaluate
    <3> QED
      BY <2>1, <2>3, <3>2, <3>4 DEF EvaluateIndex
  <2>4. CASE i # 1 /\ i # many
    <3>1. i \in 2 .. many - 1
      BY <1>10, <2>4
    <3>2. PICK t \in 1 .. p.duration - 1 : t = times[i]
      BY <1>10, <3>1
    <3>3. ~ (t < 0) /\ ~ (t > p.duration) /\ ~ (t >= p.duration) /\ ~ (t <= 0)
      BY <1>8
    <3>4. Evaluate(p, t) = Motion(p, t)
      BY <3>3 DEF Evaluate
    <3>5. ScalingMotion(Holds(T, A, V), p.starts, JerksOf(j), t) = Motion(p, t)
      BY <1>5, SegmentsAgree
    <3> QED
      BY <1>6, <1>7, <2>1, <2>4, <3>2, <3>4, <3>5 DEF EvaluateIndex
  <2> QED
    BY <2>2, <2>3, <2>4
<1> HIDE DEF many
<1>14. [i \in 1 .. many |-> EvaluateIndex(p, i - 1)]
         = ScaledAlong(times, lasting, origin, l)
  BY <1>10, <1>11, <1>13
<1>15. MotionsOf(p) = [i \in 1 .. many |-> EvaluateIndex(p, i - 1)]
  BY DEF MotionsOf, many
<1>16. TimeScaling(l, dt, capacity) = [ok |-> TRUE, samples |-> MotionsOf(p)]
  BY <1>9, <1>10, <1>12, <1>14, <1>15
<1> QED
  BY <1>16 DEF p

-----------------------------------------------------------------------------
(* The solutions along a line.                                             *)

\* The place of a motion, and the solution for it from the one before.
PlaceAlong(path, movement) == arc_length_interpolate(path.points, path.along, movement.s)

SolvedFrom(behaviour, place, last) ==
    IF last = NoSolution THEN last ELSE adls_ik(behaviour, place, last)

\* A function that fulfils the recursive definition of the solutions.
IsSolution(f, path, times, seed, behaviour, m) ==
    f = [i \in 0 .. m |->
            LET last == IF i = 0 THEN seed ELSE f[i - 1]
            IN IF i = 0 \/ last = NoSolution THEN last
               ELSE adls_ik(behaviour,
                            arc_length_interpolate(path.points, path.along, times[i].s),
                            last)]

\* There is one.
LEMMA SolutionsExist ==
    ASSUME NEW path, NEW times, NEW seed, NEW behaviour, NEW m \in Nat
    PROVE  \E f : IsSolution(f, path, times, seed, behaviour, m)
<1> DEFINE Is(f, i) == IsSolution(f, path, times, seed, behaviour, i)
           Without == {i \in Nat : ~ \E f : Is(f, i)}
           step(i, last) == SolvedFrom(behaviour, PlaceAlong(path, times[i]), last)
           Follows1(f, i) == \A k \in 0 .. i : f[k] = IF k = 0 THEN seed
                                                      ELSE step(k, f[k - 1])
<1>1. ASSUME NEW f, NEW i \in Nat
      PROVE  Is(f, i) <=> (f = [k \in 0 .. i |-> f[k]] /\ Follows1(f, i))
  <2> DEFINE rule(k) == LET last == IF k = 0 THEN seed ELSE f[k - 1]
                        IN IF k = 0 \/ last = NoSolution THEN last
                           ELSE adls_ik(behaviour,
                                        arc_length_interpolate(path.points, path.along,
                                                               times[k].s),
                                        last)
  <2>1. \A k \in 0 .. i : rule(k) = IF k = 0 THEN seed ELSE step(k, f[k - 1])
    BY DEF SolvedFrom, PlaceAlong
  <2>2. Is(f, i) <=> f = [k \in 0 .. i |-> rule(k)]
    BY DEF IsSolution
  <2> HIDE DEF Is, rule, step
  <2>3. ASSUME f = [k \in 0 .. i |-> rule(k)]
        PROVE  f = [k \in 0 .. i |-> f[k]] /\ Follows1(f, i)
    BY <2>1, <2>3
  <2>4. ASSUME f = [k \in 0 .. i |-> f[k]], Follows1(f, i)
        PROVE  f = [k \in 0 .. i |-> rule(k)]
    BY <2>1, <2>4
  <2> QED
    BY <2>2, <2>3, <2>4
<1> HIDE DEF Is, step
<1>2. \E f : Is(f, 0)
  <2> DEFINE g == [k \in 0 .. 0 |-> seed]
  <2>1. Follows1(g, 0) /\ g = [k \in 0 .. 0 |-> g[k]]
    OBVIOUS
  <2> HIDE DEF g, Follows1
  <2>2. Is(g, 0)
    BY <1>1, <2>1
  <2> QED
    BY <2>2
<1>3. ASSUME NEW i \in Nat, \E f : Is(f, i)
      PROVE  \E f : Is(f, i + 1)
  <2>1. PICK f : Is(f, i)
    BY <1>3
  <2> DEFINE g == [k \in 0 .. i + 1 |-> IF k = i + 1 THEN step(i + 1, f[i]) ELSE f[k]]
  <2>2. Follows1(f, i)
    BY <1>1, <2>1
  <2>3. Follows1(g, i + 1)
    BY <2>2
  <2>4. g = [k \in 0 .. i + 1 |-> g[k]]
    OBVIOUS
  <2> HIDE DEF g, Follows1
  <2>5. i + 1 \in Nat
    OBVIOUS
  <2>6. Is(g, i + 1)
    BY <1>1, <2>3, <2>4, <2>5
  <2> QED
    BY <2>6
<1>4. ASSUME Without # {}
      PROVE  FALSE
  <2>1. PICK i \in Without : \A k \in Without : ~ (k < i)
    BY <1>4, SmallestOf
  <2>2. i \in Nat /\ i # 0
    BY <1>2, <2>1
  <2>3. i - 1 \in Nat /\ i - 1 < i /\ (i - 1) + 1 = i
    BY <2>2
  <2>4. \E f : Is(f, i - 1)
    BY <2>1, <2>3
  <2> QED
    BY <1>3, <2>1, <2>3, <2>4
<1>5. \E f : Is(f, m)
  BY <1>4
<1> QED
  BY <1>5 DEF Is

\* The samples of a line, each with the solution that follows from the one before
\* it; behind a place without a solution there are none.
IsSolved(solved, path, times, seed, behaviour) ==
    /\ Len(solved) = Len(times)
    /\ \A i \in 1 .. Len(times) :
          /\ solved[i].q = SolvedFrom(behaviour, PlaceAlong(path, times[i]),
                                      IF i = 1 THEN seed ELSE solved[i - 1].q)
          /\ solved[i] = [ok |-> TRUE, index |-> i - 1, t |-> times[i].t,
                          s |-> times[i].s, speed |-> times[i].v,
                          place |-> PlaceAlong(path, times[i]), q |-> solved[i].q]

\* So the planner that gives a line all at once has them.
LEMMA SolvedIsSolved ==
    ASSUME NEW path, NEW times, NEW seed, NEW behaviour, Len(times) \in Nat
    PROVE  IsSolved(SolvedAlong(path, times, seed, behaviour), path, times, seed, behaviour)
<1> DEFINE m == Len(times)
           solution == CHOOSE f : IsSolution(f, path, times, seed, behaviour, m)
           solved == SolvedAlong(path, times, seed, behaviour)
<1>1. solved = [i \in 1 .. m |->
                   [ok |-> TRUE, index |-> i - 1, t |-> times[i].t, s |-> times[i].s,
                    speed |-> times[i].v,
                    place |-> arc_length_interpolate(path.points, path.along, times[i].s),
                    q |-> solution[i]]]
  BY DEF SolvedAlong, IsSolution
<1>2. IsSolution(solution, path, times, seed, behaviour, m)
  <2> HIDE DEF m
  <2>1. \E f : IsSolution(f, path, times, seed, behaviour, m)
    BY SolutionsExist DEF m
  <2> QED
    BY <2>1
<1> HIDE DEF solution, solved
<1>3. \A i \in 0 .. m : solution[i] = LET last == IF i = 0 THEN seed ELSE solution[i - 1]
                                      IN IF i = 0 \/ last = NoSolution THEN last
                                         ELSE adls_ik(behaviour,
                                                 arc_length_interpolate(path.points,
                                                                        path.along,
                                                                        times[i].s),
                                                 last)
  BY <1>2 DEF IsSolution
<1>4. solution[0] = seed
  BY <1>3
<1>5. ASSUME NEW i \in 1 .. m
      PROVE  solution[i] = SolvedFrom(behaviour, PlaceAlong(path, times[i]), solution[i - 1])
  BY <1>3 DEF SolvedFrom, PlaceAlong
<1>6. ASSUME NEW i \in 1 .. m
      PROVE  solved[i] = [ok |-> TRUE, index |-> i - 1, t |-> times[i].t,
                          s |-> times[i].s, speed |-> times[i].v,
                          place |-> PlaceAlong(path, times[i]), q |-> solution[i]]
  BY <1>1 DEF PlaceAlong
<1>7. Len(solved) = m
  BY <1>1
<1>8. ASSUME NEW i \in 1 .. m
      PROVE  solved[i].q = solution[i]
  <2>1. solved[i] = [ok |-> TRUE, index |-> i - 1, t |-> times[i].t, s |-> times[i].s,
                     speed |-> times[i].v, place |-> PlaceAlong(path, times[i]),
                     q |-> solution[i]]
    BY <1>6
  <2> QED
    BY <2>1
<1>9. ASSUME NEW i \in 1 .. m
      PROVE  solution[i - 1] = IF i = 1 THEN seed ELSE solved[i - 1].q
  <2>1. CASE i = 1
    BY <1>4, <2>1
  <2>2. CASE i # 1
    <3>1. i - 1 \in 1 .. m
      BY <2>2
    <3> QED
      BY <1>8, <2>2, <3>1
  <2> QED
    BY <2>1, <2>2
<1> QED
  BY <1>5, <1>6, <1>7, <1>8, <1>9 DEF IsSolved, m, solved

-----------------------------------------------------------------------------
(* One line, sample by sample and all at once.                             *)

\* The line over a path, sample by sample and all at once: the requests differ in
\* nothing but the seed.
SameLine(r, s) ==
    /\ r.points = s.points /\ r.speed = s.speed /\ r.acceleration = s.acceleration
    /\ r.jerk = s.jerk /\ r.dt = s.dt /\ r.count = s.count /\ r.spacing = s.spacing
    /\ r.capacity = s.capacity

\* A stream that gives samples, and the plan that has them all.
IsWholeLine(stream, seed, behaviour, plans) ==
    /\ stream.profile.samples \in Nat /\ stream.profile.samples >= 2
    /\ plans = PlanOf(SolvedAlong(stream.path, MotionsOf(stream.profile), seed, behaviour))

\* A request gives its line in both forms, with the same samples, or in neither.
LEMMA LineAllAtOnce ==
    ASSUME NEW request, HasWholeProfile(single_line_stream_init(request)),
           single_line_stream_init(request).initialized =>
               /\ request.dt \in Nat \ {0}
               /\ single_line_stream_init(request).profile.samples <= TimeCapacity,
           NEW other, SameLine(other, request), NEW behaviour
    PROVE  LET stream == single_line_stream_init(request)
               plans == plan_single_segment_line(other, behaviour, TimeCapacity)
           IN /\ stream.initialized => IsWholeLine(stream, other.seed, behaviour, plans)
              /\ ~ stream.initialized => plans = NoPlan
<1> DEFINE stream == single_line_stream_init(request)
           plans == plan_single_segment_line(other, behaviour, TimeCapacity)
           points == generate_line_waypoints(request.points[1], request.points[2],
                                             request.count)
           path == arc_length_parameterize(points, request.spacing, request.capacity)
           refused == ~ Positive(request) \/ request.count < 2
                      \/ request.count > request.capacity
           limits == LimitsOf(path, request)
           profile == ProfileOf(limits, request.dt)
<1>1. Positive(other) <=> Positive(request)
  BY DEF SameLine, Positive
<1>2. stream = IF refused THEN Failed("INVALID_ARGUMENT") ELSE StreamOver(path, request)
  BY DEF single_line_stream_init, StreamAlong
<1>3. plans = IF refused THEN NoPlan ELSE PlanAlong(path, other, behaviour, TimeCapacity)
  BY <1>1 DEF plan_single_segment_line, SameLine
<1>4. LimitsOf(path, other) = limits /\ other.dt = request.dt
  BY DEF LimitsOf, SameLine
<1>5. CASE refused \/ ~ path.ok \/ path.total = 0
  <2>1. plans = NoPlan
    <3> HIDE DEF plans, refused, path
    <3> QED
      BY <1>3, <1>5 DEF PlanAlong
  <2>2. stream \in {Failed("INVALID_ARGUMENT"), Failed("GEOMETRY_FAILED")}
    <3> HIDE DEF stream, refused, path
    <3> QED
      BY <1>2, <1>5 DEF StreamOver
  <2>3. ~ stream.initialized
    BY <2>2 DEF Failed, NoStream
  <2> HIDE DEF stream, plans
  <2> QED
    BY <2>1, <2>3 DEF stream, plans
<1>6. CASE ~ refused /\ path.ok /\ path.total # 0
  <2> DEFINE whole == [status |-> "OK", initialized |-> TRUE, finished |-> FALSE,
                       next |-> 0, seed |-> request.seed, path |-> path,
                       profile |-> profile]
             scaling == TimeScaling(limits, request.dt, TimeCapacity)
  <2>1. stream = whole
    <3>1. StreamOver(path, request) = whole
      BY <1>6 DEF StreamOver
    <3> HIDE DEF whole, stream, refused, path
    <3> QED
      BY <1>2, <1>6, <3>1
  <2>2. /\ whole.initialized = TRUE /\ whole.profile = profile /\ whole.path = path
    BY Zenon
  <2>3. stream.initialized /\ stream.profile = profile /\ stream.path = path
    <3> HIDE DEF whole, stream, profile, path
    <3> QED
      BY <2>1, <2>2
  <2>4. plans = IF ~ scaling.ok THEN NoPlan
                ELSE PlanOf(SolvedAlong(path, scaling.samples, other.seed, behaviour))
    <3>1. plans = PlanScaled(path, scaling, other, behaviour)
      <4> HIDE DEF plans, refused, path, limits
      <4> QED
        BY <1>3, <1>4, <1>6 DEF PlanAlong
    <3> HIDE DEF plans, scaling
    <3> QED
      BY <3>1 DEF PlanScaled
  <2>5. profile.limits = limits
    BY DEF ProfileOf, ProfileFrom
  <2> HIDE DEF whole, stream, plans, path, limits, profile
  <2>6. IsWhole(limits) /\ request.dt \in Nat \ {0} /\ profile.samples <= TimeCapacity
    BY <2>3, <2>5 DEF HasWholeProfile, stream
  <2>7. profile.samples \in Nat /\ profile.samples >= 2
    BY <2>6, SamplesOfProfile DEF profile
  <2>8. ~ (profile.samples > TimeCapacity)
    BY <2>6, <2>7, ConfigAssumption DEF ConfigAssumption
  <2>9. scaling = [ok |-> TRUE, samples |-> MotionsOf(profile)]
    BY <2>6, <2>8, ScalingIsProfile DEF profile
  <2> HIDE DEF scaling
  <2>10. plans = PlanOf(SolvedAlong(path, MotionsOf(profile), other.seed, behaviour))
    BY <2>4, <2>9
  <2>11. IsWholeLine(stream, other.seed, behaviour, plans)
    BY <2>3, <2>7, <2>10 DEF IsWholeLine
  <2> QED
    BY <2>3, <2>11 DEF stream, plans
<1> QED
  BY <1>5, <1>6

\* The stream of the plan in work, and its samples as they are solved along it.
First == Opened(plan)
Many == First.profile.samples
Solved == SolvedAlong(First.path, MotionsOf(First.profile), plan.seed, solver)

\* The plan in work, sample by sample and all at once.
IsPlanned ==
    /\ DOMAIN First = StreamFields
    /\ First.initialized =>
          /\ First.next = 0 /\ First.finished = FALSE /\ First.seed = plan.seed
          /\ Many \in 2 .. TimeCapacity
          /\ IsSolved(Solved, First.path, MotionsOf(First.profile), plan.seed, solver)
          /\ Len(Solved) = Many
          /\ Batch = PlanOf(Solved)
    /\ ~ First.initialized => Batch = NoPlan

\* Every plan of the earlier simulator is one line, in its two forms.
LEMMA PlansArePlanned == plan.path \in Plans => IsPlanned
<1> SUFFICES ASSUME plan.path \in Plans
             PROVE  IsPlanned
  OBVIOUS
<1> DEFINE request == plan.path
           stream == single_line_stream_init(request)
           other == [request EXCEPT !.seed = plan.seed]
<1>1. IsPlan(request)
  BY PlansAssumption DEF PlansAssumption
<1>2. DOMAIN request = RequestFields /\ HasWholeProfile(stream)
  BY <1>1 DEF IsPlan
<1>3. stream.initialized => /\ request.dt \in Nat \ {0}
                            /\ stream.profile.samples <= TimeCapacity
  BY <1>1 DEF IsPlan
<1>4. SameLine(other, request) /\ other.seed = plan.seed
  <2> HIDE DEF request
  <2> QED
    BY <1>2 DEF SameLine, RequestFields
<1>5. First = [stream EXCEPT !.seed = plan.seed]
  BY DEF First, Opened, Streams
<1>6. DOMAIN stream = StreamFields
  BY <1>2, StreamFollows DEF FollowsProfile
<1>7. stream.initialized => stream.next = 0 /\ stream.finished = FALSE
  <2>1. \/ stream = Failed("INVALID_ARGUMENT") \/ stream = Failed("GEOMETRY_FAILED")
        \/ \E path : stream = [status |-> "OK", initialized |-> TRUE, finished |-> FALSE,
                               next |-> 0, seed |-> request.seed, path |-> path,
                               profile |-> ProfileOf(LimitsOf(path, request), request.dt)]
    BY Zenon DEF single_line_stream_init, StreamAlong, StreamOver
  <2> HIDE DEF stream
  <2> QED
    BY <2>1 DEF Failed, NoStream
<1>8. Batch = plan_single_segment_line(other, solver, TimeCapacity)
  BY DEF Batch
<1> HIDE DEF request
<1>9. /\ stream.initialized => IsWholeLine(stream, other.seed, solver, Batch)
      /\ ~ stream.initialized => Batch = NoPlan
  BY <1>2, <1>3, <1>4, <1>8, LineAllAtOnce
<1> HIDE DEF stream, other
<1>10. /\ DOMAIN First = StreamFields /\ First.initialized = stream.initialized
       /\ First.next = stream.next /\ First.finished = stream.finished
       /\ First.path = stream.path /\ First.profile = stream.profile
       /\ First.seed = plan.seed
  BY <1>5, <1>6 DEF StreamFields
<1> HIDE DEF First
<1>11. ASSUME First.initialized
       PROVE  /\ Many \in 2 .. TimeCapacity
              /\ IsSolved(Solved, First.path, MotionsOf(First.profile), plan.seed, solver)
              /\ Len(Solved) = Many
              /\ Batch = PlanOf(Solved)
  <2>1. /\ Many \in Nat /\ Many >= 2
        /\ Batch = PlanOf(Solved)
    BY <1>4, <1>9, <1>10, <1>11 DEF IsWholeLine, Many, Solved
  <2>2. Many <= TimeCapacity
    BY <1>3, <1>10, <1>11 DEF Many
  <2>3. Many \in 2 .. TimeCapacity
    BY <2>1, <2>2, ConfigAssumption DEF ConfigAssumption
  <2>4. Len(MotionsOf(First.profile)) = Many
    BY <2>1 DEF MotionsOf, Many
  <2>5. IsSolved(Solved, First.path, MotionsOf(First.profile), plan.seed, solver)
    BY <2>1, <2>4, SolvedIsSolved DEF Solved
  <2> QED
    BY <2>1, <2>3, <2>4, <2>5 DEF IsSolved
<1> QED
  BY <1>7, <1>9, <1>10, <1>11 DEF IsPlanned

-----------------------------------------------------------------------------
(* A stream on its way.                                                    *)

\* A stream of the plan in work that has given the first k samples of the line.
Reached(stream, k) ==
    /\ First.initialized
    /\ k \in 0 .. Many
    /\ DOMAIN stream = StreamFields
    /\ stream.initialized
    /\ stream.path = First.path /\ stream.profile = First.profile
    /\ stream.next = k
    /\ stream.finished <=> k = Many
    /\ stream.seed = IF k = 0 THEN plan.seed ELSE Solved[k].q
    /\ \A i \in 1 .. k : Solved[i].q # NoSolution

\* Where it goes with its next sample: one further along the line, to its end, or
\* nowhere from a place without a solution.
GoesOn(next, k) ==
    \/ /\ k < Many /\ next.sample.ok /\ next.sample = Solved[k + 1]
       /\ Reached(next.stream, k + 1)
    \/ /\ k < Many /\ ~ next.sample.ok /\ Solved[k + 1].q = NoSolution
       /\ ~ is_finished(next.stream)
    \/ /\ k = Many /\ ~ next.sample.ok
       /\ is_finished(next.stream)

\* A stream as it is opened is at the start of the line.
LEMMA OpenedIsReached ==
    ASSUME IsPlanned, First.initialized
    PROVE  Reached(First, 0)
BY DEF IsPlanned, Reached

\* Its samples are those of the whole line, in their order.
LEMMA StreamGoesOn ==
    ASSUME IsPlanned, plan.seed # NoSolution, NEW stream, NEW k, Reached(stream, k)
    PROVE  GoesOn(single_line_stream_next(stream, solver), k)
<1> DEFINE next == single_line_stream_next(stream, solver)
           motions == MotionsOf(First.profile)
           sample == SampleAlong(stream, solver, EvaluateIndex(stream.profile, k))
<1>1. /\ First.initialized /\ Many \in Nat /\ Many >= 2 /\ k \in 0 .. Many
      /\ DOMAIN stream = StreamFields
      /\ stream.initialized
      /\ stream.path = First.path /\ stream.profile = First.profile
      /\ stream.next = k
      /\ stream.profile.samples = Many
  BY DEF IsPlanned, Reached, Many
<1>2. stream.finished <=> k = Many
  BY DEF Reached
<1>3. stream.seed = IF k = 0 THEN plan.seed ELSE Solved[k].q
  BY DEF Reached
<1>4. \A i \in 1 .. k : Solved[i].q # NoSolution
  BY DEF Reached
<1>5. CASE k = Many
  <2>1. next = [stream |-> [stream EXCEPT !.finished = TRUE, !.status = "FINISHED"],
                sample |-> NoSample]
    BY <1>1, <1>5 DEF single_line_stream_next
  <2>2. ~ next.sample.ok
    BY <2>1 DEF NoSample
  <2>3. next.stream = [stream EXCEPT !.finished = TRUE, !.status = "FINISHED"]
    BY <2>1
  <2> HIDE DEF next
  <2>5. next.stream.initialized = stream.initialized /\ next.stream.finished = TRUE
    BY <1>1, <2>3 DEF StreamFields
  <2>6. next.stream.initialized /\ next.stream.finished
    BY <1>1, <2>5
  <2>4. GoesOn(next, k)
    BY <1>5, <2>2, <2>6 DEF GoesOn, is_finished
  <2> QED
    BY <2>4 DEF next
<1>6. CASE k < Many
  <2>1. next = Given(stream, sample)
    <3>1. ~ (stream.next >= stream.profile.samples)
      BY <1>1, <1>6
    <3> QED
      BY <1>1, <3>1 DEF single_line_stream_next
  <2>2. k + 1 \in 1 .. Many /\ (k + 1) - 1 = k
    BY <1>1, <1>6
  <2>3. Len(motions) = Many /\ motions[k + 1] = EvaluateIndex(First.profile, k)
    BY <1>1, <2>2 DEF MotionsOf, Many
  <2>4. stream.seed # NoSolution
    BY <1>1, <1>3, <1>4
  <2>5. sample = [ok |-> TRUE, index |-> k, t |-> motions[k + 1].t, s |-> motions[k + 1].s,
                  speed |-> motions[k + 1].v, place |-> PlaceAlong(First.path, motions[k + 1]),
                  q |-> adls_ik(solver, PlaceAlong(First.path, motions[k + 1]), stream.seed)]
    BY <1>1, <2>3 DEF SampleAlong, SampleOf, PlaceAlong
  <2>6. /\ Solved[k + 1].q = SolvedFrom(solver, PlaceAlong(First.path, motions[k + 1]),
                                        IF k + 1 = 1 THEN plan.seed
                                        ELSE Solved[(k + 1) - 1].q)
        /\ Solved[k + 1] = [ok |-> TRUE, index |-> (k + 1) - 1, t |-> motions[k + 1].t,
                            s |-> motions[k + 1].s, speed |-> motions[k + 1].v,
                            place |-> PlaceAlong(First.path, motions[k + 1]),
                            q |-> Solved[k + 1].q]
    <3>1. IsSolved(Solved, First.path, motions, plan.seed, solver)
      BY <1>1 DEF IsPlanned
    <3> HIDE DEF motions
    <3> QED
      BY <2>2, <2>3, <3>1 DEF IsSolved
  <2>7. stream.seed = IF k + 1 = 1 THEN plan.seed ELSE Solved[(k + 1) - 1].q
    BY <1>1, <1>3, <2>2
  <2>8. Solved[k + 1].q = adls_ik(solver, PlaceAlong(First.path, motions[k + 1]), stream.seed)
    BY <2>4, <2>6, <2>7 DEF SolvedFrom
  <2> HIDE DEF motions
  <2>9. sample = Solved[k + 1]
    BY <2>2, <2>5, <2>6, <2>8
  <2>10. Solved[k + 1].ok
    BY <2>6
  <2> HIDE DEF next, sample
  <2>11. CASE Solved[k + 1].q = NoSolution
    <3>1. next = [stream |-> [stream EXCEPT !.status = "IK_FAILED"], sample |-> NoSample]
      BY <2>1, <2>9, <2>11 DEF Given
    <3>2. ~ next.sample.ok
      BY <3>1 DEF NoSample
    <3>3. next.stream.finished = stream.finished
      BY <1>1, <3>1 DEF StreamFields
    <3>4. ~ next.stream.finished
      BY <1>1, <1>2, <1>6, <3>3
    <3>5. GoesOn(next, k)
      BY <1>6, <2>11, <3>2, <3>4 DEF GoesOn, is_finished
    <3> QED
      BY <3>5 DEF next
  <2>12. CASE Solved[k + 1].q # NoSolution
    <3>1. next = [stream |-> Taken(stream, sample), sample |-> sample]
      BY <2>1, <2>9, <2>12 DEF Given
    <3>2. next.sample = Solved[k + 1] /\ next.sample.ok /\ next.stream = Taken(stream, sample)
      BY <2>9, <2>10, <3>1
    <3> DEFINE s == next.stream
    <3>3. /\ DOMAIN s = StreamFields /\ s.initialized = stream.initialized
          /\ s.path = stream.path /\ s.profile = stream.profile
          /\ s.next = stream.next + 1 /\ s.seed = sample.q
          /\ s.finished = (stream.finished \/ stream.next + 1 >= stream.profile.samples)
      <4>1. s = Taken(stream, sample) /\ DOMAIN stream = StreamFields
        BY <1>1, <3>2
      <4> HIDE DEF s
      <4>2. DOMAIN s = StreamFields
        BY <4>1 DEF Taken
      <4>3. /\ s.initialized = stream.initialized /\ s.path = stream.path
            /\ s.profile = stream.profile
        BY <4>1 DEF StreamFields, Taken
      <4>4. s.next = stream.next + 1 /\ s.seed = sample.q
        BY <4>1 DEF StreamFields, Taken
      <4>5. s.finished = (stream.finished \/ stream.next + 1 >= stream.profile.samples)
        BY <4>1 DEF StreamFields, Taken
      <4> QED
        BY <4>2, <4>3, <4>4, <4>5
    <3> HIDE DEF s
    <3>4. s.finished <=> k + 1 = Many
      <4>1. stream.next + 1 >= stream.profile.samples <=> k + 1 = Many
        BY <1>1, <1>6
      <4>2. ~ stream.finished
        BY <1>1, <1>2, <1>6
      <4>3. s.finished = (stream.finished \/ stream.next + 1 >= stream.profile.samples)
        BY <3>3
      <4> QED
        BY <4>1, <4>2, <4>3, Zenon
    <3>5. s.seed = IF k + 1 = 0 THEN plan.seed ELSE Solved[k + 1].q
      BY <1>1, <2>9, <3>3
    <3>6. \A i \in 1 .. k + 1 : Solved[i].q # NoSolution
      BY <1>1, <1>4, <2>12
    <3>7. k + 1 \in 0 .. Many
      BY <1>1, <1>6
    <3>8. s.initialized /\ s.path = First.path /\ s.profile = First.profile /\ s.next = k + 1
      BY <1>1, <3>3
    <3>9. Reached(s, k + 1)
      BY <1>1, <3>3, <3>4, <3>5, <3>6, <3>7, <3>8, Zenon DEF Reached
    <3>10. GoesOn(next, k)
      BY <1>6, <3>2, <3>9 DEF GoesOn, s
    <3> QED
      BY <3>10 DEF next
  <2> QED
    BY <2>11, <2>12
<1> QED
  BY <1>1, <1>5, <1>6

\* A sample that is put in is the last one that waits, behind those that waited.
LEMMA PushedIsLast ==
    ASSUME RingInv, NEW sample, trajectory_buffer_push(sample)
    PROVE  /\ buffer.count \in Nat /\ buffer'.count = buffer.count + 1
           /\ Waiting'[buffer.count + 1] = sample
           /\ \A n \in 1 .. buffer.count : Waiting'[n] = Waiting[n]
<1>1. Capacity \in Nat \ {0}
  BY BufferAssumption DEF BufferAssumption
<1>2. /\ buffer.count \in 0 .. Capacity - 1
      /\ buffer.readIndex \in Ends
      /\ buffer.writeIndex = (buffer.readIndex + buffer.count) % Capacity
  BY <1>1 DEF RingInv, trajectory_buffer_push, trajectory_buffer_is_full
<1>3. buffer.writeIndex = PlaceOf(buffer.count) /\ buffer.writeIndex \in Ends
  BY <1>1, <1>2, PlacesOfSamples
<1>4. /\ buffer'.count = buffer.count + 1
      /\ buffer'.readIndex = buffer.readIndex
      /\ buffer'.storage = [buffer.storage EXCEPT ![buffer.writeIndex] = sample]
  BY DEF trajectory_buffer_push
<1>5. RingInv' /\ Ring!Put
  BY PushPuts
<1>6. Waiting' = [n \in 1 .. buffer'.count |-> buffer'.storage[PlaceOf(n - 1)']]
  BY <1>5, NextWaitingSamples DEF WaitingIsRing
<1>7. \A n \in 0 .. Capacity : PlaceOf(n)' = PlaceOf(n)
  BY <1>4 DEF PlaceOf
<1>8. Waiting'[buffer.count + 1] = buffer'.storage[buffer.writeIndex]
  <2>1. PICK m \in 0 .. Capacity : m = buffer.count
    BY <1>1, <1>2
  <2>2. m + 1 \in 1 .. buffer'.count /\ (m + 1) - 1 = m
    BY <1>1, <1>2, <1>4, <2>1
  <2>3. Waiting'[m + 1] = buffer'.storage[PlaceOf((m + 1) - 1)']
    BY <1>6, <2>2
  <2>4. PlaceOf((m + 1) - 1)' = PlaceOf(m)
    BY <1>7, <2>2
  <2>5. PlaceOf(m) = buffer.writeIndex
    BY <1>3, <2>1
  <2> QED
    BY <2>1, <2>3, <2>4, <2>5
<1>9. buffer'.storage[buffer.writeIndex] = sample
  BY <1>3, <1>4 DEF RingInv
<1>10. Len(Waiting) = buffer.count
  BY WaitingSamples DEF WaitingIsRing
<1> QED
  BY <1>1, <1>2, <1>4, <1>5, <1>8, <1>9, <1>10 DEF Ring!Put

\* What is taken out is the first that waits.
LEMMA PoppedIsFirst ==
    ASSUME RingInv, trajectory_buffer_pop
    PROVE  /\ buffer.count \in Nat \ {0} /\ buffer'.count = buffer.count - 1
           /\ trajectory_buffer_peek = Waiting[1]
           /\ \A n \in 1 .. buffer'.count : Waiting'[n] = Waiting[n + 1]
<1>1. Capacity \in Nat \ {0}
  BY BufferAssumption DEF BufferAssumption
<1>2. buffer.count \in 1 .. Capacity /\ buffer.readIndex \in Ends
  BY <1>1 DEF RingInv, trajectory_buffer_pop, trajectory_buffer_is_empty
<1>3. buffer'.count = buffer.count - 1
  BY DEF trajectory_buffer_pop
<1>4. /\ Waiting = [n \in 1 .. buffer.count |-> buffer.storage[PlaceOf(n - 1)]]
      /\ Len(Waiting) = buffer.count
  BY WaitingSamples DEF WaitingIsRing
<1>5. trajectory_buffer_peek = Waiting[1]
  <2>1. PlaceOf(0) = buffer.readIndex
    BY <1>1, <1>2 DEF PlaceOf, Ends
  <2>2. Waiting[1] = buffer.storage[PlaceOf(1 - 1)]
    BY <1>2, <1>4
  <2> QED
    BY <2>1, <2>2 DEF trajectory_buffer_peek
<1>6. Waiting' = Tail(Waiting)
  BY PopGets DEF Ring!Get
<1>7. Tail(Waiting) = [n \in 1 .. Len(Waiting) - 1 |-> Waiting[n + 1]]
  BY <1>2, <1>4
<1> HIDE DEF Waiting
<1>8. \A n \in 1 .. buffer'.count : Waiting'[n] = Waiting[n + 1]
  BY <1>3, <1>4, <1>6, <1>7
<1> QED
  BY <1>2, <1>3, <1>5, <1>8

-----------------------------------------------------------------------------
(* The verdict of the validation.                                          *)

\* The speed of the joints at a sample, to its neighbours.
GradientAt(i) ==
    Within(Solved[IF i = 1 THEN 1 ELSE i - 1], Solved[IF i = Len(Solved) THEN i ELSE i + 1])

\* What the validation has of the first k samples: the last two of them, and the
\* verdict over all but the speed at the last one.
Seen(c, k) ==
    /\ c.before = IF k = 0 THEN None ELSE << Solved[k] >>
    /\ c.behind = IF k < 2 THEN None ELSE << Solved[k - 1] >>
    /\ c.passes <=> /\ \A i \in 1 .. k : InRange(Solved[i].q)
                    /\ \A i \in 1 .. k - 1 : GradientAt(i)

\* A line that is solved to its end is planned all at once, too.
LEMMA SolvedIsBatch ==
    ASSUME IsPlanned, First.initialized, \A i \in 1 .. Many : Solved[i].q # NoSolution
    PROVE  Batch.ok /\ Batch.samples = Solved
<1>1. Batch = PlanOf(Solved) /\ Len(Solved) = Many
  BY DEF IsPlanned
<1>2. Batch = [ok |-> TRUE, samples |-> Solved]
  BY <1>1, Zenon DEF PlanOf
<1> QED
  BY <1>2

\* And one that is planned all at once is solved to its end.
LEMMA BatchIsSolved ==
    ASSUME IsPlanned, Batch.ok
    PROVE  /\ First.initialized /\ Batch.samples = Solved /\ Len(Solved) = Many
           /\ Many \in 2 .. TimeCapacity
           /\ \A i \in 1 .. Many : Solved[i].q # NoSolution
<1>1. ~ NoPlan.ok
  BY DEF NoPlan
<1>2. First.initialized
  BY <1>1 DEF IsPlanned
<1>3. Batch = PlanOf(Solved) /\ Len(Solved) = Many /\ Many \in 2 .. TimeCapacity
  BY <1>2 DEF IsPlanned
<1>4. Batch # NoPlan
  BY <1>1
<1>5. ~ \E i \in 1 .. Len(Solved) : Solved[i].q = NoSolution
  BY <1>3, <1>4, Zenon DEF PlanOf
<1>6. \A i \in 1 .. Many : Solved[i].q # NoSolution
  BY <1>3, <1>5
<1> QED
  BY <1>2, <1>3, <1>6, SolvedIsBatch

\* The speed over the whole line is the speed at each of its samples.
LEMMA GradientIsWithin == GradientWithin(Solved, JointSpeed) <=> \A i \in 1 .. Len(Solved) : GradientAt(i)
BY DEF GradientWithin, GradientAt, Within

\* At the end of the line the verdict is the one over all of it.
LEMMA VerdictIsWhole ==
    ASSUME IsPlanned, Reached(liveStream, Many), Seen(check, Many)
    PROVE  Judged <=> Acceptable
<1>1. /\ Many \in Nat /\ Many >= 2 /\ Len(Solved) = Many
      /\ First.initialized /\ \A i \in 1 .. Many : Solved[i].q # NoSolution
  BY DEF Reached, IsPlanned
<1>2. Batch.ok /\ Batch.samples = Solved
  BY <1>1, SolvedIsBatch
<1>3. Acceptable <=> /\ \A n \in 1 .. Many : InRange(Solved[n].q)
                     /\ GradientWithin(Solved, JointSpeed)
  BY <1>1, <1>2 DEF Acceptable, Passes
<1>4. /\ check.before = << Solved[Many] >> /\ check.behind = << Solved[Many - 1] >>
      /\ check.passes <=> /\ \A i \in 1 .. Many : InRange(Solved[i].q)
                          /\ \A i \in 1 .. Many - 1 : GradientAt(i)
  BY <1>1 DEF Seen
<1>5. check.behind # None /\ check.behind[1] = Solved[Many - 1]
      /\ check.before[1] = Solved[Many]
  BY <1>4 DEF None
<1>6. GradientAt(Many) <=> Within(check.behind[1], check.before[1])
  BY <1>1, <1>5 DEF GradientAt
<1>7. (\A i \in 1 .. Many : GradientAt(i))
        <=> (\A i \in 1 .. Many - 1 : GradientAt(i)) /\ GradientAt(Many)
  <2>1. 1 .. Many = (1 .. Many - 1) \cup {Many}
    BY <1>1
  <2> QED
    BY <2>1
<1>8. GradientWithin(Solved, JointSpeed) <=> \A i \in 1 .. Many : GradientAt(i)
  BY <1>1, GradientIsWithin
<1>9. Judged <=> check.passes /\ Within(check.behind[1], check.before[1])
  BY <1>5 DEF Judged
<1> QED
  BY <1>3, <1>4, <1>6, <1>7, <1>8, <1>9, Zenon

\* The next sample is seen with the two before it.
LEMMA NextIsSeen ==
    ASSUME IsPlanned, NEW k, Reached(liveStream, k), k < Many, Seen(check, k),
           NEW c, c.behind = check.before, c.before = << Solved[k + 1] >>,
           c.passes <=> /\ check.passes /\ InRange(Solved[k + 1].q)
                        /\ SpeedSeen(Solved[k + 1])
    PROVE  Seen(c, k + 1)
<1>1. /\ Many \in Nat /\ Many >= 2 /\ Len(Solved) = Many
      /\ k \in 0 .. Many
  BY DEF Reached, IsPlanned
<1>2. c.before = IF k + 1 = 0 THEN None ELSE << Solved[k + 1] >>
  BY <1>1
<1>3. c.behind = IF k + 1 < 2 THEN None ELSE << Solved[(k + 1) - 1] >>
  BY <1>1 DEF Seen
<1>4. (\A i \in 1 .. k + 1 : InRange(Solved[i].q))
        <=> (\A i \in 1 .. k : InRange(Solved[i].q)) /\ InRange(Solved[k + 1].q)
  <2>1. 1 .. k + 1 = (1 .. k) \cup {k + 1}
    BY <1>1
  <2> QED
    BY <2>1
<1>5. (\A i \in 1 .. (k + 1) - 1 : GradientAt(i))
        <=> (\A i \in 1 .. k - 1 : GradientAt(i)) /\ SpeedSeen(Solved[k + 1])
  <2>1. CASE k = 0
    <3>1. check.before = None
      BY <2>1 DEF Seen
    <3>2. SpeedSeen(Solved[k + 1])
      BY <3>1 DEF SpeedSeen
    <3>3. 1 .. (k + 1) - 1 = {} /\ 1 .. k - 1 = {}
      BY <2>1
    <3> QED
      BY <3>2, <3>3
  <2>2. CASE k # 0
    <3>1. 1 .. (k + 1) - 1 = (1 .. k - 1) \cup {k}
      BY <1>1, <2>2
    <3>2. check.before = << Solved[k] >>
      BY <2>2 DEF Seen
    <3>3. check.before # None /\ check.before[1] = Solved[k]
      BY <3>2 DEF None
    <3>4. GradientAt(k) <=> SpeedSeen(Solved[k + 1])
      <4>1. CASE k = 1
        <5>1. check.behind = None
          BY <4>1 DEF Seen
        <5>2. SpeedSeen(Solved[k + 1]) <=> Within(Solved[1], Solved[2])
          BY <3>3, <4>1, <5>1 DEF SpeedSeen
        <5> QED
          BY <1>1, <4>1, <5>2 DEF GradientAt
      <4>2. CASE k # 1
        <5>1. check.behind = << Solved[k - 1] >>
          BY <1>1, <2>2, <4>2 DEF Seen
        <5>2. check.behind # None /\ check.behind[1] = Solved[k - 1]
          BY <5>1 DEF None
        <5>3. SpeedSeen(Solved[k + 1]) <=> Within(Solved[k - 1], Solved[k + 1])
          BY <3>3, <5>2 DEF SpeedSeen
        <5> QED
          BY <1>1, <4>2, <5>3 DEF GradientAt
      <4> QED
        BY <4>1, <4>2
    <3> QED
      BY <3>1, <3>4
  <2> QED
    BY <2>1, <2>2
<1>6. check.passes <=> /\ \A i \in 1 .. k : InRange(Solved[i].q)
                       /\ \A i \in 1 .. k - 1 : GradientAt(i)
  BY DEF Seen
<1>7. c.passes <=> /\ \A i \in 1 .. k + 1 : InRange(Solved[i].q)
                   /\ \A i \in 1 .. (k + 1) - 1 : GradientAt(i)
  BY <1>4, <1>5, <1>6, Zenon
<1> QED
  BY <1>2, <1>3, <1>7, Zenon DEF Seen

-----------------------------------------------------------------------------
(* What the robot is given is the beginning of one plan.                   *)

\* There is something of a plan for the robot, or was.
SomethingGiven == played # << >> \/ buffer.count # 0

\* The commands are requests of the panel from where the robot is.
CommandInv ==
    /\ requests # None => requests[1].path \in Plans /\ requests[1].seed # NoSolution
    /\ planner # "WAIT" \/ SomethingGiven => plan.path \in Plans /\ plan.seed # NoSolution
    /\ actual # NoSolution
    /\ motion \in {"WAITING", "PLANNING", "PREPOSITION", "RUNNING", "FINISHED", "HOLD"}
    /\ ready \in BOOLEAN /\ generated \in BOOLEAN
    /\ cancel => hold
    /\ DOMAIN check = {"behind", "before", "passes", "result"}

\* Until the plan is executed there is nothing of it, nor of an earlier one.
Early == requests # None \/ planner \in {"VALIDATE", "JUDGE", "OPEN"}

FreshInv ==
    /\ Early => /\ played = << >> /\ buffer.count = 0
                /\ ~ ready /\ ~ generated /\ motion \in {"PLANNING", "HOLD"}
    /\ planner = "ABORT_WAIT" => played = << >> /\ ~ ready
    /\ planner = "ABORT_HOLD" => cancel
    /\ ready \/ cancel \/ played = << >>
    /\ motion \in {"PREPOSITION", "RUNNING"} => ready
    /\ motion = "PREPOSITION" => played = << >> /\ start # None

\* What was given to the robot and what waits for it are the plan one behind the
\* other; the last sample was generated when all of them were.
PlayedInv ==
    /\ \E S : played \in Seq(S)
    /\ SomethingGiven =>
          /\ Batch.ok
          /\ Len(played) + buffer.count <= Len(Batch.samples)
          /\ \A n \in 1 .. Len(played) : played[n] = Batch.samples[n].q
          /\ \A n \in 1 .. buffer.count : Waiting[n] = Batch.samples[Len(played) + n].q
    /\ generated => SomethingGiven /\ Len(played) + buffer.count = Len(Batch.samples)
    /\ motion = "FINISHED" => SomethingGiven /\ Len(played) = Len(Batch.samples)
    /\ motion = "RUNNING" => executed = Len(played)
    /\ executed \in 0 .. TimeCapacity

\* How far the planner has come along the line: with the verdict over it, then with
\* what it puts into the buffer.
PlannerInv ==
    /\ planner \in {"WAIT", "VALIDATE", "JUDGE", "OPEN", "GENERATE", "PUSH", "COMPLETE",
                    "PUBLISH", "ABORT_HOLD", "ABORT_WAIT"}
    /\ planner = "VALIDATE" => /\ Reached(liveStream, liveStream.next)
                               /\ Seen(check, liveStream.next)
    /\ planner = "JUDGE" => cancel \/ (check.result <=> Acceptable)
    /\ planner \in {"OPEN", "GENERATE", "PUSH"} => Acceptable
    /\ planner \in {"GENERATE", "PUSH"} => /\ Reached(liveStream, liveStream.next)
                                           /\ total = Many
    /\ planner = "GENERATE" => cancel \/ Len(played) + buffer.count = liveStream.next
    /\ planner = "PUSH" => /\ liveStream.next # 0
                           /\ inHand = Solved[liveStream.next]
                           /\ cancel \/ Len(played) + buffer.count = liveStream.next - 1

LiveInv == RingInv /\ HeldInv /\ CommandInv /\ FreshInv /\ PlayedInv /\ PlannerInv

\* While the plan stays, so does the line.
LEMMA PlanStays ==
    ASSUME UNCHANGED <<plan, solver>>
    PROVE  /\ Batch' = Batch /\ First' = First /\ Many' = Many /\ Solved' = Solved
           /\ Acceptable' = Acceptable
<1>1. First' = First
  BY DEF First, Opened, Streams
<1>2. Batch' = Batch
  BY DEF Batch
<1>3. Many' = Many
  BY <1>1 DEF Many
<1>4. Solved' = Solved
  BY <1>1 DEF Solved
<1>5. Acceptable' = Acceptable
  BY <1>2 DEF Acceptable, Passes, GradientWithin, InRange
<1> QED
  BY <1>1, <1>2, <1>3, <1>4, <1>5

\* So does how far a stream is along it.
LEMMA ReachedStays ==
    ASSUME UNCHANGED <<plan, solver>>, NEW k
    PROVE  /\ Reached(liveStream', k) => Reached(liveStream, k)'
           /\ Seen(check', k) => Seen(check, k)'
<1>1. /\ First' = First /\ Many' = Many /\ Solved' = Solved /\ plan' = plan
  BY PlanStays
<1>2. Reached(liveStream', k) => Reached(liveStream, k)'
  BY <1>1 DEF Reached
<1>3. \A i : GradientAt(i)' <=> GradientAt(i)
  BY <1>1 DEF GradientAt, Within
<1>4. \A i : InRange(Solved[i].q)' <=> InRange(Solved[i].q)
  BY <1>1 DEF InRange
<1>5. Seen(check', k) => Seen(check, k)'
  BY <1>1, <1>3, <1>4 DEF Seen
<1> QED
  BY <1>2, <1>5

\* What was given stays given while nothing comes in or out.
LEMMA PlayedStays ==
    ASSUME PlayedInv, UNCHANGED <<plan, solver, played, buffer, generated, executed>>,
           motion' \in {"FINISHED", "RUNNING"} => motion' = motion
    PROVE  PlayedInv'
<1>1. Batch' = Batch /\ Waiting' = Waiting /\ SomethingGiven' = SomethingGiven
  BY PlanStays DEF Waiting, SomethingGiven
<1> QED
  BY <1>1 DEF PlayedInv

\* The planner goes on from where it was.
LEMMA PlannerStays ==
    ASSUME PlannerInv,
           UNCHANGED <<plan, solver, liveStream, check, total, inHand, planner>>,
           cancel => cancel',
           Len(played') + buffer'.count = Len(played) + buffer.count \/ cancel'
    PROVE  PlannerInv'
<1>1. PICK k : k = liveStream.next
  OBVIOUS
<1>2. /\ Many' = Many /\ Solved' = Solved /\ Acceptable' = Acceptable
  BY PlanStays
<1>3. Reached(liveStream, k) => Reached(liveStream, k)'
  BY ReachedStays
<1>4. Seen(check, k) => Seen(check, k)'
  BY ReachedStays
<1>5. liveStream'.next = k /\ liveStream.next = k
  BY <1>1
<1>6. Reached(liveStream, liveStream.next) => Reached(liveStream, liveStream.next)'
  BY <1>3, <1>5 DEF Reached
<1>7. Seen(check, liveStream.next) => Seen(check, liveStream.next)'
  BY <1>4, <1>5 DEF Seen
<1> QED
  BY <1>2, <1>6, <1>7 DEF PlannerInv

\* A plan as it is opened.
OpensWell ==
    plan.path \in Plans =>
        /\ IsPlanned
        /\ First.initialized => Reached(First, 0)
        /\ ~ First.initialized => ~ Acceptable

\* Whatever the plan is.
LEMMA PlansOpenWell == OpensWell
<1> SUFFICES ASSUME plan.path \in Plans
             PROVE  /\ IsPlanned
                    /\ First.initialized => Reached(First, 0)
                    /\ ~ First.initialized => ~ Acceptable
  BY DEF OpensWell
<1>1. IsPlanned
  BY PlansArePlanned
<1>2. ~ First.initialized => Batch = NoPlan
  BY <1>1 DEF IsPlanned
<1>3. ~ First.initialized => ~ Acceptable
  BY <1>2 DEF Acceptable, Passes, NoPlan
<1> QED
  BY <1>1, <1>3, OpenedIsReached

\* And whatever it will be after a step.
LEMMA NextPlansOpenWell == OpensWell'
BY PlansOpenWell, PTL

\* What the actions of the planner, the panel and the cycle have to keep.
OwnInv == CommandInv /\ FreshInv /\ PlayedInv /\ PlannerInv

\* STOP cancels the plan and drops what waits.
LEMMA StopKeepsPlan ==
    ASSUME LiveInv, StopCommand
    PROVE  OwnInv'
<1>1. /\ UNCHANGED <<plan, solver, liveStream, check, total, inHand, planner>>
      /\ UNCHANGED <<requests, played, actual, executed, start>>
      /\ hold' = TRUE /\ cancel' = TRUE /\ ready' = FALSE /\ generated' = FALSE
      /\ motion' = "HOLD" /\ buffer'.count = 0
  BY DEF StopCommand, plannerVars, robotVars, trajectory_buffer_reset
<1>2. CommandInv /\ FreshInv /\ PlayedInv /\ PlannerInv /\ RingInv
  BY DEF LiveInv
<1>3. CommandInv'
  BY <1>1, <1>2 DEF CommandInv, SomethingGiven
<1>4. FreshInv'
  BY <1>1, <1>2 DEF FreshInv, Early
<1>5. PlayedInv'
  <2>1. Batch' = Batch
    BY <1>1, PlanStays
  <2>2. SomethingGiven' => SomethingGiven
    BY <1>1 DEF SomethingGiven
  <2>3. buffer.count \in Nat /\ Len(played) \in Nat
    BY <1>2, BufferAssumption DEF RingInv, PlayedInv, BufferAssumption
  <2> QED
    BY <1>1, <1>2, <2>1, <2>2, <2>3 DEF PlayedInv
<1>6. PlannerInv'
  BY <1>1, <1>2, PlannerStays
<1> QED
  BY <1>3, <1>4, <1>5, <1>6 DEF OwnInv

\* A plan is accepted when nothing is left of the last one.
LEMMA PlanCommandKeepsPlan ==
    ASSUME LiveInv, NEW request \in Plans, PlanCommand(request)
    PROVE  OwnInv'
<1>1. CommandInv /\ FreshInv /\ PlayedInv /\ PlannerInv /\ RingInv /\ HeldInv
  BY DEF LiveInv
<1>2. planner = "WAIT" /\ requests = None
  BY <1>1 DEF PlanCommand, Accepts, HeldInv
<1>9. /\ UNCHANGED <<plan, solver, liveStream, check, inHand, planner, actual>>
      /\ cancel' = FALSE /\ ready' = FALSE /\ generated' = FALSE
      /\ buffer'.count = 0 /\ played' = << >>
      /\ executed' = 0 /\ start' = None
  BY DEF PlanCommand, plannerVars, trajectory_buffer_reset
<1>10. /\ requests' = << [path |-> request, seed |-> actual] >>
       /\ hold' = FALSE /\ motion' = "PLANNING"
  BY <1>2, Zenon DEF PlanCommand
<1>3. /\ UNCHANGED <<plan, solver, liveStream, check, inHand, planner, actual>>
      /\ requests' = << [path |-> request, seed |-> actual] >>
      /\ hold' = FALSE /\ cancel' = FALSE /\ ready' = FALSE /\ generated' = FALSE
      /\ motion' = "PLANNING" /\ buffer'.count = 0 /\ played' = << >>
      /\ executed' = 0 /\ start' = None
  BY <1>9, <1>10
<1>4. requests'[1].path \in Plans /\ requests'[1].seed = actual
  BY <1>3
<1>5. CommandInv'
  BY <1>1, <1>2, <1>3, <1>4 DEF CommandInv, SomethingGiven
<1>6. FreshInv'
  BY <1>1, <1>2, <1>3 DEF FreshInv, Early
<1>7. PlayedInv'
  <2>1. ~ SomethingGiven'
    BY <1>3 DEF SomethingGiven
  <2>2. played' \in Seq({})
    BY <1>3
  <2> QED
    BY <1>3, <2>1, <2>2, ConfigAssumption DEF PlayedInv, ConfigAssumption
<1>8. PlannerInv'
  BY <1>2, <1>3 DEF PlannerInv
<1> QED
  BY <1>5, <1>6, <1>7, <1>8 DEF OwnInv

\* The planner takes a plan and opens its stream.
LEMMA TakeRequestKeepsPlan ==
    ASSUME LiveInv, TakeRequest
    PROVE  OwnInv'
<1>1. CommandInv /\ FreshInv /\ PlayedInv /\ PlannerInv /\ RingInv /\ HeldInv
  BY DEF LiveInv
<1> DEFINE opened == Opened(requests[1])
<1>2. /\ plan' = requests[1] /\ requests' = None /\ requests # None
      /\ liveStream' = opened
      /\ check' = [NothingSeen EXCEPT !.passes = opened.initialized]
      /\ planner' = IF opened.initialized THEN "VALIDATE" ELSE "JUDGE"
      /\ UNCHANGED <<motion, hold, cancel, ready, generated, start, executed, played,
                     actual, solver, buffer>>
  BY DEF TakeRequest, robotVars
<1>3. First' = opened
  BY <1>2 DEF First
<1> HIDE DEF opened
<1>4. /\ played = << >> /\ buffer.count = 0 /\ ~ ready /\ ~ generated
      /\ motion \in {"PLANNING", "HOLD"}
  BY <1>1, <1>2 DEF FreshInv, Early
<1>5. plan'.path \in Plans /\ plan'.seed # NoSolution
  BY <1>1, <1>2 DEF CommandInv
<1>6. DOMAIN check' = {"behind", "before", "passes", "result"}
  BY <1>2 DEF NothingSeen
<1>7. CommandInv'
  BY <1>1, <1>2, <1>5, <1>6 DEF CommandInv
<1>8. FreshInv'
  BY <1>1, <1>2, <1>4 DEF FreshInv, Early
<1>9. PlayedInv'
  <2>1. ~ SomethingGiven'
    BY <1>2, <1>4 DEF SomethingGiven
  <2> QED
    BY <1>1, <1>2, <1>4, <2>1 DEF PlayedInv
<1>10. PlannerInv'
  <2>1. /\ First'.initialized => Reached(First, 0)'
        /\ ~ First'.initialized => ~ Acceptable'
    BY <1>5, NextPlansOpenWell DEF OpensWell
  <2>2. CASE opened.initialized
    <3>1. planner' = "VALIDATE"
      BY <1>2, <2>2
    <3>2. Reached(First, 0)' /\ liveStream' = First'
      BY <1>2, <1>3, <2>1, <2>2
    <3>3. Reached(liveStream, 0)' /\ liveStream'.next = 0
      BY <3>2 DEF Reached
    <3>4. check'.before = None /\ check'.behind = None /\ check'.passes
      BY <1>2, <2>2 DEF NothingSeen
    <3>5. Seen(check, 0)'
      BY <3>4 DEF Seen
    <3>6. Reached(liveStream, liveStream.next)' /\ Seen(check, liveStream.next)'
      BY <3>3, <3>5 DEF Reached, Seen
    <3> QED
      BY <3>1, <3>6 DEF PlannerInv
  <2>3. CASE ~ opened.initialized
    <3>1. planner' = "JUDGE"
      BY <1>2, <2>3
    <3>2. check'.result = FALSE
      BY <1>2 DEF NothingSeen
    <3>3. ~ Acceptable'
      BY <1>3, <2>1, <2>3
    <3> QED
      BY <3>1, <3>2, <3>3 DEF PlannerInv
  <2> QED
    BY <2>2, <2>3
<1> QED
  BY <1>7, <1>8, <1>9, <1>10 DEF OwnInv

\* What the validation sees is the line up to where its stream is.
LEMMA ValidateKeepsPlan ==
    ASSUME LiveInv, ValidateSample
    PROVE  OwnInv'
<1>1. CommandInv /\ FreshInv /\ PlayedInv /\ PlannerInv /\ RingInv /\ HeldInv
  BY DEF LiveInv
<1>2. /\ planner = "VALIDATE"
      /\ UNCHANGED <<plan, solver, total, inHand, requests, motion, hold, cancel, ready,
                     generated, start, executed, played, actual, buffer>>
  BY DEF ValidateSample, motionVars, robotVars
<1>3. plan.path \in Plans /\ plan.seed # NoSolution /\ IsPlanned
  BY <1>1, <1>2, PlansArePlanned DEF CommandInv
<1> DEFINE next == single_line_stream_next(liveStream, solver)
<1>4. PICK k : k = liveStream.next
  OBVIOUS
<1>5. Reached(liveStream, k) /\ Seen(check, k)
  BY <1>1, <1>2, <1>4 DEF PlannerInv
<1>6. GoesOn(next, k)
  BY <1>3, <1>5, StreamGoesOn
<1>7. \/ cancel /\ planner' = "JUDGE" /\ check' = [check EXCEPT !.passes = FALSE]
      \/ /\ ~ cancel /\ next.sample.ok /\ planner' = "VALIDATE"
         /\ liveStream' = next.stream
         /\ check' = [behind |-> check.before, before |-> <<next.sample>>,
                      passes |-> check.passes /\ InRange(next.sample.q)
                                 /\ SpeedSeen(next.sample),
                      result |-> FALSE]
      \/ /\ ~ cancel /\ ~ next.sample.ok /\ planner' = "JUDGE"
         /\ check' = [check EXCEPT !.result = is_finished(next.stream) /\ Judged]
  BY <1>2 DEF ValidateSample
<1> HIDE DEF next
<1>8. planner' \in {"VALIDATE", "JUDGE"}
  BY <1>7
<1>9. DOMAIN check = {"behind", "before", "passes", "result"}
  BY <1>1 DEF CommandInv
<1>10. DOMAIN check' = {"behind", "before", "passes", "result"}
  BY <1>7, <1>9
<1>11. CommandInv'
  BY <1>1, <1>2, <1>8, <1>10 DEF CommandInv, SomethingGiven
<1>12. FreshInv'
  BY <1>1, <1>2, <1>8 DEF FreshInv, Early
<1>13. PlayedInv'
  BY <1>1, <1>2, PlayedStays
<1>14. PlannerInv'
  <2>1. CASE cancel
    BY <1>2, <1>7, <2>1 DEF PlannerInv
  <2>2. CASE ~ cancel /\ next.sample.ok
    <3>1. k < Many /\ next.sample = Solved[k + 1] /\ Reached(next.stream, k + 1)
      BY <1>6, <2>2 DEF GoesOn
    <3>2. /\ planner' = "VALIDATE" /\ liveStream' = next.stream
          /\ check' = [behind |-> check.before, before |-> << Solved[k + 1] >>,
                       passes |-> check.passes /\ InRange(Solved[k + 1].q)
                                  /\ SpeedSeen(Solved[k + 1]),
                       result |-> FALSE]
      BY <1>7, <2>2, <3>1
    <3>3. /\ check'.behind = check.before /\ check'.before = << Solved[k + 1] >>
          /\ check'.passes = (check.passes /\ InRange(Solved[k + 1].q)
                              /\ SpeedSeen(Solved[k + 1]))
      BY <3>2
    <3>4. check'.passes <=> check.passes /\ InRange(Solved[k + 1].q)
                            /\ SpeedSeen(Solved[k + 1])
      BY <3>3
    <3>5. Seen(check', k + 1)
      BY <1>3, <1>5, <3>1, <3>3, <3>4, NextIsSeen
    <3>6. PICK n : n = k + 1
      OBVIOUS
    <3>7. Reached(liveStream, n)' /\ Seen(check, n)'
      BY <1>2, <3>1, <3>2, <3>5, <3>6, ReachedStays
    <3>8. liveStream'.next = n
      BY <3>7 DEF Reached
    <3>9. Reached(liveStream, liveStream.next)' /\ Seen(check, liveStream.next)'
      BY <3>7, <3>8 DEF Reached, Seen
    <3> QED
      BY <3>2, <3>9 DEF PlannerInv
  <2>3. CASE ~ cancel /\ ~ next.sample.ok
    <3>1. /\ planner' = "JUDGE"
          /\ check' = [check EXCEPT !.result = is_finished(next.stream) /\ Judged]
      BY <1>7, <2>3
    <3>2. check'.result = (is_finished(next.stream) /\ Judged)
      BY <1>9, <3>1
    <3>3. is_finished(next.stream) /\ Judged <=> Acceptable
      <4>1. CASE k = Many
        <5>1. Many \in Nat
          BY <1>3, <1>5 DEF Reached, IsPlanned
        <5>2. is_finished(next.stream)
          BY <1>6, <4>1, <5>1 DEF GoesOn
        <5>3. Judged <=> Acceptable
          BY <1>3, <1>5, <4>1, VerdictIsWhole
        <5> QED
          BY <5>2, <5>3
      <4>2. CASE k # Many
        <5>1. ~ is_finished(next.stream) /\ Solved[k + 1].q = NoSolution /\ k < Many
          BY <1>6, <2>3, <4>2 DEF GoesOn
        <5>2. k + 1 \in 1 .. Many
          BY <1>3, <1>5, <5>1 DEF Reached, IsPlanned
        <5>3. ~ Batch.ok
          BY <1>3, <5>1, <5>2, BatchIsSolved
        <5> QED
          BY <5>1, <5>3 DEF Acceptable, Passes
      <4> QED
        BY <4>1, <4>2
    <3>4. check'.result <=> Acceptable'
      BY <1>2, <3>2, <3>3, PlanStays
    <3> QED
      BY <3>1, <3>4 DEF PlannerInv
  <2> QED
    BY <2>1, <2>2, <2>3
<1> QED
  BY <1>11, <1>12, <1>13, <1>14 DEF OwnInv

\* Only what is accepted as a whole is executed.
LEMMA JudgeKeepsPlan ==
    ASSUME LiveInv, Judge
    PROVE  OwnInv'
<1>1. CommandInv /\ FreshInv /\ PlayedInv /\ PlannerInv /\ RingInv /\ HeldInv
  BY DEF LiveInv
<1>2. /\ planner = "JUDGE"
      /\ planner' = IF cancel THEN "ABORT_HOLD"
                    ELSE IF check.result THEN "OPEN" ELSE "ABORT_WAIT"
      /\ UNCHANGED <<plan, solver, liveStream, check, total, inHand, requests, motion, hold,
                     cancel, ready, generated, start, executed, played, actual, buffer>>
  BY DEF Judge, motionVars, robotVars
<1>3. played = << >> /\ ~ ready
  BY <1>1, <1>2 DEF FreshInv, Early
<1>4. CommandInv'
  BY <1>1, <1>2 DEF CommandInv, SomethingGiven
<1>5. FreshInv'
  BY <1>1, <1>2, <1>3 DEF FreshInv, Early
<1>6. PlayedInv'
  BY <1>1, <1>2, PlayedStays
<1>7. PlannerInv'
  BY <1>1, <1>2, PlanStays DEF PlannerInv
<1> QED
  BY <1>4, <1>5, <1>6, <1>7 DEF OwnInv

\* The execution begins at the first sample.
LEMMA OpenKeepsPlan ==
    ASSUME LiveInv, OpenExecution
    PROVE  OwnInv'
<1>1. CommandInv /\ FreshInv /\ PlayedInv /\ PlannerInv /\ RingInv /\ HeldInv
  BY DEF LiveInv
<1>2. /\ planner = "OPEN" /\ planner' = "GENERATE"
      /\ liveStream' = First /\ total' = sample_count(First)
      /\ executed' = 0 /\ generated' = FALSE /\ ready' = FALSE /\ start' = None
      /\ UNCHANGED <<plan, solver, check, inHand, requests, motion, hold, cancel, played,
                     actual, buffer>>
  BY DEF OpenExecution, robotVars, First
<1>3. /\ played = << >> /\ buffer.count = 0 /\ motion \in {"PLANNING", "HOLD"}
      /\ requests = None
  BY <1>1, <1>2 DEF FreshInv, Early, HeldInv
<1>4. Acceptable /\ plan.path \in Plans
  BY <1>1, <1>2 DEF PlannerInv, CommandInv
<1>5. IsPlanned /\ First.initialized
  BY <1>4, PlansArePlanned, BatchIsSolved DEF Acceptable, Passes
<1>6. Reached(First, 0)
  BY <1>5, OpenedIsReached
<1>7. CommandInv'
  BY <1>1, <1>2 DEF CommandInv, SomethingGiven
<1>8. FreshInv'
  BY <1>1, <1>2, <1>3 DEF FreshInv, Early
<1>9. PlayedInv'
  <2>1. ~ SomethingGiven'
    BY <1>2, <1>3 DEF SomethingGiven
  <2> QED
    BY <1>1, <1>2, <1>3, <2>1, ConfigAssumption DEF PlayedInv, ConfigAssumption
<1>10. PlannerInv'
  <2>1. Reached(liveStream, 0)'
    BY <1>2, <1>6, ReachedStays
  <2>2. liveStream'.next = 0
    BY <2>1 DEF Reached
  <2>3. Reached(liveStream, liveStream.next)'
    BY <2>1, <2>2 DEF Reached
  <2>4. total' = Many'
    BY <1>2, <1>5, PlanStays DEF sample_count, Many
  <2>5. Acceptable'
    BY <1>2, <1>4, PlanStays
  <2>6. Len(played') + buffer'.count = 0
    BY <1>2, <1>3
  <2> QED
    BY <1>2, <2>2, <2>3, <2>4, <2>5, <2>6 DEF PlannerInv
<1> QED
  BY <1>7, <1>8, <1>9, <1>10 DEF OwnInv

\* The stream of the execution gives the sample behind what was given, and does
\* not fail.
LEMMA GenerateKeepsPlan ==
    ASSUME LiveInv, Generate
    PROVE  OwnInv'
<1>1. CommandInv /\ FreshInv /\ PlayedInv /\ PlannerInv /\ RingInv /\ HeldInv
  BY DEF LiveInv
<1>2. /\ planner = "GENERATE"
      /\ UNCHANGED <<plan, solver, check, total, requests, motion, hold, cancel, ready,
                     generated, start, executed, played, actual, buffer>>
  BY DEF Generate, motionVars, robotVars
<1>3. Acceptable /\ plan.path \in Plans /\ plan.seed # NoSolution /\ requests = None
  BY <1>1, <1>2 DEF PlannerInv, CommandInv, HeldInv
<1>4. /\ IsPlanned /\ First.initialized /\ Many \in Nat
      /\ \A i \in 1 .. Many : Solved[i].q # NoSolution
  BY <1>3, PlansArePlanned, BatchIsSolved DEF Acceptable, Passes
<1> DEFINE next == single_line_stream_next(liveStream, solver)
<1>5. PICK k : k = liveStream.next
  OBVIOUS
<1>6. Reached(liveStream, k)
  BY <1>1, <1>2, <1>5 DEF PlannerInv
<1>7. GoesOn(next, k)
  BY <1>3, <1>4, <1>6, StreamGoesOn
<1>8. \/ cancel /\ planner' = "ABORT_HOLD"
      \/ /\ ~ cancel /\ liveStream' = next.stream /\ inHand' = next.sample
         /\ planner' = IF next.sample.ok THEN "PUSH"
                       ELSE IF is_finished(next.stream) THEN "COMPLETE"
                       ELSE "PRODUCER_FAILED"
  BY DEF Generate
<1> HIDE DEF next
<1>9. k \in 0 .. Many
  BY <1>6 DEF Reached
<1>10. \/ /\ k < Many /\ next.sample.ok /\ next.sample = Solved[k + 1]
          /\ Reached(next.stream, k + 1)
       \/ ~ next.sample.ok /\ is_finished(next.stream)
  <2>1. k < Many => Solved[k + 1].q # NoSolution
    BY <1>4, <1>9
  <2> QED
    BY <1>7, <2>1 DEF GoesOn
<1>11. planner' \in {"PUSH", "COMPLETE", "ABORT_HOLD"} /\ (planner' = "ABORT_HOLD" => cancel)
  BY <1>8, <1>10
<1>12. CommandInv'
  BY <1>1, <1>2, <1>11 DEF CommandInv, SomethingGiven
<1>13. FreshInv'
  BY <1>1, <1>2, <1>3, <1>11 DEF FreshInv, Early
<1>14. PlayedInv'
  BY <1>1, <1>2, PlayedStays
<1>15. PlannerInv'
  <2>1. CASE planner' # "PUSH"
    BY <1>11, <2>1 DEF PlannerInv
  <2>2. CASE planner' = "PUSH"
    <3>1. /\ ~ cancel /\ next.sample.ok /\ liveStream' = next.stream
          /\ inHand' = next.sample
      BY <1>8, <1>10, <2>2
    <3>2. /\ k < Many /\ inHand' = Solved[k + 1] /\ Reached(liveStream', k + 1)
      BY <1>10, <3>1
    <3>3. PICK n : n = k + 1
      OBVIOUS
    <3>4. Reached(liveStream, n)'
      BY <1>2, <3>2, <3>3, ReachedStays
    <3>5. liveStream'.next = n
      BY <3>4 DEF Reached
    <3>6. Reached(liveStream, liveStream.next)'
      BY <3>4, <3>5 DEF Reached
    <3>7. Solved' = Solved /\ Many' = Many /\ Acceptable' = Acceptable
      BY <1>2, PlanStays
    <3>8. inHand' = Solved'[liveStream'.next]
      BY <3>2, <3>3, <3>5, <3>7
    <3>9. Len(played') + buffer'.count = liveStream'.next - 1
      <4>1. Len(played) + buffer.count = k
        BY <1>1, <1>2, <1>5, <3>1 DEF PlannerInv
      <4> QED
        BY <1>2, <1>9, <3>3, <3>5, <4>1
    <3>10. liveStream'.next # 0
      BY <1>9, <3>3, <3>5
    <3>11. total' = Many'
      BY <1>1, <1>2, <3>7 DEF PlannerInv
    <3> QED
      BY <1>3, <2>2, <3>6, <3>7, <3>8, <3>9, <3>10, <3>11 DEF PlannerInv
  <2> QED
    BY <2>1, <2>2
<1> QED
  BY <1>12, <1>13, <1>14, <1>15 DEF OwnInv

\* The sample goes behind what was given, and is the last one at the end of the
\* line only.
LEMMA PushKeepsPlan ==
    ASSUME LiveInv, PushSample
    PROVE  OwnInv'
<1>1. CommandInv /\ FreshInv /\ PlayedInv /\ PlannerInv /\ RingInv /\ HeldInv
  BY DEF LiveInv
<1>2. /\ planner = "PUSH"
      /\ UNCHANGED <<plan, solver, liveStream, check, total, requests, hold, cancel,
                     executed, played, actual>>
  BY DEF PushSample, robotVars
<1>3. Acceptable /\ plan.path \in Plans /\ requests = None /\ Batch.ok
  BY <1>1, <1>2 DEF PlannerInv, CommandInv, HeldInv, Acceptable, Passes
<1>4. /\ IsPlanned /\ First.initialized /\ Many \in Nat
      /\ Batch.samples = Solved /\ Len(Solved) = Many
      /\ \A i \in 1 .. Many : Solved[i].q # NoSolution
  BY <1>3, PlansArePlanned, BatchIsSolved
<1>5. PICK k : k = liveStream.next
  OBVIOUS
<1>6. /\ Reached(liveStream, k) /\ total = Many /\ k # 0 /\ inHand = Solved[k]
      /\ cancel \/ Len(played) + buffer.count = k - 1
  BY <1>1, <1>2, <1>5 DEF PlannerInv
<1>7. k \in 1 .. Many
  BY <1>4, <1>6 DEF Reached
<1>8. Batch' = Batch /\ Solved' = Solved /\ Many' = Many /\ Acceptable' = Acceptable
  BY <1>2, PlanStays
<1>9. CASE ~ StillWanted
  <2>1. /\ planner' = "ABORT_HOLD" /\ cancel
        /\ UNCHANGED <<motion, ready, generated, start, buffer>>
    BY <1>9 DEF PushSample, StillWanted
  <2>2. CommandInv'
    BY <1>1, <1>2, <2>1 DEF CommandInv, SomethingGiven
  <2>3. FreshInv'
    BY <1>1, <1>2, <1>3, <2>1 DEF FreshInv, Early
  <2>4. PlayedInv'
    BY <1>1, <1>2, <2>1, PlayedStays
  <2>5. PlannerInv'
    BY <2>1 DEF PlannerInv
  <2> QED
    BY <2>2, <2>3, <2>4, <2>5 DEF OwnInv
<1>10. CASE StillWanted
  <2> DEFINE last == liveStream.next >= total
             enough == Enough(last)
  <2>1. /\ trajectory_buffer_push(inHand.q)
        /\ start' = IF start = None THEN inHand.q ELSE start
        /\ generated' = (generated \/ last)
        /\ ready' = (ready \/ enough)
        /\ motion' = IF ~ready /\ enough /\ ~hold /\ motion # "HOLD"
                     THEN "PREPOSITION" ELSE motion
        /\ planner' = "GENERATE"
    BY <1>10 DEF PushSample
  <2>2. ~ cancel
    BY <1>10 DEF StillWanted
  <2>3. last <=> k = Many
    BY <1>4, <1>5, <1>6, <1>7
  <2> HIDE DEF last, enough
  <2>4. /\ buffer.count \in Nat /\ buffer'.count = buffer.count + 1
        /\ Waiting'[buffer.count + 1] = inHand.q
        /\ \A n \in 1 .. buffer.count : Waiting'[n] = Waiting[n]
    BY <1>1, <2>1, PushedIsLast
  <2>5. Len(played) \in Nat /\ Len(played) + buffer.count = k - 1
    BY <1>1, <1>6, <2>2 DEF PlayedInv
  <2>6. inHand.q # NoSolution /\ inHand.q = Batch.samples[k].q
    BY <1>4, <1>6, <1>7
  <2>7. start' # None
    BY <2>1, <2>6 DEF None, NoSolution
  <2>8. ~ generated /\ motion # "FINISHED"
    BY <1>1, <1>4, <1>7, <2>4, <2>5 DEF PlayedInv
  <2>9. ready' \in BOOLEAN /\ generated' \in BOOLEAN
    BY <2>1
  <2>10. motion' \in {motion, "PREPOSITION"}
    BY <2>1
  <2>11. CommandInv'
    BY <1>1, <1>2, <2>1, <2>9, <2>10 DEF CommandInv, SomethingGiven
  <2>12. FreshInv'
    <3>1. ~ Early'
      BY <1>2, <1>3, <2>1 DEF Early
    <3>2. ready => ready'
      BY <2>1
    <3>3. motion' = motion \/ (motion' = "PREPOSITION" /\ ready' /\ ~ ready)
      BY <2>1
    <3>4. ready \/ cancel \/ played = << >>
      BY <1>1 DEF FreshInv
    <3>5. motion' = "PREPOSITION" => played' = << >>
      BY <1>1, <1>2, <2>2, <3>3, <3>4 DEF FreshInv
    <3>6. motion' \in {"PREPOSITION", "RUNNING"} => ready'
      BY <1>1, <3>2, <3>3 DEF FreshInv
    <3>7. ready' \/ cancel' \/ played' = << >>
      BY <1>2, <3>2, <3>4
    <3> QED
      BY <2>1, <2>7, <3>1, <3>5, <3>6, <3>7 DEF FreshInv
  <2>13. PlayedInv'
    <3>1. SomethingGiven'
      BY <2>4 DEF SomethingGiven
    <3>2. Len(played') + buffer'.count = k /\ Len(Batch'.samples) = Many /\ k <= Many
      <4>1. Len(played') + buffer'.count = k
        BY <1>2, <1>7, <2>4, <2>5
      <4>2. Len(Batch'.samples) = Many
        BY <1>4, <1>8
      <4> QED
        BY <1>4, <1>7, <4>1, <4>2
    <3>3. \A n \in 1 .. Len(played') : played'[n] = Batch'.samples[n].q
      BY <1>1, <1>2, <1>8, <2>5 DEF PlayedInv, SomethingGiven
    <3>4. \A n \in 1 .. buffer'.count : Waiting'[n] = Batch'.samples[Len(played') + n].q
      <4> TAKE n \in 1 .. buffer'.count
      <4>1. CASE n = buffer.count + 1
        <5>1. Len(played) + n = k
          BY <1>7, <2>4, <2>5, <4>1
        <5> QED
          BY <1>2, <1>8, <2>4, <2>6, <4>1, <5>1
      <4>2. CASE n # buffer.count + 1
        <5>1. n \in 1 .. buffer.count
          BY <2>4, <4>2
        <5>2. SomethingGiven
          BY <2>4, <5>1 DEF SomethingGiven
        <5>3. Waiting[n] = Batch.samples[Len(played) + n].q
          BY <1>1, <5>1, <5>2 DEF PlayedInv
        <5> QED
          BY <1>2, <1>8, <2>4, <5>1, <5>3
      <4> QED
        BY <4>1, <4>2
    <3>5. generated' => k = Many
      BY <2>1, <2>3, <2>8
    <3>6. motion' # "FINISHED" /\ (motion' = "RUNNING" => motion = "RUNNING")
      BY <2>8, <2>10
    <3>7. (\E S : played' \in Seq(S)) /\ (motion' = "RUNNING" => executed' = Len(played'))
          /\ executed' \in 0 .. TimeCapacity
      BY <1>1, <1>2, <3>6 DEF PlayedInv
    <3> QED
      BY <1>3, <1>4, <1>8, <3>1, <3>2, <3>3, <3>4, <3>5, <3>6, <3>7 DEF PlayedInv
  <2>14. PlannerInv'
    <3>1. Reached(liveStream, k)'
      BY <1>2, <1>6, ReachedStays
    <3>2. liveStream'.next = k
      BY <1>2, <1>5
    <3>3. Reached(liveStream, liveStream.next)'
      BY <3>1, <3>2 DEF Reached
    <3>4. Len(played') + buffer'.count = liveStream'.next
      BY <1>2, <1>7, <2>4, <2>5, <3>2
    <3> QED
      BY <1>2, <1>3, <1>6, <1>8, <2>1, <3>3, <3>4 DEF PlannerInv
  <2> QED
    BY <2>11, <2>12, <2>13, <2>14 DEF OwnInv
<1> QED
  BY <1>9, <1>10

\* The end of the producer changes nothing that was given.
LEMMA EndKeepsPlan ==
    ASSUME LiveInv, EndOfProducer
    PROVE  OwnInv'
<1>1. CommandInv /\ FreshInv /\ PlayedInv /\ PlannerInv /\ RingInv /\ HeldInv
  BY DEF LiveInv
<1>2. /\ planner # "WAIT" /\ planner' \in {"ABORT_HOLD", "PUBLISH"}
      /\ planner' = "ABORT_HOLD" => cancel
      /\ UNCHANGED <<plan, solver, liveStream, check, total, inHand, requests, motion, hold,
                     cancel, ready, generated, start, executed, played, actual, buffer>>
  BY <1>1 DEF EndOfProducer, motionVars, robotVars, PlannerInv
<1>3. requests = None
  BY <1>1, <1>2 DEF HeldInv
<1>4. CommandInv'
  BY <1>1, <1>2 DEF CommandInv, SomethingGiven
<1>5. FreshInv'
  BY <1>1, <1>2, <1>3 DEF FreshInv, Early
<1>6. PlayedInv'
  BY <1>1, <1>2, PlayedStays
<1>7. PlannerInv'
  BY <1>2 DEF PlannerInv
<1> QED
  BY <1>4, <1>5, <1>6, <1>7 DEF OwnInv

\* The planner is free, and the robot goes to the start if it has not been sent yet.
LEMMA PublishKeepsPlan ==
    ASSUME LiveInv, Publish
    PROVE  OwnInv'
<1>1. CommandInv /\ FreshInv /\ PlayedInv /\ PlannerInv /\ RingInv /\ HeldInv
  BY DEF LiveInv
<1>2. /\ planner = "PUBLISH" /\ planner' = "WAIT"
      /\ \/ /\ generated /\ ~ ready /\ start # None /\ ready' = TRUE
            /\ motion' = IF ~ hold /\ motion # "HOLD" THEN "PREPOSITION" ELSE motion
         \/ UNCHANGED <<ready, motion>>
      /\ UNCHANGED <<plan, solver, liveStream, check, total, inHand, requests, hold,
                     cancel, generated, start, executed, played, actual, buffer>>
  BY DEF Publish, robotVars
<1>3. requests = None
  BY <1>1, <1>2 DEF HeldInv
<1>4. motion' \in {motion, "PREPOSITION"} /\ ready' \in BOOLEAN
  BY <1>1, <1>2 DEF CommandInv
<1>5. CommandInv'
  BY <1>1, <1>2, <1>4 DEF CommandInv, SomethingGiven
<1>6. FreshInv'
  BY <1>1, <1>2, <1>3 DEF FreshInv, Early, CommandInv
<1>7. PlayedInv'
  BY <1>1, <1>2, <1>4, PlayedStays
<1>8. PlannerInv'
  BY <1>2 DEF PlannerInv
<1> QED
  BY <1>5, <1>6, <1>7, <1>8 DEF OwnInv

\* A plan that is given up leaves nothing behind.
LEMMA AbortKeepsPlan ==
    ASSUME LiveInv, AbortPlan
    PROVE  OwnInv'
<1>1. CommandInv /\ FreshInv /\ PlayedInv /\ PlannerInv /\ RingInv /\ HeldInv
  BY DEF LiveInv
<1>2. /\ planner \in {"ABORT_HOLD", "ABORT_WAIT"} /\ planner' = "WAIT"
      /\ ready' = FALSE /\ generated' = FALSE /\ executed' = 0 /\ hold' = TRUE
      /\ motion' \in {"HOLD", "WAITING"} /\ buffer'.count = 0
      /\ UNCHANGED <<plan, solver, check, requests, cancel, played, actual>>
  BY DEF AbortPlan, robotVars, trajectory_buffer_reset
<1>3. requests = None /\ (cancel \/ played = << >>)
  BY <1>1, <1>2 DEF HeldInv, FreshInv
<1>4. CommandInv'
  BY <1>1, <1>2, <1>3 DEF CommandInv, SomethingGiven
<1>5. FreshInv'
  BY <1>1, <1>2, <1>3 DEF FreshInv, Early
<1>6. PlayedInv'
  <2>1. Batch' = Batch
    BY <1>2, PlanStays
  <2>2. SomethingGiven' => SomethingGiven
    BY <1>2 DEF SomethingGiven
  <2>3. buffer.count \in Nat /\ Len(played) \in Nat
    BY <1>1, BufferAssumption DEF RingInv, PlayedInv, BufferAssumption
  <2>4. 0 \in 0 .. TimeCapacity
    BY ConfigAssumption DEF ConfigAssumption
  <2> QED
    BY <1>1, <1>2, <2>1, <2>2, <2>3, <2>4 DEF PlayedInv
<1>7. PlannerInv'
  BY <1>2 DEF PlannerInv
<1> QED
  BY <1>4, <1>5, <1>6, <1>7 DEF OwnInv

\* An underrun cancels what has come no further than the robot.
LEMMA UnderrunKeepsPlan ==
    ASSUME LiveInv, Underrun
    PROVE  OwnInv'
<1>1. CommandInv /\ FreshInv /\ PlayedInv /\ PlannerInv /\ RingInv /\ HeldInv
  BY DEF LiveInv
<1>2. /\ motion = "RUNNING" /\ motion' = "HOLD"
      /\ ready' = FALSE /\ hold' = TRUE /\ cancel' = TRUE /\ actual' = actual
      /\ UNCHANGED <<plan, solver, liveStream, check, total, inHand, planner, requests,
                     generated, start, executed, played, buffer>>
  BY DEF Underrun, Command, plannerVars
<1>3. CommandInv'
  BY <1>1, <1>2 DEF CommandInv, SomethingGiven
<1>4. FreshInv'
  BY <1>1, <1>2 DEF FreshInv, Early
<1>5. PlayedInv'
  BY <1>1, <1>2, PlayedStays
<1>6. PlannerInv'
  BY <1>1, <1>2, PlannerStays
<1> QED
  BY <1>3, <1>4, <1>5, <1>6 DEF OwnInv

\* A cycle gives the robot the sample behind those it was given, or gives it again.
LEMMA RunKeepsPlan ==
    ASSUME LiveInv, NEW good \in BOOLEAN, RunCycle(good)
    PROVE  OwnInv'
<1>1. CommandInv /\ FreshInv /\ PlayedInv /\ PlannerInv /\ RingInv /\ HeldInv
  BY DEF LiveInv
<1>2. /\ motion = "RUNNING" /\ ready /\ ~ hold /\ buffer.count # 0
      /\ actual' \in {actual, trajectory_buffer_peek}
      /\ UNCHANGED <<plan, solver, liveStream, check, total, inHand, planner, requests,
                     hold, cancel, ready, generated, start>>
  BY DEF RunCycle, Command, plannerVars, trajectory_buffer_is_empty
<1>3. ~ Early
  BY <1>1, <1>2 DEF FreshInv
<1>4. /\ Batch.ok /\ plan.path \in Plans
      /\ Len(played) + buffer.count <= Len(Batch.samples)
      /\ \A n \in 1 .. Len(played) : played[n] = Batch.samples[n].q
      /\ \A n \in 1 .. buffer.count : Waiting[n] = Batch.samples[Len(played) + n].q
  BY <1>1, <1>2 DEF CommandInv, PlayedInv, SomethingGiven
<1>5. /\ Len(Batch.samples) \in 2 .. TimeCapacity
      /\ \A i \in 1 .. Len(Batch.samples) : Batch.samples[i].q # NoSolution
  BY <1>4, PlansArePlanned, BatchIsSolved
<1>6. buffer.count \in Nat \ {0} /\ Len(played) \in Nat /\ executed = Len(played)
  BY <1>1, <1>2, BufferAssumption DEF RingInv, PlayedInv, BufferAssumption
<1>7. trajectory_buffer_peek = Waiting[1]
  <2>1. Waiting = [n \in 1 .. buffer.count |-> buffer.storage[PlaceOf(n - 1)]]
    BY <1>1, WaitingSamples DEF WaitingIsRing
  <2>2. Waiting[1] = buffer.storage[PlaceOf(1 - 1)]
    BY <1>6, <2>1
  <2>3. PlaceOf(0) = buffer.readIndex
    BY <1>1, BufferAssumption DEF PlaceOf, Ends, RingInv, BufferAssumption
  <2> QED
    BY <2>2, <2>3 DEF trajectory_buffer_peek
<1>8. Waiting[1] = Batch.samples[Len(played) + 1].q /\ Waiting[1] # NoSolution
  <2>1. 1 \in 1 .. buffer.count /\ Len(played) + 1 \in 1 .. Len(Batch.samples)
    BY <1>4, <1>5, <1>6
  <2> QED
    BY <1>4, <1>5, <2>1
<1>9. actual' # NoSolution
  BY <1>1, <1>2, <1>7, <1>8 DEF CommandInv
<1>10. Batch' = Batch
  BY <1>2, PlanStays
<1>11. CASE ~ good
  <2>1. UNCHANGED <<buffer, executed, motion, played>>
    BY <1>11 DEF RunCycle, TakesSample
  <2>2. CommandInv'
    BY <1>1, <1>2, <1>9, <2>1 DEF CommandInv, SomethingGiven
  <2>3. FreshInv'
    BY <1>1, <1>2, <2>1 DEF FreshInv, Early
  <2>4. PlayedInv'
    BY <1>1, <1>2, <2>1, PlayedStays
  <2>5. PlannerInv'
    BY <1>1, <1>2, <2>1, PlannerStays
  <2> QED
    BY <2>2, <2>3, <2>4, <2>5 DEF OwnInv
<1>12. CASE good
  <2>1. /\ played' = Append(played, trajectory_buffer_peek)
        /\ trajectory_buffer_pop
        /\ executed' = executed + 1
        /\ motion' = IF generated /\ buffer.count = 1 /\ executed + 1 >= total
                     THEN "FINISHED" ELSE motion
    BY <1>12 DEF RunCycle, TakesSample
  <2>2. /\ buffer'.count = buffer.count - 1
        /\ \A n \in 1 .. buffer'.count : Waiting'[n] = Waiting[n + 1]
    BY <1>1, <2>1, PoppedIsFirst
  <2>3. PICK S : played \in Seq(S)
    BY <1>1 DEF PlayedInv
  <2>4. PICK x : x = trajectory_buffer_peek
    OBVIOUS
  <2>5. /\ played' = Append(played, x) /\ x = Batch.samples[Len(played) + 1].q
    BY <1>7, <1>8, <2>1, <2>4
  <2>6. /\ played' \in Seq(S \cup {x}) /\ Len(played') = Len(played) + 1
        /\ \A n \in 1 .. Len(played) : played'[n] = played[n]
        /\ played'[Len(played) + 1] = x
    <3>1. played \in Seq(S \cup {x}) /\ x \in S \cup {x}
      BY <2>3
    <3> HIDE DEF Batch
    <3> QED
      BY <2>5, <3>1
  <2>7. SomethingGiven' /\ SomethingGiven
    BY <1>2, <1>6, <2>6 DEF SomethingGiven
  <2>8. Len(played') + buffer'.count = Len(played) + buffer.count
    <3>1. Len(played') = Len(played) + 1 /\ buffer'.count = buffer.count - 1
      BY <2>2, <2>6
    <3>2. Len(played) \in Nat /\ buffer.count \in Nat
      BY <1>6
    <3> QED
      BY <3>1, <3>2
  <2>9. motion' \in {"FINISHED", "RUNNING"}
    BY <1>2, <2>1
  <2>10. CommandInv'
    BY <1>1, <1>2, <1>9, <2>7, <2>9 DEF CommandInv
  <2>11. FreshInv'
    BY <1>2, <1>3, <2>9, <1>1 DEF FreshInv, Early
  <2>12. PlayedInv'
    <3>1. \A n \in 1 .. Len(played') : played'[n] = Batch'.samples[n].q
      <4> TAKE n \in 1 .. Len(played')
      <4>1. CASE n = Len(played) + 1
        BY <1>10, <2>5, <2>6, <4>1
      <4>2. CASE n # Len(played) + 1
        <5>1. n \in 1 .. Len(played)
          BY <1>6, <2>6, <4>2
        <5> QED
          BY <1>4, <1>10, <2>6, <5>1
      <4> QED
        BY <4>1, <4>2
    <3>2. \A n \in 1 .. buffer'.count : Waiting'[n] = Batch'.samples[Len(played') + n].q
      <4> TAKE n \in 1 .. buffer'.count
      <4>1. n + 1 \in 1 .. buffer.count /\ Len(played) + (n + 1) = Len(played') + n
        BY <1>6, <2>2, <2>6
      <4>2. Waiting[n + 1] = Batch.samples[Len(played) + (n + 1)].q
        BY <1>4, <4>1
      <4> QED
        BY <1>10, <2>2, <4>1, <4>2
    <3>3. generated' => Len(played') + buffer'.count = Len(Batch'.samples)
      BY <1>1, <1>2, <1>10, <2>8 DEF PlayedInv
    <3>4. motion' = "FINISHED" => Len(played') = Len(Batch'.samples)
      <4>1. motion' = "FINISHED" => generated /\ buffer.count = 1
        BY <1>2, <2>1
      <4>2. generated => Len(played) + buffer.count = Len(Batch.samples)
        BY <1>1 DEF PlayedInv
      <4> QED
        BY <1>6, <1>10, <2>6, <4>1, <4>2
    <3>5. executed' = Len(played') /\ executed' \in 0 .. TimeCapacity
      <4>1. executed' = executed + 1 /\ Len(played') = Len(played) + 1
        BY <2>1, <2>6
      <4>2. Len(played) + 1 <= Len(Batch.samples)
        BY <1>4, <1>5, <1>6
      <4>3. TimeCapacity \in Nat
        BY ConfigAssumption DEF ConfigAssumption
      <4> QED
        BY <1>5, <1>6, <4>1, <4>2, <4>3
    <3>6. Len(played') + buffer'.count <= Len(Batch'.samples) /\ Batch'.ok
      BY <1>4, <1>10, <2>8
    <3> QED
      BY <2>6, <2>7, <3>1, <3>2, <3>3, <3>4, <3>5, <3>6 DEF PlayedInv
  <2>13. PlannerInv'
    BY <1>1, <1>2, <2>8, PlannerStays
  <2> QED
    BY <2>10, <2>11, <2>12, <2>13 DEF OwnInv
<1> QED
  BY <1>11, <1>12

\* The robot runs from the start on, with nothing given yet.
LEMMA PrepositionKeepsPlan ==
    ASSUME LiveInv, NEW good \in BOOLEAN, PrepositionCycle(good)
    PROVE  OwnInv'
<1>1. CommandInv /\ FreshInv /\ PlayedInv /\ PlannerInv /\ RingInv /\ HeldInv
  BY DEF LiveInv
<1>2. /\ motion = "PREPOSITION" /\ ready
      /\ actual' \in {actual, start}
      /\ (motion' = "RUNNING" /\ executed' = 0) \/ UNCHANGED <<motion, executed>>
      /\ UNCHANGED <<plan, solver, liveStream, check, total, inHand, planner, requests,
                     hold, cancel, ready, generated, start, played, buffer>>
  BY DEF PrepositionCycle, Command, plannerVars
<1>3. played = << >> /\ start # None /\ ~ Early
  BY <1>1, <1>2 DEF FreshInv
<1>4. actual' # NoSolution
  BY <1>1, <1>2, <1>3 DEF CommandInv, None, NoSolution
<1>5. motion' \in {"PREPOSITION", "RUNNING"}
  BY <1>2
<1>6. CommandInv'
  BY <1>1, <1>2, <1>4, <1>5 DEF CommandInv, SomethingGiven
<1>7. FreshInv'
  BY <1>1, <1>2, <1>3, <1>5 DEF FreshInv, Early
<1>8. PlayedInv'
  <2>1. CASE motion' = "RUNNING" /\ executed' = 0
    <3>1. Batch' = Batch /\ Waiting' = Waiting /\ SomethingGiven' = SomethingGiven
      BY <1>2, PlanStays DEF Waiting, SomethingGiven
    <3>2. Len(played) = 0 /\ 0 \in 0 .. TimeCapacity
      BY <1>3, ConfigAssumption DEF ConfigAssumption
    <3> QED
      BY <1>1, <1>2, <2>1, <3>1, <3>2 DEF PlayedInv
  <2>2. CASE UNCHANGED <<motion, executed>>
    BY <1>1, <1>2, <2>2, PlayedStays
  <2> QED
    BY <1>2, <2>1, <2>2
<1>9. PlannerInv'
  BY <1>1, <1>2, PlannerStays
<1> QED
  BY <1>6, <1>7, <1>8, <1>9 DEF OwnInv

\* In every other cycle the robot is given where it is or where it ended.
LEMMA RestKeepsPlan ==
    ASSUME LiveInv, FinishedCycle \/ (\E enabled \in BOOLEAN : HoldCycle(enabled))
    PROVE  OwnInv'
<1>1. CommandInv /\ FreshInv /\ PlayedInv /\ PlannerInv /\ RingInv /\ HeldInv
  BY DEF LiveInv
<1>2. UNCHANGED <<plan, solver, liveStream, check, total, inHand, planner, requests, motion,
                  hold, cancel, ready, generated, start, executed, played, buffer>>
  BY DEF FinishedCycle, HoldCycle, motionVars, plannerVars
<1>3. actual' # NoSolution
  BY <1>1 DEF FinishedCycle, HoldCycle, Command, CommandInv, None, NoSolution
<1>4. CommandInv'
  BY <1>1, <1>2, <1>3 DEF CommandInv, SomethingGiven
<1>5. FreshInv'
  BY <1>1, <1>2 DEF FreshInv, Early
<1>6. PlayedInv'
  BY <1>1, <1>2, PlayedStays
<1>7. PlannerInv'
  BY <1>1, <1>2, PlannerStays
<1> QED
  BY <1>4, <1>5, <1>6, <1>7 DEF OwnInv

\* Nothing happens to the plan while PATH_VALIDATION or a move of the joints does.
LEMMA NothingIsPlanned ==
    ASSUME LiveInv, UNCHANGED liveVars
    PROVE  OwnInv'
<1>1. CommandInv /\ FreshInv /\ PlayedInv /\ PlannerInv /\ RingInv /\ HeldInv
  BY DEF LiveInv
<1>2. UNCHANGED <<plan, solver, liveStream, check, total, inHand, planner, requests, motion,
                  hold, cancel, ready, generated, start, executed, played, buffer, actual>>
  BY DEF liveVars, motionVars, plannerVars, robotVars
<1>3. CommandInv'
  BY <1>1, <1>2 DEF CommandInv, SomethingGiven
<1>4. FreshInv'
  BY <1>1, <1>2 DEF FreshInv, Early
<1>5. PlayedInv'
  BY <1>1, <1>2, PlayedStays
<1>6. PlannerInv'
  BY <1>1, <1>2, PlannerStays
<1> QED
  BY <1>3, <1>4, <1>5, <1>6 DEF OwnInv

\* Every step keeps the invariant.
LEMMA LiveInvStep == LiveInv /\ [Next]_planningVars => LiveInv'
<1> SUFFICES ASSUME LiveInv, [Next]_planningVars
             PROVE  LiveInv'
  OBVIOUS
<1>1. RingInv' /\ HeldInv'
  BY RingStep, HeldStep DEF LiveInv
<1>2. OwnInv'
  <2>1. CASE UNCHANGED liveVars
    BY <2>1, NothingIsPlanned
  <2>2. CASE PlannerStep
    BY <2>2, TakeRequestKeepsPlan, ValidateKeepsPlan, JudgeKeepsPlan, OpenKeepsPlan,
       GenerateKeepsPlan, PushKeepsPlan, EndKeepsPlan, PublishKeepsPlan, AbortKeepsPlan
       DEF PlannerStep
  <2>3. CASE StopCommand \/ (\E request \in Plans : PlanCommand(request))
    BY <2>3, StopKeepsPlan, PlanCommandKeepsPlan
  <2>4. CASE EtherCATCycle
    BY <2>4, UnderrunKeepsPlan, RunKeepsPlan, PrepositionKeepsPlan, RestKeepsPlan
       DEF EtherCATCycle
  <2> QED
    BY <2>1, <2>2, <2>3, <2>4
       DEF Next, planningVars, Validating, Reported, Planner, PanelAndCycle, Moving
<1> QED
  BY <1>1, <1>2 DEF LiveInv, OwnInv

\* It holds before anything is planned.
LEMMA LiveInvInit == Init => LiveInv
<1> SUFFICES ASSUME Init
             PROVE  LiveInv
  OBVIOUS
<1>1. RingInv /\ HeldInv
  BY RingInit DEF Init, LiveInit, HeldInv, None
<1>2. /\ motion = "WAITING" /\ hold = TRUE /\ cancel = FALSE /\ ready = FALSE
      /\ generated = FALSE /\ executed = 0 /\ requests = None /\ planner = "WAIT"
      /\ check = NothingSeen /\ actual = <<0, 0>> /\ played = << >> /\ buffer.count = 0
  BY DEF Init, LiveInit, BufferInit
<1>3. ~ SomethingGiven
  BY <1>2 DEF SomethingGiven
<1>4. CommandInv
  <2>1. actual # NoSolution
    BY <1>2 DEF NoSolution
  <2>2. DOMAIN check = {"behind", "before", "passes", "result"}
    BY <1>2 DEF NothingSeen
  <2> QED
    BY <1>2, <1>3, <2>1, <2>2 DEF CommandInv
<1>5. FreshInv
  BY <1>2 DEF FreshInv, Early
<1>6. PlayedInv
  <2>1. played \in Seq({})
    BY <1>2
  <2> QED
    BY <1>2, <1>3, <2>1, ConfigAssumption DEF PlayedInv, ConfigAssumption
<1>7. PlannerInv
  BY <1>2 DEF PlannerInv
<1> QED
  BY <1>1, <1>4, <1>5, <1>6, <1>7 DEF LiveInv

-----------------------------------------------------------------------------
(* The types.                                                              *)

\* A segment in work has a count, and so has every one before it.
CountsInv ==
    /\ Len(program) \in Nat
    /\ segment \in 1 .. Len(program) + 1
    /\ \E S : counts \in Seq(S)
    /\ Len(counts) \in {segment - 1, segment}
    /\ checkPhase = "GENERATE_AND_VALIDATE_SAMPLE" => Len(counts) = segment
    /\ checkPhase = "PREPARE_SEGMENT" => Len(counts) = segment - 1

\* It holds before a program is validated.
LEMMA CountsInvInit == Init => CountsInv
<1> SUFFICES ASSUME Init
             PROVE  CountsInv
  OBVIOUS
<1>1. segment = 1 /\ counts = << >> /\ checkPhase \in {"IDLE", "PREPARE_SEGMENT"}
  BY DEF Init, CheckInit
<1>2. program = << >> \/ program \in Programs
  BY DEF Init, CheckInit
<1>3. Len(program) \in Nat
  BY <1>2, ProgramsAssumption DEF ProgramsAssumption, IsProgram
<1>4. counts \in Seq({}) /\ Len(counts) = 0
  BY <1>1
<1> QED
  BY <1>1, <1>3, <1>4 DEF CountsInv

\* What PATH_VALIDATION does keeps it.
LEMMA CountsInvStep ==
    ASSUME CountsInv, CheckInv, CheckStep
    PROVE  CountsInv'
<1>1. ASSUME NEW error, Fail(error)
      PROVE  CountsInv'
  BY <1>1 DEF Fail, CountsInv
<1>2. CASE PrepareSegment
  <2>1. \/ \E error : Fail(error)
        \/ /\ counts' = Append(counts, 0)
           /\ checkPhase = "PREPARE_SEGMENT"
           /\ checkPhase' = "GENERATE_AND_VALIDATE_SAMPLE"
           /\ UNCHANGED <<program, segment>>
    BY <1>2 DEF PrepareSegment
  <2>2. CASE /\ counts' = Append(counts, 0)
             /\ checkPhase = "PREPARE_SEGMENT"
             /\ checkPhase' = "GENERATE_AND_VALIDATE_SAMPLE"
             /\ UNCHANGED <<program, segment>>
    <3>1. PICK S : counts \in Seq(S)
      BY DEF CountsInv
    <3>2. counts \in Seq(S \cup {0})
      BY <3>1
    <3>3. counts' \in Seq(S \cup {0}) /\ Len(counts') = Len(counts) + 1
      BY <2>2, <3>2
    <3>4. Len(counts) = segment - 1 /\ segment \in 1 .. Len(program) + 1
          /\ Len(program) \in Nat
      BY <2>2 DEF CountsInv
    <3>5. Len(counts') = segment
      BY <3>3, <3>4
    <3> QED
      BY <2>2, <3>3, <3>4, <3>5 DEF CountsInv
  <2> QED
    BY <1>1, <2>1, <2>2
<1>3. CASE CheckSample
  <2>1. PICK stream, sample :
            (\E error : Fail(error)) \/ StoreChecked(stream, sample)
    BY <1>3 DEF CheckSample
  <2>2. /\ checkPhase = "GENERATE_AND_VALIDATE_SAMPLE"
        /\ segment \in 1 .. Len(program) /\ Len(program) \in Nat
        /\ Len(counts) = segment
    BY <1>3 DEF CheckSample, CheckInv, CountsInv
  <2>3. CASE StoreChecked(stream, sample)
    <3>1. PICK x : counts' = [counts EXCEPT ![segment] = x]
      BY <2>3 DEF StoreChecked
    <3>2. PICK S : counts \in Seq(S)
      BY DEF CountsInv
    <3>3. counts' \in Seq(S \cup {x}) /\ Len(counts') = segment
      BY <2>2, <3>1, <3>2
    <3>4. /\ program' = program /\ checkPhase' = PhaseAfter(stream)
          /\ segment' = IF is_finished(stream) THEN segment + 1 ELSE segment
      BY <2>3 DEF StoreChecked
    <3>5. CASE is_finished(stream)
      <4>1. checkPhase' \in {"PREPARE_SEGMENT", "FINALIZE"} /\ segment' = segment + 1
        BY <3>4, <3>5 DEF PhaseAfter
      <4> QED
        BY <2>2, <3>3, <3>4, <4>1 DEF CountsInv
    <3>6. CASE ~ is_finished(stream)
      <4>1. checkPhase' = "GENERATE_AND_VALIDATE_SAMPLE" /\ segment' = segment
        BY <3>4, <3>6 DEF PhaseAfter
      <4> QED
        BY <2>2, <3>3, <3>4, <4>1 DEF CountsInv
    <3> QED
      BY <3>5, <3>6
  <2> QED
    BY <1>1, <2>1, <2>3
<1>4. CASE FinalizeCheck
  <2>1. \/ \E error : Fail(error)
        \/ checkPhase' = "VALID" /\ UNCHANGED <<program, segment, counts>>
    BY <1>4 DEF FinalizeCheck
  <2> QED
    BY <1>1, <2>1 DEF CountsInv
<1> QED
  BY <1>2, <1>3, <1>4 DEF CheckStep

\* What PATH_VALIDATION does keeps its invariant.
LEMMA CheckInvStep ==
    ASSUME CheckInv, CheckStep
    PROVE  CheckInv'
BY PrepareIsPrepare, CheckIsCheck, FinalizeIsFinalize DEF CheckStep

\* The joint move on its way stays the one that was taken, whatever the others do.
LEMMA JointInvStays ==
    ASSUME JointInv, [Next]_planningVars
    PROVE  JointInv'
<1> SUFFICES ASSUME NEW move \in AllMoves, TakenInv(move), [Next]_planningVars
             PROVE  \E other \in AllMoves : TakenInv(other)'
  BY DEF JointInv, AllMoves
<1>1. CASE UNCHANGED jointVars
  BY <1>1 DEF jointVars, TakenInv, IsTrajectoryOf, MotionOf
<1>2. CASE joint_trajectory_next
  BY <1>2, JointInvStep
<1>3. UNCHANGED jointVars \/ joint_trajectory_next
  BY DEF Next, planningVars, Validating, Reported, Planner, PanelAndCycle, Moving
<1> QED
  BY <1>1, <1>2, <1>3

\* What the invariants say of the types.
LEMMA TypesAreKept ==
    ASSUME CheckInv, CountsInv, JointInv, LiveInv, use \in {"VALIDATION", "LIVE", "JOINT"}
    PROVE  PlanningTypeOK
<1>1. buffer.writeIndex \in 0 .. Capacity - 1
  <2>1. Capacity \in Nat \ {0}
    BY BufferAssumption DEF BufferAssumption
  <2>2. /\ buffer.count \in 0 .. Capacity
        /\ buffer.writeIndex = (buffer.readIndex + buffer.count) % Capacity
    BY DEF LiveInv, RingInv
  <2>3. PlaceOf(buffer.count) \in Ends /\ buffer.writeIndex = PlaceOf(buffer.count)
    BY <2>2, PlacesOfSamples DEF LiveInv
  <2> QED
    BY <2>3 DEF Ends
<1>2. buffer.count \in 0 .. Capacity /\ buffer.readIndex \in 0 .. Capacity - 1
  BY DEF LiveInv, RingInv, Ends
<1>3. sampleIndex <= Config.storageCapacity
  BY ConfigAssumption DEF CheckInv, ConfigAssumption
<1>4. {hold, cancel, busy, ready, generated} \subseteq BOOLEAN
  BY DEF LiveInv, HeldInv, CommandInv
<1>5. trajectory.next \in 0 .. trajectory.profile.samples
  BY DEF JointInv, TakenInv
<1>6. executed \in 0 .. TimeCapacity
  BY DEF LiveInv, PlayedInv
<1>7. motion \in {"WAITING", "PLANNING", "PREPOSITION", "RUNNING", "FINISHED", "HOLD"}
  BY DEF LiveInv, CommandInv
<1>8. segment \in 1 .. Len(program) + 1 /\ Len(counts) \in {segment - 1, segment}
  BY DEF CountsInv
<1>9. checkPhase \in {"IDLE", "PREPARE_SEGMENT", "GENERATE_AND_VALIDATE_SAMPLE",
                      "FINALIZE", "VALID", "INVALID"}
  BY DEF CheckInv
<1>10. {buffer.readIndex, buffer.writeIndex} \subseteq 0 .. Capacity - 1
  BY <1>1, <1>2
<1> QED
  BY <1>2, <1>3, <1>4, <1>5, <1>6, <1>7, <1>8, <1>9, <1>10 DEF PlanningTypeOK

\* What was executed is the beginning of one plan, the last one, that was accepted as
\* a whole, and the whole of it at the end: for all plans, solvers and limits, every
\* capacity of the buffer, and however STOP, new plans, lost exchanges and underruns
\* come between the planner and the cycle.  No array is written outside.
THEOREM PlayedIsPlanned == FairSpec => []PlanningInv
<1> DEFINE Inv == /\ CheckInv /\ CountsInv /\ JointInv /\ LiveInv
                  /\ use \in {"VALIDATION", "LIVE", "JOINT"}
<1>1. FairSpec => Init /\ [][Next]_planningVars
  BY DEF FairSpec
<1>2. Init => Inv
  <2> SUFFICES ASSUME Init
               PROVE  Inv
    OBVIOUS
  <2>1. JointInv
    BY JointInvInit DEF Init, JointInv, AllMoves
  <2>2. use \in {"VALIDATION", "LIVE", "JOINT"}
    BY DEF Init
  <2> QED
    BY <2>1, <2>2, CheckInvInit, CountsInvInit, LiveInvInit
<1>3. Inv /\ [Next]_planningVars => Inv'
  <2> SUFFICES ASSUME Inv, [Next]_planningVars
               PROVE  Inv'
    OBVIOUS
  <2>1. CheckStep \/ UNCHANGED checkVars
    BY DEF Next, planningVars, Validating, Reported, Planner, PanelAndCycle, Moving
  <2>2. CheckInv' /\ CountsInv'
    <3>1. CASE CheckStep
      BY <3>1, CheckInvStep, CountsInvStep
    <3>2. CASE UNCHANGED checkVars
      BY <3>2, NothingIsChecked DEF checkVars, CountsInv
    <3> QED
      BY <2>1, <3>1, <3>2
  <2>3. JointInv'
    BY JointInvStays
  <2>4. LiveInv'
    BY LiveInvStep
  <2>5. use' \in {"VALIDATION", "LIVE", "JOINT"}
    BY DEF Next, planningVars, Validating, Reported, Planner, PanelAndCycle, Moving
  <2> QED
    BY <2>2, <2>3, <2>4, <2>5
<1>4. Inv => PlanningInv
  <2> SUFFICES ASSUME Inv
               PROVE  PlanningInv
    OBVIOUS
  <2>1. PlanningTypeOK
    BY TypesAreKept
  <2>2. PlayedIsOnePlan
    <3> SUFFICES ASSUME played # << >>
                 PROVE  Batch.ok /\ IsBeginning(played, Batch.samples)
      BY Zenon DEF PlayedIsOnePlan
    <3>1. /\ Batch.ok /\ Len(played) + buffer.count <= Len(Batch.samples)
          /\ \A n \in 1 .. Len(played) : played[n] = Batch.samples[n].q
          /\ plan.path \in Plans
      BY DEF LiveInv, PlayedInv, CommandInv, SomethingGiven
    <3>2. Len(Batch.samples) \in Nat
      BY <3>1, PlansArePlanned, BatchIsSolved
    <3>3. buffer.count \in Nat /\ Len(played) \in Nat
      BY BufferAssumption DEF LiveInv, RingInv, PlayedInv, BufferAssumption
    <3>4. Len(played) <= Len(Batch.samples)
      BY <3>1, <3>2, <3>3
    <3> QED
      BY <3>1, <3>4 DEF IsBeginning
  <2>3. FinishedIsWhole
    BY DEF LiveInv, PlayedInv, FinishedIsWhole
  <2>4. VerdictIsOfWholePath
    BY DEF LiveInv, PlannerInv, VerdictIsOfWholePath
  <2> QED
    BY <2>1, <2>2, <2>3, <2>4 DEF PlanningInv
<1> QED
  BY <1>1, <1>2, <1>3, <1>4, PTL
=============================================================================
