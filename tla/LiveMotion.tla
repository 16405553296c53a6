----------------------------- MODULE LiveMotion -----------------------------
(***************************************************************************)
(* A path that is planned while it is followed: the planner task and the   *)
(* EtherCAT task of src/Legacy/old_simulator_main.c, the only user of the  *)
(* trajectory buffer.                                                      *)
(*                                                                         *)
(* The planner task first runs a stream of the path to its end and checks  *)
(* it, then runs another one and puts its samples into the buffer.  The    *)
(* EtherCAT task takes one sample per cycle.  It has the higher priority   *)
(* and never waits within a cycle, so a cycle is one step; a step of the   *)
(* planner goes from one critical section to the next.  A command of the   *)
(* panel is read at the start of a cycle, here as a step of its own.       *)
(***************************************************************************)
EXTENDS SegmentStream, TrajectoryBuffer

CONSTANTS
    Plans,          \* the requests that the panel sends
    Prefill,        \* TRAJECTORY_PREFILL_SAMPLES
    JointSpeed,     \* limits.qdMax, the way of a joint in a period
    JointRange,     \* the largest of limits.qMax
    MaxPlans,       \* bound on the plans that are sent
    MaxStops        \* bound on the STOP commands

VARIABLES
    motion,         \* motion_state
    hold,           \* hmi_hold_requested
    cancel,         \* planner_cancel_requested
    busy,           \* planner_busy
    ready,          \* trajectory_ready
    generated,      \* trajectory_generation_finished
    start,          \* trajectory_start_sample, if there is one
    final,          \* trajectory_final_sample, if there is one
    total,          \* trajectory_total_samples
    executed,       \* trajectory_executed_samples
    requests,       \* trajectory_request_queue, of one plan
    planner,        \* where the planner task is
    plan,           \* the command it works on
    solver,         \* how inverse kinematics behaves
    liveStream,     \* validation_stream, then execution_stream
    inHand,         \* the sample between its stream and the buffer
    check,          \* what the validation has seen
    actual,         \* the position of the robot
    target,         \* the position it is commanded to
    played,         \* the samples that reached the robot, for the properties
    plansSent, stopsSent

motionVars == <<motion, hold, cancel, busy, ready, generated, start, final, total,
                executed, requests>>
plannerVars == <<planner, plan, liveStream, inHand, check>>
robotVars == <<actual, target, played>>
panelVars == <<plansSent, stopsSent>>
liveVars == <<motionVars, plannerVars, robotVars, panelVars, solver, buffer>>

None == << >>

\* The streams of the plans: the seed is all that is not known beforehand.
Streams == [request \in Plans |-> single_line_stream_init(request)]
Opened(command) == [Streams[command.path] EXCEPT !.seed = command.seed]

NothingSeen == [behind |-> None, before |-> None, passes |-> TRUE, result |-> FALSE]

LiveInit(behaviour) ==
    /\ motion = "WAITING" /\ hold = TRUE /\ cancel = FALSE /\ busy = FALSE
    /\ ready = FALSE /\ generated = FALSE /\ start = None /\ final = None
    /\ total = 0 /\ executed = 0 /\ requests = None
    /\ planner = "WAIT" /\ plan = None /\ liveStream = NoStream
    /\ inHand = NoSample /\ check = NothingSeen
    /\ solver = behaviour
    /\ actual = <<0, 0>> /\ target = <<0, 0>> /\ played = << >>
    /\ plansSent = 0 /\ stopsSent = 0
    /\ BufferInit

-----------------------------------------------------------------------------
(* Commands of the panel.                                                  *)

StopCommand ==
    /\ stopsSent < MaxStops
    /\ stopsSent' = stopsSent + 1
    /\ hold' = TRUE /\ cancel' = TRUE
    /\ ready' = FALSE /\ generated' = FALSE
    /\ motion' = "HOLD"
    /\ trajectory_buffer_reset
    /\ UNCHANGED <<busy, start, final, total, executed, requests, plannerVars,
                   robotVars, plansSent, solver>>

\* Mutant: a plan is taken while the planner has not ended with the last one.
BugAccepts == motion \notin {"PLANNING", "PREPOSITION", "RUNNING"}

\* A plan is refused while there is one.
Accepts == ~busy /\ motion \notin {"PLANNING", "PREPOSITION", "RUNNING"}

\* The planner starts from where the robot is.  Its queue takes one plan.
PlanCommand(request) ==
    /\ plansSent < MaxPlans
    /\ plansSent' = plansSent + 1
    /\ Accepts
    /\ cancel' = FALSE /\ ready' = FALSE /\ generated' = FALSE
    /\ start' = None /\ final' = None /\ total' = 0 /\ executed' = 0
    /\ trajectory_buffer_reset
    /\ played' = << >>
    /\ IF requests = None
       THEN /\ requests' = << [path |-> request, seed |-> actual] >>
            /\ hold' = FALSE /\ busy' = TRUE /\ motion' = "PLANNING"
       ELSE /\ hold' = TRUE /\ busy' = FALSE /\ motion' = "WAITING"
            /\ UNCHANGED requests
    /\ UNCHANGED <<plannerVars, actual, target, stopsSent, solver>>

-----------------------------------------------------------------------------
(* The planner task.                                                       *)

TakeRequest ==
    /\ planner = "WAIT"
    /\ requests # None
    /\ plan' = requests[1]
    /\ requests' = None
    /\ liveStream' = Opened(requests[1])
    /\ check' = [NothingSeen EXCEPT !.passes = Opened(requests[1]).initialized]
    /\ planner' = IF Opened(requests[1]).initialized THEN "VALIDATE" ELSE "JUDGE"
    /\ inHand' = NoSample
    /\ UNCHANGED <<motion, hold, cancel, busy, ready, generated, start, final, total,
                   executed, robotVars, panelVars, solver, buffer>>

InRange(q) == \A joint \in 1 .. 2 : Abs(q[joint]) <= JointRange

Within(from, to) ==
    \A joint \in 1 .. 2 : Abs(to.q[joint] - from.q[joint]) <= JointSpeed * (to.t - from.t)

\* Over the last period at the second sample, over two periods from then on.
SpeedSeen(sample) ==
    IF check.before = None THEN TRUE
    ELSE IF check.behind = None THEN Within(check.before[1], sample)
    ELSE Within(check.behind[1], sample)

\* The result of the validation: with the speed at the last sample.
Judged ==
    /\ check.passes
    /\ check.behind # None => Within(check.behind[1], check.before[1])

\* A sample of the validation, or its end.
ValidateSample ==
    /\ planner = "VALIDATE"
    /\ LET next == single_line_stream_next(liveStream, solver)
       IN IF cancel
          THEN /\ planner' = "JUDGE"
               /\ check' = [check EXCEPT !.passes = FALSE]
               /\ UNCHANGED liveStream
          ELSE IF next.sample.ok
          THEN /\ liveStream' = next.stream
               /\ check' = [behind |-> check.before, before |-> <<next.sample>>,
                            passes |-> check.passes /\ InRange(next.sample.q)
                                       /\ SpeedSeen(next.sample),
                            result |-> FALSE]
               /\ UNCHANGED planner
          ELSE /\ planner' = "JUDGE"
               /\ liveStream' = next.stream
               /\ check' = [check EXCEPT !.result = is_finished(next.stream) /\ Judged]
    /\ UNCHANGED <<plan, inHand, motionVars, robotVars, panelVars, solver, buffer>>

\* Between the validation and the execution.
Judge ==
    /\ planner = "JUDGE"
    /\ planner' = IF cancel THEN "ABORT_HOLD"
                  ELSE IF check.result THEN "OPEN" ELSE "ABORT_WAIT"
    /\ UNCHANGED <<plan, liveStream, inHand, check, motionVars, robotVars, panelVars,
                   solver, buffer>>

\* A second stream over the same path, and the counters of its execution.
OpenExecution ==
    /\ planner = "OPEN"
    /\ liveStream' = Opened(plan)
    /\ total' = sample_count(Opened(plan))
    /\ executed' = 0
    /\ generated' = FALSE /\ ready' = FALSE
    /\ start' = None /\ final' = None
    /\ planner' = "GENERATE"
    /\ UNCHANGED <<motion, hold, cancel, busy, requests, plan, inHand, check, robotVars,
                   panelVars, solver, buffer>>

\* The next sample, when there is room for it.
Generate ==
    /\ planner = "GENERATE"
    /\ cancel \/ ~trajectory_buffer_is_full
    /\ LET next == single_line_stream_next(liveStream, solver)
       IN IF cancel
          THEN /\ planner' = "ABORT_HOLD"
               /\ UNCHANGED <<liveStream, inHand>>
          ELSE /\ liveStream' = next.stream
               /\ inHand' = next.sample
               /\ planner' = IF next.sample.ok THEN "PUSH"
                             ELSE IF is_finished(next.stream) THEN "COMPLETE"
                             ELSE "PRODUCER_FAILED"
    /\ UNCHANGED <<plan, check, motionVars, robotVars, panelVars, solver, buffer>>

\* Mutant: the sample is put into the buffer without another look at cancel.
BugStillWanted == TRUE

StillWanted == ~cancel

\* Mutant: one more sample than the buffer has room for.
BugEnough(last) == buffer.count + 1 > Prefill \/ last

\* Enough samples wait for the robot to start.
Enough(last) == buffer.count + 1 >= Prefill \/ last

\* The sample goes into the buffer unless the plan was cancelled meanwhile.
\* With enough samples, or the last one, the robot may go to the start.
PushSample ==
    /\ planner = "PUSH"
    /\ IF ~StillWanted
       THEN /\ planner' = "ABORT_HOLD"
            /\ UNCHANGED <<motion, ready, generated, start, final, buffer>>
       ELSE LET last == liveStream.next >= total
                enough == Enough(last)
            IN /\ trajectory_buffer_push(inHand.q)
               /\ start' = IF start = None THEN inHand.q ELSE start
               /\ final' = IF last THEN inHand.q ELSE final
               /\ generated' = (generated \/ last)
               /\ ready' = (ready \/ enough)
               /\ motion' = IF ~ready /\ enough /\ ~hold /\ motion # "HOLD"
                            THEN "PREPOSITION" ELSE motion
               /\ planner' = "GENERATE"
    /\ inHand' = NoSample
    /\ UNCHANGED <<hold, cancel, busy, total, executed, requests, plan, liveStream,
                   check, robotVars, panelVars, solver>>

\* The loop has ended with a failure or with the last sample; it may have been
\* cancelled since.
EndOfProducer ==
    /\ planner \in {"PRODUCER_FAILED", "COMPLETE"}
    /\ planner' = IF cancel THEN "ABORT_HOLD"
                  ELSE IF planner = "COMPLETE" THEN "PUBLISH" ELSE "ABORT_WAIT"
    /\ UNCHANGED <<plan, liveStream, inHand, check, motionVars, robotVars, panelVars,
                   solver, buffer>>

\* The planner is free again, whatever has become of the path meanwhile.
Publish ==
    /\ planner = "PUBLISH"
    /\ planner' = "WAIT"
    /\ busy' = FALSE
    /\ IF generated /\ ~ready /\ start # None
       THEN /\ ready' = TRUE
            /\ motion' = IF ~hold /\ motion # "HOLD" THEN "PREPOSITION" ELSE motion
       ELSE UNCHANGED <<ready, motion>>
    /\ UNCHANGED <<hold, cancel, generated, start, final, total, executed, requests,
                   plan, liveStream, inHand, check, robotVars, panelVars, solver, buffer>>

AbortPlan ==
    /\ planner \in {"ABORT_HOLD", "ABORT_WAIT"}
    /\ trajectory_buffer_reset
    /\ ready' = FALSE /\ generated' = FALSE /\ start' = None /\ final' = None
    /\ total' = 0 /\ executed' = 0
    /\ hold' = TRUE
    /\ busy' = FALSE
    /\ motion' = IF planner = "ABORT_HOLD" THEN "HOLD" ELSE "WAITING"
    /\ planner' = "WAIT"
    /\ UNCHANGED <<cancel, requests, plan, liveStream, inHand, check, robotVars,
                   panelVars, solver>>

PlannerStep ==
    \/ TakeRequest \/ ValidateSample \/ Judge \/ OpenExecution \/ Generate
    \/ PushSample \/ EndOfProducer \/ Publish \/ AbortPlan

\* The task waits for a plan, or for room in the buffer; otherwise it goes on.
PlannerWaits ==
    \/ planner = "WAIT" /\ requests = None
    \/ planner = "GENERATE" /\ trajectory_buffer_is_full /\ ~cancel

-----------------------------------------------------------------------------
(* A cycle of the EtherCAT task.  Enabled says whether all drives were in  *)
(* Operation Enabled at its start, good whether the exchange was complete. *)

\* The robot may follow, even when the answer is lost.
Command(position) ==
    /\ target' = position
    /\ actual' \in {actual, position}

Starved == trajectory_buffer_is_empty /\ ~generated

\* No sample is ready although more are to come.
Underrun ==
    /\ motion = "RUNNING" /\ ready /\ ~hold
    /\ Starved
    /\ ready' = FALSE /\ hold' = TRUE /\ cancel' = TRUE
    /\ motion' = "HOLD"
    /\ Command(actual)
    /\ UNCHANGED <<busy, generated, start, final, total, executed, requests,
                   plannerVars, played, panelVars, solver, buffer>>

\* The sample stays in the buffer until an exchange has carried it.
TakesSample(good) == good

RunCycle(good) ==
    /\ motion = "RUNNING" /\ ready /\ ~hold
    /\ ~trajectory_buffer_is_empty
    /\ Command(trajectory_buffer_peek)
    /\ played' = IF good THEN Append(played, trajectory_buffer_peek) ELSE played
    /\ IF TakesSample(good)
       THEN /\ trajectory_buffer_pop
            /\ executed' = executed + 1
            /\ motion' = IF generated /\ buffer.count = 1 /\ executed + 1 >= total
                         THEN "FINISHED" ELSE motion
       ELSE UNCHANGED <<buffer, executed, motion>>
    /\ UNCHANGED <<hold, cancel, busy, ready, generated, start, final, total, requests,
                   plannerVars, panelVars, solver>>

\* The robot is sent to the start at once, and runs when it is there.
PrepositionCycle(good) ==
    /\ motion = "PREPOSITION" /\ ready /\ ~hold
    /\ Command(start)
    /\ IF good /\ actual = start
       THEN motion' = "RUNNING" /\ executed' = 0
       ELSE UNCHANGED <<motion, executed>>
    /\ UNCHANGED <<hold, cancel, busy, ready, generated, start, final, total, requests,
                   plannerVars, played, panelVars, solver, buffer>>

FinishedCycle ==
    /\ motion = "FINISHED" /\ ~hold /\ final # None
    /\ Command(final)
    /\ UNCHANGED <<motionVars, plannerVars, played, panelVars, solver, buffer>>

\* In every other case, and whenever a drive is not enabled.
HoldCycle(enabled) ==
    /\ \/ ~enabled
       \/ hold
       \/ motion \notin {"PREPOSITION", "RUNNING", "FINISHED"}
       \/ motion = "RUNNING" /\ trajectory_buffer_is_empty /\ ~Starved
    /\ Command(actual)
    /\ UNCHANGED <<motionVars, plannerVars, played, panelVars, solver, buffer>>

EtherCATCycle ==
    \/ Underrun
    \/ \E good \in BOOLEAN : RunCycle(good) \/ PrepositionCycle(good)
    \/ FinishedCycle
    \/ \E enabled \in BOOLEAN : HoldCycle(enabled)

LiveStep ==
    \/ StopCommand
    \/ \E request \in Plans : PlanCommand(request)
    \/ PlannerStep
    \/ EtherCATCycle
=============================================================================
