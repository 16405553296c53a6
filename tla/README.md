# Verification of the robot supervisor

TLA+ models of the program in this repository, their model-checking runs and
their machine-checked proofs. The program drives a six-joint welding robot: BOOT
brings up the bus and the drives, HOMING and IDLE move and hold the robot, an
operator teaches a weld program through two windows, and a supervisor task decides
what the robot does with it, one state module at a time.

Run a model with `tlc -workers 2 -config X.cfg M` and a proof with `tlapm M.tla`,
both in this directory. Every configuration, with its module, is in
`PROJECT.json` under `runs`; which lines of the source each definition stands for
is there under `map`.

## 1. The system

| Part | Source | State it keeps | Operations | Hard behaviour | Model |
|---|---|---|---|---|---|
| Policy | `StateMachine/state_machine.c` | active, previous and resume state, execution mode, fault severity, three program flags, three emergency latches, last safety snapshot | one handler, 25 events | long legal sequences of events; latches that outlive their cause | `StateMachine` |
| Supervisor task | `StateMachine/supervisor_task.c` | the contexts of the eleven states, pending inputs and requests, the queue | take a message, forward an event, enter a state, step the active state | requests overwritten before they are read; contexts that outlive their run; queue limit | `SupervisorTask` |
| Publishers | `Simulation/supervisor_mock_main.c`, `HMI/hmi_task.c` | last inputs published, injected inputs | a round of messages per tick, a command per turn | preemption between two posts; edges and snapshots that disagree | `SupervisorTask` |
| BOOT, HOMING, IDLE | `States/state_boot.c`, `state_homing.c`, `state_idle.c` | phases, recovery attempts, counters of stable and of verifying cycles | one step per cycle | a bus recovered half way; drives that do not come up; inputs older than the robot's position | `Boot`, `Homing`, `Idle` |
| EtherCAT, drives | `EtherCATComm/`, `ServoDrive/` | slave states, CiA 402 states, process data, healthy cycles | exchange, recovery, controlword | a short working counter, lost slaves, trips | `Bus`, `Drive` |
| TEACHING | `States/state_teaching.c` | draft, segment in work, speed | select, record, speed, submit, reset | points inherited, retried, refused; capacity | `Teaching` |
| PATH_VALIDATION | `States/state_path_validation.c` and the RAM storage | program under check, indices, artifact, storage | one step of bounded work | interrupted half way; seams between segments | `PathValidation`, `SampleCheck` |
| APPROACH | `States/state_approach.c` | route of legs, indices of validation and motion, counters | one step per cycle | holds, replanning, permission lost, verification | `Approach` |
| PATH_EXECUTION | `States/state_path_execution.c` | phase, request, sample index, relay command | one step per cycle, resume | relay across pause and abort; timeout | `PathExecution` |
| PAUSED, FAULT, EMERGENCY_STOP | `States/state_paused.c`, `state_fault.c`, `state_emergency_stop.c` | a phase each | one step per cycle | outputs forced safe late or not at all | `StopStates` |
| Motion planning | `ControlCore/` | none, or a stream: profile, path, seed, index | open, next sample; plan at once; joint move | four shapes of a profile; arithmetic at their borders; a seed that carries a posture on | `SCurve`, `ArcLength`, `SegmentStream`, `JointMotion` |
| Trajectory buffer and its users | `ControlCore/Execution/trajectory_buffer.c`, `Legacy/old_simulator_main.c` | ring of positions; motion state, flags of planner and cycle | push, peek, pop; plan, stop, cycle | producer and consumer at either limit; a stop between two critical sections | `TrajectoryBuffer`, `LiveMotion` |
| HMI windows and protocol | `HMI-Mock/`, `HMI/hmi_protocol.c`, the UDP receiver of `supervisor_mock_main.c`, `hmi_task.c` | sequence numbers, table of peers, retained event, guidance pose | send, receive, filter, post | datagrams lost, repeated, reordered; restarted windows; a pose read while it is written | `HmiPanels`, `HmiLink` |
| Rest of the earlier simulators, mock hardware, scripts | `Simulation/simulator_main.c`, `Simulation/MockHardware/`, `*.sh` | | | superseded or stand-ins | not modelled |

The parts interact in one direction each: windows send datagrams, the HMI task
turns them into commands, publishers post messages, the supervisor task hands
events to the policy, the policy names the active state, the task enters it and
steps it, and turns its result into the next event. Two paths bypass the events:
the *inputs* of a state (permission, safety flags, requests), which messages
overwrite in the context of the task, and the *services* of a state (relay, hold,
targets, storage, the bus), which act on the hardware at once.

## 2. Modules

| Module | Models | Composes |
|---|---|---|
| `WeldProgram` | abstract: what the supervisor promises about a program | |
| `StateMachine` | the policy, one action per event | implements `WeldProgram` |
| `PathExecution` | PATH_EXECUTION, one operator per phase and per end of a step | |
| `PathExecutionRun` | the same under the dispatch of the task, failing services and a clock | `PathExecution` |
| `Approach` | APPROACH, one operator per phase and per end of a step | |
| `ApproachRun` | the same under the dispatch, permission and pauses | `Approach` |
| `StopStates` | the three stop states | |
| `SupervisorTask` | queue, cycle, entry and step of every state, publishers, priorities | `StateMachine` (which it implements), `PathExecution`, `StopStates` |
| `Drive`, `Bus` | statusword and controlword; master, slaves, process data | `Bus` extends `Drive` |
| `Boot`, `Homing`, `Idle` | the three states on the bus | `Bus` |
| `Startup` | from power-on to IDLE and back again, under the dispatch | `Boot`, `Homing`, `Idle` |
| `Teaching` | the draft and the operator's events | |
| `PathValidation` | the validation and the storage, sample lengths and checks left open | `Teaching` |
| `Authoring` | TEACHING and PATH_VALIDATION under the supervisor | `PathValidation` |
| `HmiPanels`, `HmiLink` | what the windows send; the way of it to the supervisor | `HmiLink` extends `HmiPanels` |
| `SCurve`, `ArcLength` | a jerk-limited profile; a path at equal distances | |
| `SegmentStream` | the samples of a segment one by one, or of a line all at once | `SCurve`, `ArcLength` |
| `SampleCheck` | PATH_VALIDATION over real streams, every check of a sample | `SegmentStream` |
| `JointMotion` | the quintic move of the joints in HOMING and APPROACH | |
| `Fifo` | abstract: what a buffer promises | |
| `TrajectoryBuffer` | the ring | |
| `LiveMotion` | planner task and EtherCAT cycle around the ring | `SegmentStream`, `TrajectoryBuffer` |
| `Planning` | the three users of trajectories | `SampleCheck` (implements `PathValidation`), `LiveMotion` (implements `Fifo`), `JointMotion` |
| `MCStateMachine`, `MCSupervisorTask`, `MCAuthoring`, `MCPlanning` | constants of the instances | |
| `StateMachineProofs`, `StartupProofs`, `PathExecutionProofs`, `ApproachProofs`, `AuthoringProofs`, `PlanningProofs`, `LinkProofs`, `SupervisorTaskProofs` | theorems and proofs | |

Names follow the source. An action is a whole handler: the transition, the entry
into the next state and every output that belongs to it happen in one step,
because the task runs to the end of a cycle without giving way to a lower task.
Where a higher task can come in between, the model has two steps: between any two
messages of the publisher, between two messages taken by the task (a tick wakes
the task, and it takes what is there), between two critical sections of the
planner, and between two coordinates of a pose that a lower task writes.

### How state and actions correspond

* **`StateMachine`.** The variables are the fields of `StateMachine`, less the
  diagnostics. `ready` of a snapshot is the conjunction of four flags the policy
  only reads together. Rejected events that change something (the code has three)
  are actions; rejected events that change nothing are stuttering.
* **`SupervisorTask`.** `TakeMessage` is one turn of the receive loop, `Step` is
  `run_active_state()` with the event it emits, `Tick` wakes the task, and
  `PublishRound`/`PublishPost` are the publisher, message by message. HMI commands
  come with `HmiTurn`. The states that have no module here report any result they
  can report at any step. TEACHING_EVENT and TEACHING_RUNTIME messages are left
  out: nobody posts the one, and the other only feeds TEACHING.
* **`Drive`, `Bus`.** A statusword is the set of its bits that are set, decoded
  with the masks of `cia402.c`. An exchange sends `outputs` and brings `inputs`;
  what was lost on the way is seen in the working counter only, as in the code.
  `withInputs` are the slaves that have mapped inputs, which BOOT checks after it
  has enabled the drives. The drives that follow their command although the answer
  is lost are chosen freely. Slaves and drives answer when they like.
* **`Boot`, `Homing`, `Idle`.** One action is one step function. In `Homing` a
  position is a sample of the trajectory. `Startup` adds the entries, the
  disturbances (a slave that drops, a drive that trips), the stops and RESET;
  `AWAY` stands for the states of a program, `FAULT` for every stop state.
* **`PathExecution`, `Approach`.** `StepRuns`, `StepFails` and `StepCompletes` are
  the three results of a step function. Services succeed or fail, freely. `relay`
  is the hardware, `wireFeedCommanded` what the software believes. In `Approach` a
  position is a leg and a sample of it; `checked` and `sent` are history.
* **`Teaching`, `PathValidation`.** A point is a place and a setup. The checksum of
  a draft is its contents, that is, collisions of the CRC are left out. A sample
  is the place it commands; its checks are one outcome. One action is one turn of
  the loop of `state_path_validation_step()`; no command is taken in between
  (`validating`). After a result the indices only feed the report and are dropped.
  `OVERRUN` stands for what follows a write past the array.
* **`Authoring`.** `MOTION` stands for a run or a homing, `STOPPED` for FAULT and
  EMERGENCY_STOP with their recovery; what they do to the program flags is what
  `StateMachine` does.
* **`SCurve`, `ArcLength`, `JointMotion`.** The polynomials in whole numbers:
  a path in sixths (a place in thirty-sixths) of a unit, speed doubled, so that
  every half and sixth stays exact, and limits for which the roots are whole. The
  order of the code's cases, the forced ends and the count of the samples are its
  own; rounding is not modelled.
* **`SegmentStream`, `SampleCheck`.** A stream is a value, and what it does to
  itself is a new value. Joints are two coordinates, the first one shifted in one
  of the two postures that reach a place; the solver keeps the posture of its seed,
  ends as soon as it is near enough, and gives up out of reach, which is what the
  callers rely on. The checks of a sample come in their order.
* **`LiveMotion`.** A cycle of the EtherCAT task is one step, a step of the planner
  ends where it takes a lock or releases one, a command of the panel, read at the
  start of a cycle, is a step of its own. `played` is history.
* **`HmiPanels`, `HmiLink`.** Datagrams in flight are a set of bounded size: any
  of them is lost, or received, once or again, in any order. A status may be any that was ever
  published, so a window acts on whichever it likes. `peers` is the table of the
  receiver, `pending` the event the HMI task keeps while the queue is full, and the
  guidance pose is written coordinate by coordinate. `acceptedEvents` are the events
  among the datagrams accepted (history).

## 3. Runs

Bounds are in the configurations. Sizes are distinct states.

| Run | Question | Bounds, and why they are enough | States |
|---|---|---|---|
| `policy` | Do authorisation, mode, resume destination and recovery agree over every sequence of events, and is the policy a `WeldProgram`? | no bound: every state of the policy, both execution policies, representative snapshots and severities | 4.9 k |
| `startup` | Does BOOT end without moving the robot, is what is enabled, homed and held really so, and is a lost slave noticed? | 2 drives, a trajectory of 3 samples, every counter as small as the case beyond it allows, 1 disturbance at any time | 116 k |
| `path_execution` | Is a run whole, its end unambiguous, the relay right at every sample, and does an abort end? | 3 samples (first, middle, last), 2 stable readings, timeout of 3 ticks | 2.7 k |
| `approach` | Is the route checked, complete and started from rest, and does an approach end? | 1 or 3 legs (first, inner, last) of up to 4 samples, 2 checked per step so that a leg takes one step or two | 42 k |
| `authoring` | Is a draft a chain of real segments, and a validated trajectory the whole of what was submitted? | 3 places, 2 setups, 2 speeds, 2 segments, streams of up to 3 samples, storage for 4, 2 samples per step, 3 edits, 2 programs: a first and a last segment, a boundary inside a step and between two, a full storage, and a second program after every end of the first | 2.1 M |
| `supervisor_operator` | Does a run work on what was authorised, and does a request reach the step? | every command, no stop input, every result of every state | 2.5 M |
| `supervisor_recovery` | Is what the tasks do a behaviour of the policy? | emergency stops, Preview and recovery | 2.2 M |
| `supervisor_stops` | Does the queue hold, and does a lasting stop input stop the robot? | all stop inputs in any order, HMI two turns late | 271 k |
| `link` | Is a command accepted once, in order and at last, and does the robot end where the operator let go of the target? | 3 ports and 2 slots (8 in the code: a full table), a sequence word of 3 bits (a wrap), 2 commands of each window, 1 restart, 2 datagrams in flight, a queue of 1 | 1.2 M |
| `planning` | Do profiles keep their limits, are stored and played trajectories whole and smooth, and does the planner never hang? | 8 programs of up to 2 segments × 9 arms (every shape of a profile, every check that fails), 5 plans × 4 solvers, a ring of 2 (256 in the code, filled and emptied by every plan), 2 plans, 2 stops, joint moves of time 1 to 6 by period 1 to 3 | 189 k |

`QueueLength` is as tight in each supervisor run as the property `QueueHasRoom`
allows, 3 + the number of inputs + `HmiTurns`: the room that is checked is less
than the 32 messages of the code. A trajectory has one sample in the supervisor
runs; the length of a trajectory is the subject of `path_execution`.

The two remaining runs, `policy_emergency_home` and `authoring_capacity`, are
expected to fail: see section 6.

**Properties.** Each is stated in words where it is defined. Some invariants are
conjunctions of parts with names of their own, each a claim to read by itself:

| Invariant | Parts |
|---|---|
| `PolicyInv` | types, `ProgramLifecycle`, `ModeMatchesState`, `RunningProgramIsAuthorised` |
| `RunInv` of `PathExecutionRun` | types, the whole path before the retraction, an unambiguous end, what the relay is in each phase |
| `RunInv` of `ApproachRun` | types, and how far plan, checks and motion are: `RouteCheckedBeforeMotion`, `RouteWithoutGaps` and `CompletionAtTarget` follow |
| `DraftIsSound` | types, `SegmentsAreChained`, segments with an extent, one speed |
| `TaskInv` | types, what a run, a request and the relay belong to |
| `LinkInv` | types, `NoEventIsLost` |
| `PlanningInv` | types, `PlayedIsOnePlan`, `FinishedIsWhole`, `VerdictIsOfWholePath` |
| `ProfileIsFeasible` | `ProfileArrives`, `ProfileKeepsLimits` |
| `JointMoveIsSound` | `JointMoveArrives`, `StepsWithinPeak` |
| `NeitherWaitsForGood` | `HeldPlannerGivesUp`, `PlanIsDecided` |

Of the others, `ImplementsWeldProgram`, `ImplementsPolicy` and
`ImplementsPathValidation` are refinements; `RecoveryDropsProgram`,
`ResumeDestinationIsCurrent`, `RunContextIsCurrent`, `ArtifactBacksValidation`,
`TrajectoryIsOfSubmission` and `TrajectoryIsWhole` say that flags, contexts,
artifact and storage belong to the same program; `RequestReachesTheStep`,
`StopIsOnItsWay`, `StopInputStopsRobot` and `QueueHasRoom` are about messages;
`SamplesMatchRelay`, `RouteStartsFromRest`, `StoredTrajectoryIsSmooth`,
`HeldRobotStays`, `MovesOnlyInMotion` and `HomingEndsAtHome` about motion.

**Fairness.** Only what the scheduler gives:

* `SupervisorTask`: the supervisor task is never starved, being the highest, so
  taking a message or stepping is weakly fair, and so is the tick. The publisher
  runs only while the task waits, again and again, because a cycle is shorter than
  its period: strong fairness of a post. The HMI task has no fairness: an operator
  need not do anything.
* `Startup`: cycles are run, and those whose frame returns among them; a bus may
  lose any frame, but not every one. Nothing is assumed of slaves and drives.
* `PathExecutionRun`: the clock ticks, and a cycle that finds the stop out of time
  is run. A cycle as a whole is not fair, for that would make the robot stop.
* `ApproachRun`: a cycle is run. `ApproachEnds` claims an end only while nobody
  pauses and permission stays.
* `Authoring`: a validation step is begun, continued and ended.
* `HmiLink`: the HMI task, the input task and the supervisor run. The network has
  no fairness: `AcceptedIsDelivered` begins where a command was accepted.
* `Planning`: the planner task is weakly fair, with `ENABLED` written out as
  "unless it waits". The cycle of the bus has none, so the planner may not depend
  on it where `NeitherWaitsForGood` says that it ends.

## 4. Proofs

TLC checks the instances above; the theorems hold for every value of the
constants that satisfies the named assumptions.

* **`StateMachineProofs`.** `PolicyInv` strengthens the type invariant by the
  program lifecycle, the mode of every state and the authorisation of the run; it
  is preserved event by event, in three groups (safety, operator, results of
  states). From it follow the types, `LifecycleInOrder`, `ModesMatchStates`,
  `ExecutionAuthorised` and `StartsPermitted`. `ResumeIsCurrent` needs an invariant of
  the resume destination beside it (`ResumeInv`); this theorem, `EmergencyAcknowledgement` and
  `RecoveryIsDestructive` are proved under the assumption that no reported fault
  carries the severity EMERGENCY, which no source of the program uses. The last
  theorem is the refinement: every event is a step of `WeldProgram` or leaves it
  alone.
* **`StartupProofs`.** `StartupInv` joins the types of the process data (`BusTypeOK`),
  what BOOT has left untouched in each phase (`BootInv`: no drive is enabled before
  the bus was stable, and a drive in reach of Operation Enabled is commanded to the
  position that was read from it), the healthy cycles (`HealthInv`) and what the
  inputs show (`MotionInv`: from the end of HOMING on, where the robot is). From it:
  `MovesInMotionOnly`, `StableBeforeEnabled`, `HomedAtHome`, and, with the types of
  the rest, `StartupTypes`.
* **`PathExecutionProofs`.** `RunInv` adds to the types what the phase says of the
  index, of the abort reason and of the relay, under which `PAUSED` opens the
  relay behind the back of the state. From it: the whole path before the
  retraction, an unambiguous end, the right relay at every sample, and, if every
  relay command is issued, the relay closed only while a Production run follows
  its trajectory (`RelayOnlyForWelding`).
* **`ApproachProofs`.** `RunInv` says for every phase how far planning, checking
  and sending have come: the route is a sequence of places, and the checked and
  the sent ones are prefixes of it. The route properties follow from the prefixes.
* **`AuthoringProofs`.** `DraftInv` says of the segment in work that it begins
  where the last stored segment ends, was recorded in the setup of the draft, and
  has the speed of the draft; the stored segments then form a chain at one
  speed. `ValidationInv` carries the draft on: what is submitted is well formed
  (so no check of the snapshot or its structure can reject it), the storage holds
  exactly the samples that were counted, and a result `VALID` comes with a commit
  that names the submitted program. `ReleaseInv` ties the permission to follow a
  trajectory to that result; from the three follow `SubmissionIsWellFormed` and
  `TrajectoryIsOfSubmission`. With the bound
  on the edits (`EditInv`) and the indices of the validation within their arrays
  (`IndexInv`), which no other part needs, they give `DraftIsSound`. `PassageInv`
  follows the two passes: the first sample of the storage is the first taught
  point, every seam that was passed lies where the counts of the first pass put
  it, and the storage has as many samples as were counted. The sum of the counts
  is the one place where a fold is unfolded, step by step, with the counts it
  has gained; from it `TrajectoryIsWhole`.
* **`PlanningProofs`.** The ring: `RingInv` (the writing index is the reading
  index plus the count, modulo the capacity) makes it a queue for every capacity:
  `RingIsFifo` is the refinement of `Fifo`. `HeldInv` (a busy planner of a held
  robot is cancelled) gives `HeldRobotIsStill`.

  Moves and profiles: `JointMovesAreSound` turns the quintic around the middle of
  its duration, where it is odd, which bounds every step by the peak; `JointInv`
  and `TakenInv` carry that over the samples. `ProfilesAreFeasible` shows for each
  of the four shapes that its phases are that of a profile (`IsShapeFor`), takes
  the places of the seven corners in closed form (`Corners`), and shows of a single
  phase that it keeps the limits of its ends and grows (`SegmentKeepsLimits`,
  `SegmentGrows`); `StreamsInv` says that every stream has such a profile.

  Validation: `CheckInv` follows a segment through the streams. `OpenedFor` says
  of an open stream that its first and last samples are at the taught points, for
  lines, arcs and circles (`PathEnds`, `SamplesOfProfile`), and that of those
  between, each failed check ends the program; this is the refinement
  `CheckIsValidation`. `StoredIsSmooth` rests on one fact about a path at equal
  distances, that the place on it moves no faster than the distance
  (`PlaceFollows`, for the new points `NewPointsAreAPath`, which cut the corners
  of the taught ones), and on the speed limit of the profile (`SamplesFollow`).
  `SmoothInv` has three parts beside the goal: the sample remembered as the
  previous one is the last stored (`IsRemembered`), a segment opens at the place
  where the one before it ended (`IsAtSeam`), and what is stored of the open one is
  on its stream (`IsOnStream`).

  Execution: `PlayedIsPlanned` (that is, `PlanningInv`) compares what the robot was
  given, sample by sample from a stream, with the line that the older planner gives
  all at once. Both choose the same shape, times and motions (`ShapesAgree`,
  `SegmentsAgree`, `ScalingIsProfile`), and the solutions along a line are one chain,
  each solved from the one before it, whoever walks it (`SolvedIsSolved`); so a
  stream that has given k samples is at the k-th of the line (`Reached`,
  `StreamGoesOn`). The validation sees three samples at a time, the older planner
  the whole line: their verdicts are the same (`Seen`, `VerdictIsWhole`). `LiveInv`
  carries this through the interleavings, beside `RingInv` and `HeldInv`: `CommandInv`
  says which plans are being worked on, `FreshInv` that an old plan has
  left nothing for a new one, `PlannerInv` where the planner is in its stream, and
  `PlayedInv` that what was executed and what waits in the ring are together the
  beginning of one accepted line. It is kept step by step (`StopKeepsPlan` to
  `RestKeepsPlan`); `CheckInv`, `CountsInv` and `JointInv` give the types of the rest.
* **`LinkProofs`.** Of the counts of a port less than half the range of the
  sequence word is in use, so that a word stands for one count (`WordIsCount`) and
  the signed difference of two words orders them (`WordsCompare`). A slot of the
  receiver then remembers the largest count taken of its port (`SlotInv`), and
  since a session keeps its port (`DatagramInv`), nothing of a session is taken
  twice or out of order (`OrderInv`), nor the newest refused. `PoseInv` follows the
  last pose taken until it is consumed. Assumed: a window sends fewer commands than
  half the range (`WidthAssumption`), a panel that is about to wrap around is the
  one that was started first, and a window that has used up half the range is not
  restarted (`Restart`); the other half would take 2^31 commands.
* **`SupervisorTaskProofs`.** `BaseInv` (only messages are in the queue, and the
  policy is in order) makes every step of a task an event of the policy or none:
  `PolicyImplemented` is the refinement, and what is proved of the policy is used
  for the rest. `ArtifactIsCommitted` and `RunContextStaysCurrent` relate the
  policy to what the task keeps beside it. `QueueInv` counts, for each phase of a
  tick, what is in the queue and what is still to be posted: a round and the
  commands of HMI fit into one cycle, which therefore ends with an empty queue.
  From it: `QueueAlwaysHasRoom` and, since a request is then made by the last
  message of a batch, `RequestsReachTheStep`. `StreamInv` looks at the queue and
  the rest of the round as one stream, in which a snapshot that raises an input
  comes with the event, or after it with nothing between that clears the input:
  `StopStaysOnItsWay`. `NothingIsLeftOver` (that is, `TaskInv`) needs the phases
  of PATH_EXECUTION again (`WrapperInv`), what the publisher has published
  (`PublishedInv`) and which state the relay belongs to (`RelayInv`): whoever
  leaves PATH_EXECUTION has opened the relay, or enters, in the same cycle, a state
  that does. Assumed for that: the HMI task is not late, and the relay obeys
  (`RelayReplies = {TRUE}`, as in the three runs; one that refuses may stay
  closed, as section 6 says of `begin_abort()`). Assumed for the queue: it and a cycle hold 3 + the number
  of stop inputs + `HmiTurns` messages (`Sizes`; every run is set to exactly this,
  the code has 32 and 16), and `SELECT`, which alone leads to TEACHING, is not
  followed by another command in the same batch; for the requests that the HMI
  task is not late, as in section 6.

Proved and not a property of a run, because the run checks something stronger or
of which it is a part: `BufferImplementsFifo`, `RevisionIdentifiesDraft`,
`AcknowledgedEmergencyHasNoProgram`, `ExecutionStartsPermitted`,
`RelayOnlyForWelding`, `StartupTypeOK`.

The theorems about profiles and paths assume what the models of them are made for,
whole numbers (`ProgramsAssumption`, `PlansAssumption`): the roots and quotients
that lay out a profile leave no rest, taught points lie one behind the other
along an axis, and a place between two points of a path is whole. Rounding is thus
no part of what is proved. They assume of a program what TEACHING guarantees (a
line has two points, a circle comes back, a segment begins where the one before it
ends: `DraftIsSound`), and nothing of the arm but that its tolerance is a number.
`IsPlan` adds for the earlier simulator that the planner that gives a line all at
once has room for it (`TimeCapacity`): without it there is no line to compare with.

Only model-checked: everything under fairness (`StopInputStopsRobot`, `AbortEnds`,
`ApproachEnds`, `ValidationEnds`, `BootEnds`, `LostSlaveStopsRobot`,
`AcceptedIsDelivered`, `NeitherWaitsForGood`), which the prover cannot treat. Every
other invariant and action property of a passing run is stated by a theorem, or
follows from one.

## 5. Not modelled

* **Numbers.** Kinematics, rotations, the geometry of a circle, singular values
  and collisions are outcomes or parameters. Rounding is left out of `SCurve` and
  `JointMotion`, with one exception where the code depends on it: the fastest
  speed of teaching in `PathValidation`.
* **The rest of the earlier simulators**: `simulator_main.c` and the start-up of
  `old_simulator_main.c` are superseded by BOOT, HOMING and
  `supervisor_mock_main.c`; SIGINT and `stop_requested` end the process.
  `hmi_state_bridge.c` and the panels of the legacy simulator go with them.
* **Discovery and configuration of slaves** (the mapping of the process image, the
  registers of a drive) are one outcome of BOOT: they answer once or fail.
* **Mock hardware and scripts**: stand-ins for what the models leave free.
* **Drawing and layout** of the windows, and the layout of a status. Statuses are
  lost and not filtered by their sequence; what a window may do under an old one is
  in `HmiPanels`.
* **Time**: that a cycle fits into its period is assumed.
* `state_teaching_set_circle_direction()`, `state_teaching_set_orientation_mode()`,
  `state_path_validation_cancel()` and `hmi_task_submit()`, which the supervisor
  does not call.
* The supervisor passes no clearance poses to APPROACH (one leg); the module and
  the run cover up to what the interface allows.

## 6. What the models show about the code

Two runs are expected to fail, each on one property that restates a sentence of
the repository; `PROJECT.json` quotes it under `findings`.

| Run | What happens |
|---|---|
| `policy_emergency_home` | A protective stop during EMERGENCY_STOP moves the robot to FAULT, and RESET from there to HOMING: the emergency ends without the Home command. |
| `authoring_capacity` | A full draft refuses a segment but keeps its points; the next points are written behind the array. |

Seen on the way, without a run. In the supervisor and its states:

* `begin_abort()` discards the reply of `set_wire_feed_enabled(false)`
  (`state_path_execution.c:117`), which the phase DISABLE_WIRE_FEED treats as a
  failure (`:230`): an abort may report its end with the relay closed.
* `approach_abort()` reports ABORTED in the step of the request, with the last
  sample still commanded (`state_approach.c:110`, `RUNTIME_STATES.md:45`).
* A rejected draft is retained in memory "to offer retry" (`state_machine.c:911`),
  but the only way back to TEACHING clears it (`supervisor_task.c:117`).
* FAULT may be left before its outputs were forced safe: the supervisor discards
  the result of its step (`supervisor_task.c:631`). FAULT also exchanges nothing,
  so a fault bit that is in the process image stays there.
* `emergencyStopReleased` outlives its emergency (`state_machine.c:674`).
* The comparison of program, revision and checksum at the start of a run compares
  the artifact with itself (`supervisor_task.c:194`).
* VERIFY_CLEARANCE has no timeout (`state_path_execution.c:258`).
* A teaching event that is posted outside TEACHING would stay pending
  (`supervisor_task.c:369`); nobody posts one.
* A Reset and a Pause in one batch lose the Reset, because the request is a field
  the next inputs overwrite. Two commands reach one batch only when the HMI task
  is late and makes up for its turns; `SupervisorTask` with `HmiTurns = 2` and the
  commands of `supervisor_operator` shows it as a violation of
  `RequestReachesTheStep`.

In start-up: a BOOT that fails at VERIFY_CSP_MODE leaves the drives enabled, and
RESET goes to HOMING with a mode that was never verified; a slave without inputs is
noticed only after its drive was enabled at a position that was never read
(`state_boot.c:966`), which is why `MovesOnlyInMotion` has a premise; a following
error is not looked at in HOMING before VERIFY_HOME.

In teaching and planning:

* The fastest speed of teaching, `0.100F`, is as a double more than
  `max_tcp_speed_mps`, so a draft at full speed is always rejected
  (`TooFast` in `PathValidation`).
* After a first segment, selecting the next one already captures its first point:
  from there the draft can be submitted only once that segment is complete.
* The peak of a quintic move, which HOMING and APPROACH compare with the limit, is
  the largest over the samples and too small when none lies at half the duration;
  hence the premise of `StepsWithinPeak`.
* The last sample of a stream lies less than a period after the one before it, but
  is replayed a whole period later. The acceleration from rest into the first
  sample is not checked.
* A path of more than 512 points is reported as DEGENERATE_GEOMETRY.
* The earlier simulator sends the robot to the start of a path in one step
  (PREPOSITION); the normal build does not contain it.

In the link: a pose that a closed window sent may arrive after it was restarted and
count as new; a window restarted on the port of its predecessor is ignored until
its numbers catch up; so is a ninth peer, for good; E-STOP is a toggle, so a lost
datagram is pressed again and a late one undoes it; a pose that is read half
written is corrected by the next read.

## 7. Plan

Done: the policy, the supervisor task with its publishers, start-up on the bus,
TEACHING and PATH_VALIDATION, APPROACH, PATH_EXECUTION, the stop states, the
trajectories with the ring and its users, and the way of a command from the
windows; eight modules of proofs. What would come next:

1. **Motion**: APPROACH and PATH_EXECUTION as an abstract *activity* (entered,
   stepped, held, ended once) that both implement.
2. **Proofs**: profiles whose roots and quotients leave a rest, with bounds in
   place of the equalities.
3. **Composition**: `Startup` under `SupervisorTask`, so that the results of BOOT,
   HOMING and IDLE come from their modules.
