# A TLA+ model of MotoROS2

MotoROS2 is a micro-ROS node that runs on a Yaskawa robot controller.  A ROS 2 client sends it trajectories through an
action (FollowJointTrajectory) or point by point through a service; it interpolates them into position increments, one
queue per control group, and hands one increment per group to the motion kernel at every interpolation clock.  Line
numbers refer to `src/src/` unless a directory is given.

Contents: [the system](#the-system), [modules](#modules), [runs](#runs), [what the runs showed about the
code](#what-the-runs-showed-about-the-code), [proofs](#proofs), [not modelled](#not-modelled), [plan](#plan).

## The system

### Tasks

| task | code | priority | what it does |
|---|---|---|---|
| main | `main.c:52-226` | normal | one session with the Agent after another; refreshes the controller's status |
| motion executor | `CommunicationExecutor.c:301-526` | normal | spins the action server, the motion services, the ping and the feedback timer |
| I/O executor | `CommunicationExecutor.c:282-299` | normal | spins the I/O services and the link monitor timer |
| AddToIncQueueProcess, one per group | `MotionControl.c:361-579` | normal | interpolates the trajectory of its group into its queue |
| IncMoveLoop | `MotionControl.c:750-1124` | highest | every interpolation clock: queue to motion kernel |

They share memory.  The only locks are the `q_lock` of each queue and the two semaphores the executors end with;
everything else (`hasDataToProcess`, `bStopMotion`, `AllGroupsInitComplete`, the trajectory buffers, the status,
`AgentIsConnected`, the active goal handle) is read and written by several tasks as it is.

### Components

| component | state | operations | must hold |
|---|---|---|---|
| increment queue (`MotionControl.c`, `CtrlGroup.h:26-41`) | ring, `idx`, `cnt`, `q_lock` | add one, take a period's worth, count, clear | FIFO, no increment overwritten, one task at a time, producer never stuck |
| motion pipeline (`MotionControl.c`) | buffer, iterator, `timeLeftover_ms` and `hasDataToProcess` of each group, `bStopMotion`, `AllGroupsInitComplete`, deferred pulses and speeds | Init, StopMotion, ClearQ_All, the two loops | an ended goal is still; no goal moves before all groups are ready; a buffer is not replaced under its reader; every goal ends; no pulse is lost or sent too fast |
| validation (`MotionControl.c:24-355`) | the buffers | Init, InitTrajectory, Convert… | accepts the well formed requests, and others only for equal times; a rejected one moves nothing; every point of an accepted one is executed |
| FJT action server (`ActionServer_FJT.c`) | active and rejected goal handle, pending result, feedback message | goal, cancel, feedback and result timer | one result for each goal, the one decided last; the feedback message lives as long as it is written to |
| executors, ping, link monitor (`CommunicationExecutor.c`), main (`main.c`) | `AgentIsConnected`, semaphores, `bLinkWasUp` | connect, spin, ping, monitor, tear down | nothing is released under its user; a lost Agent is noticed; the session ends |
| controller status (`ControllerStatusIO.c`) | `ioStatus`, error flags | IoStatusUpdate, IsMotionReady, IsAnyFaultActive, IsInMotion, reset | an edge acts once; readiness is not reported in a fault |
| motion modes (`MotionControl.c:1360-1641`, `ServiceStart*Mode.c`, `ServiceStopTrajMode.c`) | `ActiveMotionMode` | start, stop, validate | a new mode finds nothing left of the one before; a mode ends when motion is lost |
| point queue (`MotionControl.c:622-745`, `ServiceQueueTrajPoint.c`) | second slot of the buffer, `MustInitializePointQueue` | queue a point | points are executed in order from where the robot is, none twice or left out; BUSY is not for ever |
| control groups (`CtrlGroup.c`, `ControllerStatusIO.c:37-221`) | axis types, conversion ratios, joint names | create, pulse and radian conversions, joint orders | conversions are inverse; all joints have configured names or all have defaults |
| position monitor (`PositionMonitor.c`) | published names and positions | initialise, update | a value stands under the name of its axis |
| configuration (`ConfigFile.c`) | settings, the file on the stick and on the controller | copy, parse, validate | half a copied file is noticed; settings and names are those of the file |
| job check (`InformCheckerAndGenerator.c`) | the job INIT_ROS | create, check | its own job passes, a job for other groups does not |
| I/O services (`ServiceReadWriteIO.c`) | none of their own | read and write bits, groups, registers | only addresses in range are touched; what is written is read back |
| tool selection, calibration, debug, allocation | the tool of each group, buffers | assign, parse, print | - |

They interact by direct calls (the executors call the pipeline), shared flags (between the tasks of the pipeline, and
`AgentIsConnected` between all), timers (ping, feedback, link monitor: callbacks inside the spin of an executor), and
the robot job, which the status and the answers of the motion kernel report.

### What is hard here

* `StopMotion` waits for the tasks of the groups with a time-out and lowers its flag either way, while they may sleep in
  a segment or on a full queue.
* `ClearQ_All` runs in the main task (alarm), the executor (cancel) and IncMoveLoop (rejected move), at any point of
  the task that fills the queue.
* A new goal zeroes and refills a buffer which the task of the group reads without a lock.
* Three tasks leave their loops on one flag, which a late ping can set again; they wait for each other without time-out.
* The motion mode is judged by sampling a status that two tasks refresh; motion may be lost and found again between two
  samples, with points queued, half converted or half executed.
* A queued point is marked for one group after another while each group's task takes it at its own pace.
* Pulses a speed limit defers are tracked over cycles, by differences, while new ones come in and motion is paused or
  stopped at any moment.
* A goal may be canceled before or after its verdict, or although turned down, and its result waits for the client.
* A goal's verdict depends on tolerances with defaults, sentinel values and three joint orders.

The `hazards` of `PROJECT.json` list these and others at their lines, each with the properties that cover it, or with a
note on what none covers.

## Modules

### IncFifo, IncQueue: the increment queue

`IncFifo` is the promise: a bounded FIFO of increments; a cycle takes the oldest and perhaps further ones of the same
format, and delivers them together; a clear drops what no cycle has taken.

`IncQueue` is the code: `data`, `idx`, `cnt` are the fields of `inc_q`, `q_lock` the binary semaphore (with its
time-out: `LockTimeout` is possible whenever another task holds it), `pc` the place of each task.  `AddCall … AddCnt`
are `AddPulseIncPointToQ` (the room test stands before the lock, as in the code; slot and count are written in two
steps), `IncTick … IncSend` a cycle of `IncMoveLoopStart`, `ClearCall … ClearCnt` are `ClearQ_All` on this queue.  The
increments themselves are abstracted to the time and the format the combining loop compares.  `Queued` (the ring read
from `idx`) and the move in hand are the refinement mapping to `IncFifo`.

### MotionPipeline: goals, tasks, stops

The executor (`pc["exec"]`), IncMoveLoop (`pc["inc"]`), one `add[g]` for each group's task, and the status refresh.
`GoalReceived`, `InitZero`, `InitFill`, `InitGroup`, `InitGroupFails`, `InitDone` are `Ros_MotionControl_Init` cut
where another task may run; `AddTop … AddAdvance` the loop of `AddToIncQueueProcess`, each test of a shared variable
and each step after it an action; `StopRaise … StopReturn` are `StopMotion`, run by executor or IncMoveLoop.  A queue
is the sequence `IncQueue` implements; its elements are tagged with the goal they were interpolated from, as is what a
buffer holds.  IncMoveLoop has the highest priority, so its cycle is one step.  `overtaken` is a history variable:
another task reset `hasDataToProcess` while the task of the group was inside a segment (StopMotion ran out of time, or
an alarm cleared the queues), or left a queue as it was because its lock was not to be had (1288).  `EndedGoalIsStill`,
`BufferOwned` and `StopNeverRejects` hold only without it.  `EndedGoalGoesNoFurther` holds with it as well: what is left
moving of an ended goal is the rest of the segment each task is in, never a further point.

External: the robot job (`RobotStops`, `OperatorResumes`) and `RealStatus`, what its I/O would answer. Not in this
module: point queue mode (`MotionMode`), positions and velocities, the speed limit (`IncMove`), what the client sends.

### IncMove: the increments of a trajectory and the speed limit

Where `MotionPipeline` counts increments, `IncMove` follows what is in them.  `BeginSegment`, `FullStep`,
`PartialStep` (`Interpolate`), `LeaveSegment`, `Discard`, `EndTrajectory` are the segments of `AddToIncQueueProcess`
in trajectory mode, with `timeInc_ms` and `timeLeftover_ms` exactly as the code keeps them; the step of an axis, which
the code computes with a cubic, is any member of `Increments`.  Times are relative to the first point, whose own
`time_from_start` the code takes as the start (184).  A segment may have no length (points with equal times).  `Cycle`
is a tick of IncMoveLoop up to the send (`Combined`, `Taken`: what it reads; `Due`, `SkipNext`, `SpeedLimit`,
`ToSend`: the tracking), `Send` and `Drop` the send, `Idle` the other branch.  A stop and the loss of readiness come
at any moment.

Positions matter by differences: `moved` is how far the command position is from `prevPulsePosData`.  External: how
much of an increment the robot processes under the limit of the safety unit (`Parts`: anything from nothing to all of
it, axis by axis), and its readiness.  Ghosts: `owed`, what the robot is short of all increments taken from the queue;
`fastest`, the most taken for one period; and four that name the cases the properties exclude, each a behaviour of the
code described [below](#what-the-runs-showed-about-the-code): `evened`, `noticed` with `fresh`, `short`, `torn`.

### ActionServer, FjtServer: one result for each goal

`ActionServer` is the promise to a client: a goal is taken up when the one before it is over, executed, decided once (a
cancel may still come before the result is out), reported once as decided, or lost with the session.

`FjtServer` is the code: `active`, `rejected`, `ready`, `response`, `goalState` and `feedback` are the variables of
`ActionServer_FJT.c`; `GoalAccepted` and `GoalRejected` are `Goal_Received`, `GoalCancel`, `ProcessFeedback`,
`ProcessResult`, `Initialize`, `Cleanup` the functions of these names, and `Complete` the part of `Goal_Complete` they
share (the verdict is a free choice here, `GoalOutcome` there).  The handlers run in one executor, so each is one
action; the feedback timer runs `ProcessFeedback` and `ProcessResult` in one callback, so nothing else comes in
between (`turn`). External: rclc, which has one goal handle (`CommunicationExecutor.c:356-364`) and takes no goal
until the result of the one before is out, refuses a result nobody asked for and may fail to send one; the client;
robot and modes.  The mapping (`LifeOf`, `ResultOf`) says how far each goal has come.

Motion is `still`, of a goal, of the point queue, or `deferred`: pulses the speed limit holds back, which `IsInMotion`
does not see.  `StopMotion` may give up waiting and leave motion behind.

### ConfigFile, JointNames, JointOrder, InformJob: the start up

One main task runs through the phases `usb`, `open`, `parse`, `groups`, `job`, `monitor`, `running` (or `asserted`), and
from the end of a session back to `groups`.

* `ConfigFile`: `CheckUsb … Rename` are `CheckUsbForNewConfigFile`, with the loss of power, a pulled stick and failing
  reads at every chunk; `Open`, `CheckYamlEvent` (`ReadValue`, `ReadJointName`, `FindKey`, `SequenceStart`,
  `SequenceEnd`) the parser, event by event, with its statics and the flat array of names; `Validate` the two
  validations.  A file is a sequence of YAML events, an address the network it lies in.
* `JointNames`: `InitController`, `NextGroup`, `CreateGroup` create the groups and name their axes; `InitMonitor` is
  what the position monitor publishes; `Resolved` and `SentBack` what `Ros_MotionControl_Init` makes of names that
  come back.
* `JointOrder`: pure operators for the two orders of the axes (5 and fewer axes with gaps, 6, 7) and the conversions
  between them, positions in ROS units as rationals, and the compensation of the B axis of a slave.  `JointNames` has
  the compensation on acceptance (`Accepted`) and the one on execution (`TargetPulses`).
* `InformJob`: `CreateJob`, `CheckJob` and their failures are `ValidateJob`; `EditJob` is the operator, between
  sessions.  The check of the header has room for `MAX_GROUP_COMBINATIONS` lines of `MAX_GROUP_ITEMS_IN_COMBINATION`
  groups (four and three in the code); with a header that does not fit (`HeaderFits`), its outcome is left open and
  the task may go no further (`CheckJobOverruns`).

### IoServices: bits, groups, registers

Six services, as `Read` and `Write` for three sizes of datum: `IsValidAddress` is the code's check of ranges (those of
the YRC1000) with the wrap of a `UINT32`, `Targets` the addresses handed to the controller, `Split` and `Joined` the
bits of a group. `mpReadIO` and `mpWriteIO` are external and may fail.

### MotionMode: motion modes and the point queue

`mode`, `mustInit` and `allInit` are `Ros_MotionControl_ActiveMotionMode`, `…MustInitializePointQueue` and
`…AllGroupsInitComplete`; `slot0` and `slot1` the two entries of `trajectoryToProcess` the point queue uses, as the
number of the point in them.  Points are numbered as they are accepted, the increments between two points counted, and
`pos` is the last increment the robot made: enough to say whether it moves on from where it stands.

The executor serves one request in a turn, then validates the mode.  `StartRequest`, `StartUpdate … StartCheck` are
`StartMotionMode`, cut where it waits or refreshes the status; `StopRequest … StopReply` `stop_traj_mode` with
`StopMotion`, which IncMoveLoop also calls; `QueueRequest`, `InitZero … InitDone` the first point after a start,
`QueueMark`, `QueueMarked` each further one, marked group by group; `ResetRequest`, `ResetUpdate` `reset_error`;
`Validate` the end of a turn.  `AddTop … AddAdvance` are the tasks of the groups, `IncCycle`, `IncRejected`
IncMoveLoop.  `IoStatusUpdate` stands in each action of a task that calls it, and in `StatusTask`.

External: the job INIT_ROS and its output 889 (`JobOff`, `JobOn`), what takes motion away (`Loss`: hold, alarm, servo
off, key switch) and the operator.  A client may call any service at any time and queue what `Kinds` lists: points
above the speed limit of some groups (`fast`, looked at group by group when the point is executed), and points not
later than the one before (`early`, looked at nowhere).  What makes a point invalid is a free choice (`QueueRefused`,
`InitFails`).

Facts about time assumed here, each named in the module: `JobIsQuick` (the job reaches its WAIT within
`MOTION_START_TIMEOUT`), `Slept200` (within the 200 ms before the last test the job is at its WAIT, or stopped on the
way, and the status has been refreshed since; a `StopMotion` of IncMoveLoop, 20 polls of a tick each (1200-1270), that
began before the job was started is over: with two losses of motion the test could otherwise succeed on a status of
before the second, and the clear of that stop come after a first point), `OffIsSeen` (a refresh falls into the 50 ms
in which the job has the output off), `TasksSettled` (a task that had a point when motion was lost is through with it
when a start has switched on servo power), and an operator who is slower than a refresh of the status and a turn of
the executor (`noticed`).

### TrajectoryCheck: what is accepted, and the walk through it

`CheckSizes`, `CheckJoint`, `ConvertPoint`, `StartGroup`, `Accept` follow `Init`, joint by joint and point by point
through the buffer, with the early returns in the code's order; `Advance` and `NoMorePoints` are the walk of the task
of a group, including the comparison with the address behind the array (`ValidAt` reads the field behind it).
`WellFormed` is the reference definition: what a client must send, without order or buffers, with times that rise from
point to point as the comment and the messages of the code demand.  `Backward` compares against the buffer as the code
does, not against the request, and with `<`: so `VerdictExact` says that what is accepted is well formed but perhaps
for repeated times (`Repeats`), and the run `equal_times` that it is not always well formed.

### AgentLink: sessions with the Agent

`main`, `comm` and `io` are the places of the three tasks, `semComm` and `semIo` the semaphores (full, empty, or
deleted), `executors` that the executors exist, `connected` the shared flag.  The configuration (`stopOnDisconnect`)
and whether the link monitor runs are chosen freely.  `traj` says how far a trajectory is: accepted only, or with
increments in a queue, which is when `IsInMotion` sees it, `deferred` by the speed limit, or `escaped` from a
`StopMotion` that gave up waiting.  `late` is a history variable: the goal of the trajectory was decided, and some of
it is not sent.

Two facts about time are assumed, and named in the module.  `Awake`: the tasks have one priority, and a task that
sleeps or waits for another is overtaken by one just created; without it the handshake with semaphores created full
would not work at all.  `MainSeesStill`: main looks for motion after a sleep of a second, in which a trajectory already
accepted gets its first increments into the queue and the executor ends a spin that is not waiting for a ping (three
attempts of a second).

### GoalOutcome: the verdict

`GoalComplete` is `Ros_ActionServer_FJT_Goal_Complete(GOAL_COMPLETE)`: parsing of `goal_tolerance` into the joint order
(the last entry for a name wins, unknown names are passed over), reordering of the last point, defaults, the time test
with `abs()` on an int.  Positions and times are small integers; `IntWidth` scales the width of an int to
them, and `IntHalf` is the first number it does not hold.
`Reached`, `InTime` and `Asked` are the reference.

## Runs

| run | instance | shows |
|---|---|---|
| `inc_queue` | ring of 2, two formats, two times, one clearer | `OneTaskInQueue`; `RoomStays`; `ImplementsFifo` (refinement); `ProducerNotStuck` |
| `pipeline` | 1 group, 3 points, 1 increment each, queue of 1, 2 goals, 1 fault | types; `EndedGoalIsStill`; `BufferOwned`; `StopNeverRejects`; `EndedGoalGoesNoFurther`; `GoalEnds` |
| `motion_mode` | 1 group, 3 points, good or fast, 1 increment each, 2 starts, 1 loss of motion | types; `StartsClean`; `Continuous`; `PointTaken` |
| `mode_two_groups` | 2 groups, 3 points, good or early, 1 start, 1 loss | `Continuous` with independent tasks |
| `trajectory` | 2 groups of 1 joint, 3 slots, times -1..2 | `VerdictExact`, `BufferComplete`, `RejectedMovesNothing`, `EveryPointWalked` |
| `equal_times` | as `trajectory` | violation of `OnlyWellFormed` |
| `link` | all sessions | `TasksOutlivedByTheirObjects`, `TrackerFindsFeedback`, `SessionEnds` |
| `outcome` | 2 joints, 2 tolerance entries, int of 4 bits; any 2 I/O requests | `VerdictExact`; `AccessConfined`, `ReadBack` |
| `fjt` | 3 goals, 2 sessions | `FeedbackForUndecided`; `KeepsPromise` (refinement); `Answered` |
| `incmove` | 1 group, 2 axes, 2 segments of 0, 1 or 3 at a period of 2, queue of 2 | `NeverFaster`, `LeftoverExact`, `PeriodKept`, `NothingLost`, `StopIsFinal`, `Settles` |
| `startup` | controllers of 1 to 3 groups, 16 files, 3 networks, header check of 2 lines | `PartialFileIsKnown`, `SettingsAsFiled`, `NamesAsConfigured`, `SentBackIsStill`, `JobJudgedRightly` |
| `gateway` | as `startup`, one controller | violation of `GatewayAccepted` |

Why these bounds.  Queue: with two slots the ring wraps, is empty, partly filled and full; two formats and times let a
cycle combine or refuse to; a second clearer adds no new relation to the lock (the theorems hold for any number).
Pipeline: two goals are needed for one to meet what another left; three points give a first, a middle and a last
segment; a queue of one slot is full as soon as it is used, so the producer waits in every way it can; one fault may
strike anywhere, and it may be a hold or an alarm.  `StopPolls` 1 lets the wait run out at once.  `MaxGoals` and
`MaxFaults` are the only counters.  Modes: three points are the one compared with the position, one in execution and
one that waits; the second start meets what the first and a loss of motion left; a queue of one slot makes the
producer wait.  With two groups one start is enough, since the question is whether their tasks stay in step; early
points are there because a jump over one must not bring the groups out of step.  Fast points of some groups only,
early points after a second start, and the pipeline with several groups are left to the theorems, which hold for any
number of groups and all kinds of points.  `MaxPoints`, `MaxStarts` and `MaxFaults` are the counters.  Trajectory:
three slots are the smallest array with an inner point, and a request may fill it; the stamps include negative, zero,
equal and decreasing ones; the names cover permuted, repeated, unknown and missing joints.  Link: sessions repeat
without a counter, so the state space is finite and complete.  Outcome: the durations are equal, within, just outside
the tolerance, and 8 and 16 apart, which an int of four bits turns negative and to zero.  I/O: the addresses lie on
and beside every limit the code has (first and last of a range, digits 8 and 9, the number of a register against its
address, one that wraps); two requests are one write and one read.  FJT: one goal is active, the next turned down, the
third meets what both left; the second session meets what a session cut short left.  Increments: a segment of 3 is a
period and a half, so that its rest is made good by the next; one of 1 is shorter than a period; one of 0 makes no
increment; two segments give one such seam; a step forth on one axis and back on both lets new pulses add to, cancel
and turn what is missing.  `MaxSegments` counts over all trajectories, so a second trajectory may meet what the first
left.  Start up: groups of 5 (with gaps; one with its B axis a slave), 6 and 7 axes, on a base, and a station; three
groups have more lines in their job than the check, of two lines there, has room for; files with lists, blank or
absent names, a list too short, too long and with a blank entry, settings before and after them, wrong values; ports
in and out of the Agent's network; a file of two chunks may be cut in the middle.

Deadlock is checked for the queue and the link.  It is switched off where a bounded client may run out of goals
(pipeline) or of points (modes), for the checks that end with a verdict, and for the start up, which may end in an
assertion.

Fairness.  Tasks run on a preemptive scheduler and all of them sleep, so each is weakly fair.  In `IncQueue` the
taking of the lock by IncMoveLoop is strongly fair: it has the highest priority, so it cannot lose the semaphore to
the others for ever.  In `AgentLink` the ping is strongly fair: its timer is periodic, so it comes up in some spin.
In `MotionMode` the executor, the tasks of the groups, IncMoveLoop, the refresh of the status and the running job are
weakly fair. In `FjtServer` the timer is weakly fair (its executor is one task, and the timer periodic); a result that
is asked for again and again gets out at some point, and a motion ends unless the robot is left stopped: `GoalEnds` of
`MotionPipeline`.  In `IncMove` the clock ticks for ever; no queue is locked at every tick, and the limit lets
something through again and again. No fairness is given to the client, the operator, the link, the Agent, goal
requests, failing status reads, or the link monitor. `GoalEnds` assumes that the job is not left on hold for ever,
since the code then waits, and rightly.  `SessionEnds` assumes that the Agent stays away from some time on, and allows
main to end in its assertion.

Every property of a passing run has a mutant: a definition next to the original that a plausible bug would give
(`RoomInQOffByOne`, `StopKeepsQueue`, `GroupFailsAlone`, `FirstGroupBusy`, …), and with it the property fails under
the same configuration.

## What the runs showed about the code

`equal_times` - two points of a trajectory may have the same time: `MotionControl.c:316` tests `<`, although its
comment (312), its message (318) and the answer to the client (`ActionServer_FJT.c:300`) say that each must be later
than the one before.

`gateway` - `HostOnNetworkInterface` (`ConfigFile.c:503`) asks whether the gateway lies in the network of the *Agent*
under the mask of the port.  A gateway is a host of the port's own network, so this can only be where the first test
(493) has succeeded already: a gateway never helps, although the comment at 499 and `doc/troubleshooting.md:519` say
it does.

Met while modelling, without a run of its own.  Goals, points and verdicts:

* The time of a queued point is never compared with that of the point before: the comparison at 308 is for `i != 0`,
  and a queued point is a sequence of one.  A point that is not later makes no increment (465) but becomes the start
  of the next segment (562), whose first increment is then the whole distance (527).  `Continuous` allows this one
  jump (`Leads`).
* The `continue` of the velocity check (397) continues the loop over the axes.  In point queue mode `hasDataToProcess`
  stays off for good: one more point is accepted with SUCCESS, and every later one answered BUSY.  `PointTaken` is
  about groups that were given no such point (`Waits`).
* The comparison at 548 is with one past the "last possible entry": a trajectory of exactly 200 points is followed past
  the array.  (`ValidAt` reads the field behind it, so `EveryPointWalked` holds.)
* `abs()` cuts the 64 bit difference to an int (`ActionServer_FJT.c:714`): 4.29 s off counts as in time.  `VerdictExact`
  is stated for durations that fit.
* A cancel of a goal that was turned down, as while the point queue moves the robot, calls `StopMotion` all the same.
  Its message then says CANCELED and its state ABORTED (`StateIsStatus` allows this one case).
* A client that never asks for its result keeps the server from taking another goal (one handle); `Answered` is about
  clients that ask.
* `UpdateProgressTracker` (`ActionServer_FJT.c:408`) asks only whether a goal is active, which it stays until its
  result is fetched, while the feedback message is freed with the verdict.  It writes through the freed message if a
  cancel or an abort left increments moving (the wait of `StopMotion` ran out), if a goal completed with deferred
  pulses left, and if the point queue is started before the result is fetched.  `TrackerFindsFeedback` excludes the
  first two (`late`); `AgentLink` has no point queue.
* A goal completes although the speed limit still holds pulses back: `IsInMotion` looks at queue and data only.

Increments (`IncMove`):

* When new pulses of the opposite direction come up to exactly those missing, nothing is due, but the `continue` at
  993 leaves the new pulses in `moveData`: they are sent, and if the queue is empty then, nobody corrects them
  (`evened`).
* A stop that begins and ends between two ticks leaves `toProcessPulses` as it was: what the limit deferred of the
  cancelled goal is still sent (`noticed`).  `skipReadingQ` and the speeds survive any stop.
* A segment whose end falls on the end of a period leaves `timeLeftover_ms` of the one before (only segments shorter
  than a period can): from there on the periods are shifted (`short`).
* Motion that is not ready at one test of the segment loop (465) and ready again at the next makes the rest of the
  segment fall out; the next increment goes the whole distance, in one period (`torn`).
* In trajectory mode the compensation of the B axis is applied when the points are stored (170-178) and again when
  they are executed (424-429); `SentBackIsStill` shows that the start is accepted as the robot's position with one
  compensation, and leaves out this axis where it speaks of the targets.
* Speeds are checked (386) and positions interpolated (442, 486) for the first `numAxes` axes in moto order.  Where
  there are gaps between the axes (`CtrlGroup.c:547-572`), the last one is not among them: it stays put within a
  segment and makes its whole way in the last increment.

Start up and I/O:

* A `joint_names:` without a value leaves the item open: the keys and values after it are taken for joint names.  A
  blank entry is accepted silently if another list is too long, although `doc/troubleshooting.md:656` rules it out.
  The copy of a name clears the next three slots; behind the last group it clears settings.
* A key the parser does not know leaves no item open, so its text is looked up as the next key (`ConfigFile.c:365`): a
  text that happens to be a key makes the key after it a value (excluded by `FilesAssumption`).
* A failing read of the stick ends the copy without an alarm, and the file is renamed as processed (`unread`).
* The check of the job accepts one that is cut short (`LinesOk`).  Its array holds four lines of three groups
  (`InformCheckerAndGenerator.c:141-143`), but up to eight groups are supported: with five or more the job the program
  itself generated is written past the array (206), and a group found only there is not looked for (227).
  `JobJudgedRightly` is stated for headers that fit.
* A group number above 429496729 wraps when multiplied by ten, and numbers from 100000 reach the registers as bits
  (`Astray`); a group that cannot be read is answered with bits that were never set.

Tasks and modes:

* `AddToIncQueueProcess` tests `AllGroupsInitComplete` (367) and its own group (370) apart; a new goal in between lets a
  group start before the others are initialised, although the comment at 242 says the flag prevents it.
* "All motion should be stopped at this point" (1248) does not hold if the wait of `StopMotion` ran out: the segment
  loop (465) does not look at `bStopMotion`.
* The ping stores its result over the link monitor's disconnection (`CommunicationExecutor.c:219`).
* main stops looking for motion before it joins the executor that may still accept a goal (`main.c:199`).
* `stop_traj_mode` in an idle point queue fails the first time: `hasDataToProcess` stays set between two points,
  nobody resets it, and the wait of `StopMotion` runs out (`ServiceStopTrajMode.c:59`); the second call succeeds.
* `StartMotionMode` answers "Already active" and sets no mode when the robot is ready without one (1381).
* The static `bLinkWasUp` survives a session (`CommunicationExecutor.c:241`).
* `ClearQ_All` on an alarm does not stop a task inside its segment from adding increments (`overtaken`).  In
  `StartMotionMode` the same window of one period lies behind the clear at 1515; `TasksSettled` assumes it away.

## Proofs

`IncQueue_proofs` holds the theorems of `IncQueue`, for every size of the ring, every set of increments and any number
of clearing tasks (assumptions: `QSizeAssumption`, `DataAssumption`, `TaskAssumption`).

* `Inductive`: `Spec => []IInv`.  The invariant joins `TypeOK`, `OneTaskInQueue` and `RoomStays` with
  `MoveInHand` (between the first pop and the send the cycle has at least one increment, which `SamePeriod` looks at)
  and `StoredInPlace` (between the two steps of the producer its increment is where the count will find it).  The
  latter two are needed because the first three are not inductive alone: a pop types only with a move in hand,
  and the count appends to the queue only if the slot has been written.
* `TypeCorrect`, `Exclusion`, `RoomKept`: the parts, as properties of `Spec`.  `Exclusion` says that the lock is taken
  exactly while one task is inside, time-outs included.  `RoomKept` is the reason why the room test may stand outside
  the lock: one task alone adds, and all others only make room.
* `Refinement`: `Spec => ImplementsFifo`.  Storing the count appends to the sequence read from `idx`
  (`CountAppends`), popping takes its head (`PopTakesHead`); every other step leaves fifo and move alone.

`TrajectoryCheck_proofs` holds all the safety properties of `TrajectoryCheck`, for any joints in any control groups, any
length of the array and any stamps (`JointAssumption`, `PointAssumption`).

* `Inductive`: `Spec => []IInv`, the properties of the run joined with what the loops know half way: `Requested` (what
  no step changes), `Checked` (the joints before `j` are configured and not repeated, the points passed have good
  times), `Stored` (their values are in the buffers) and `Started` (no group is ready before the last joint is
  converted).  `Stored` is needed for the verdict, not only for the buffers: `Backward` compares with what it finds in
  the buffer, and `ConvertCases` shows from `Stored` that this is the time of the point before.
* `Exact`: the verdict is OK just for the requests that are well formed but perhaps for repeated times.  The code
  looks for repetitions and unknown names and counts; `WellFormed` says that every joint is named.  `ExactIsOnto` and
  `OntoIsExact` show the two are the same.
* `Complete`, `NothingMoves`, `AllWalked`, `TypeCorrect`: the other parts.  `AllChecked` says what holds when the last
  joint is through, which `Complete` and `Exact` rest on.

`FjtServer_proofs` holds all the safety properties of `FjtServer`, for any number of goals and sessions
(`BoundsAssumption`).

* The invariant `IInv` joins `TypeOK` with `OneGoal` (the goal with the handle is the active or the rejected one,
  never both, and a rejected one is ready), `SessionState` (a result is ready only for the goal with the handle; the
  feedback message is there exactly while the active goal has none) and `ResultsOut` (no result is out for the goal
  with the handle or for one not yet received).  `OneGoal` is what makes one `ready` and one `response` for two
  handles sound.
* `FeedbackExact` is the invariant of the run.  `TypeCorrect` and `StatesAgree` are proved only: once they
  hold for every number of goals, a run of three adds nothing.
* `Promised`: the refinement.  `LifeCases` gives the abstract state case by case; one lemma for each kind of step
  (`ReceiveStep`, `DecidedStep`, `SentStep`, `CleanupStep`, `Unaffected`) shows which abstract step it is.

`MotionPipeline_proofs` holds all the safety properties of `MotionPipeline`, for any number of groups, points,
increments, slots, polls, goals and faults (`SizeAssumption`).

* The invariant `IInv` joins the types with what the code relies on without testing it.  `TasksUndisturbed`: a task
  inside its segment has data flagged and interpolates what its buffer holds, unless overtaken.  `DataOwned`: no group
  has data while `Init` replaces the buffers or after `StopMotion` has cleared, and flagged data is of a goal without
  a result. `QueuesOfLiveGoals`: so is what is queued.  `GoalPhase`: the executor initialises while no goal is active
  and stops one only when there is one.  `StopProtected`: IncMoveLoop calls `StopMotion` only after a rejected move,
  so until then nobody lowers the flag the executor has raised.  `WithinBounds` bounds the counters by the place of
  each task.
* `EndedGoalsAreStill`, `BuffersAreOwned`, `StopsNeverReject`, `TypeCorrect`: the properties of the runs.  The first
  two rest on the same fact: a goal ends, and its buffer is replaced, only once `hasDataToProcess` is off in every
  group (and nothing was overtaken).
* `EndedGoalsGoNoFurther` needs no such exception: whoever overtakes a task also takes `hasDataToProcess` from its
  group, and without it no task takes up a point.

`IncMove_proofs` holds all the safety properties of `IncMove`, for any groups, axes, increments, period, queue,
durations and number of segments (`MoveAssumption`).

* The heart is `AxisOK`, an inequality for one axis between what is due, what remains at known speeds and the most
  that was ever asked for in one period: it is why the `max_inc` of the code is a safe choice.  `CycleOf` takes a tick
  apart group by group, `AxisAgrees`, `AxisSkips` and `AxisAdvances` axis by axis, for the three outcomes of the
  tracking.
* `NeverFasterThanAsked` follows from `AxisOK` and `ToBeSent`.  `NothingIsLost` needs `Accounted` (what is due is what
  the robot is short of and what it has moved since), `NotEvened` and `DueIsKnown`; `StopsAreFinal` needs `Fresh` and
  `Quiet`.
* `LeftoversAreExact` and `PeriodsAreKept` rest on `CutsFit`: `WholeOf` relates `timeLeftover_ms` to where the segment
  is within the period, and `SpacedOf` the time stamps of neighbours in the queue, from which the combining loop
  (`CombinedFacts`) takes a period at most.
* What the combining loop sums is a fold over a sequence.  It is reached by an induction over the naturals for one set
  (`LeastNat`, `NatInd`), which gives the function that folds (`FoldExists`) and the type of its value (`FoldType`).

`MotionMode_proofs` holds all the safety properties of `MotionMode`, for any number of groups, points, increments,
slots, starts and losses of motion (`SizeAssumption`).

* Increments and flags of a group survive the end of a mode until a refresh of the status or the next start clears
  them, and the robot may be back at its WAIT before.  The invariant follows output 889 for that: a session keeps it
  on and seen to be on (`WaitSeen`); work left over in another mode keeps it off (`OtherModes`); so only a start, with
  its clearing, brings the robot back (`RestartOK`).  `ServiceOK`, `JobOK` and `PossibleOK` say what each service, the
  job and `motion_possible` are then known to be, `FirstPoint` that nothing precedes the first point of a session.
* `LiveOK`: while the robot can move, each group has an unbroken row of increments from where the robot is, through
  the queue and the segment in hand, to the newest point accepted (`Queued`, `Ahead`).
* `StartsAreClean`, `TypeCorrect` and `Continuity` hold for every choice of `Kinds`.  With early points among them the
  row is broken only where the property allows a jump (`Leads`): behind a point that got no increments the robot
  stands at an earlier one.
* TLC checked this invariant before it was proved, with two losses of motion, and with two groups; the former showed
  what `Slept200` has to say.

`Sessions_proofs` holds all the safety properties of the start up and of the sessions with the Agent: for any
controllers, files, networks and number of chunks (`FileAssumption`, `AxesAssumption`, `RatioAssumption` and the three
below), and any number of sessions.

* The order of the axes comes first.  `OrdersAgree`: the axes and the joints of a `Layout` are the same ones.  The
  scan over gaps finds an axis for each joint because the ranks of the axes differ (`RankRises`) and are as many as
  the axes (`EveryRankTaken`, by counting).  `ConversionsInverse`: pulses to ROS and back are the same pulses.
  Rationals stand for the doubles of the code, so this says nothing of rounding.
* `StartupInv` follows the copy of the file (`CopyInv`: half a file has its stick still there to be copied again, or
  has been reported, or the stick was pulled or unreadable), the groups (`GroupsInv`: numbered as created, each named
  from its slots unless one failed), the published names (`PublishedInv`) and the job (`JobInv`).  From it
  `NoHalfFile`, `JobsJudged` (the generated header holds the lines of the groups the check looks for, and if it fits
  the array the check finds them) and `PositionsAgree`: what the monitor publishes and a client sends back addresses
  the same axis, is accepted as the position the group is commanded to, and executed as the same pulses (but for the B
  axis of a slave).
* `FileInv` is about the parser.  Names are filed by counting, with nothing in an entry to say where it belongs, so
  the invariant has to say at every event how many there were before: `ParseInv` relates the events still to come
  (`Read`) to the entries passed (`Entered`, `SetUpTo`) and to the list and name in hand (`InNames`, `FiledUpTo`).
  The events of the lists are a fold; `FlatOfLists` and `OffsetStep` say where each list lies in it, by induction over
  the set of their numbers. `SettingsInv` and `SlotsInv` carry what was set and filed through the validation and the
  creation of the groups, where `DefaultsApart` keeps default names of one group out of the slots of another.
* `SettingsFiled`: each setting is the last text its key has in the file, or its default.  `NamesConfigured`: each
  axis bears the name at its place in the file, or all bear default names.
* `SessionInv` says which of the three tasks may be where.  `IoTaskInv` and `CommTaskInv` tie each task to its
  semaphore (empty while the task runs) and to the task that created it, which waits for it.  `DisconnectedInv`:
  `connected` may come and go while the motion executor is in its loop, but once it has left, nobody sets the flag
  before main connects again, so no task starts over that another waits for.  `GoalInv`: a goal handle without its
  message is one whose motion is over, or `late`.  `SessionTypes`, `ObjectsOutlive` and `FeedbackFound` follow.

The assumptions on what users write and on controllers are as weak as the code allows.  `ControllersAssumption`: main
asserts that there are no more groups than `MAX_CONTROLLABLE_GROUPS` (`ControllerStatusIO.c:76`; none at all ends the
start up), the slots of a group have room for its axes, and each group is a `Layout`.  `GroupsAssumption`: a group is
a robot, a station, or the base of a robot.  `FilesAssumption`: a file has one `joint_names` at most, and no text
under an unknown key is itself a key; for one that is, the theorems are false, see
[above](#what-the-runs-showed-about-the-code).  What is said of files holds for those within the arrays (`Listed`,
`WithinArray`), and not for a `joint_names` without a value.

`Answers_proofs` is about `GoalOutcome` and `IoServices` (`ToleranceAssumption`, `WidthAssumption`, `ValueAssumption`,
`AddressAssumption`: every address of the controller fits a `UINT32`).

* `Exact`: the verdict, for any joints, orders, positions, times, width of an int and list of tolerances.
  `LastCounts` says what parsing the list comes to, the last entry for each joint; it is proved along the fold by the
  induction of `IncMove_proofs` (`FoldExists`, `EntryCounts`, `FoldCounts`).  `EveryJointNamed`: as many different
  names as joints name every joint, so the reordered point has a value for each.  `TimeExact`: within its range the
  two cuts to an int change nothing.
* `Confined`: `AccessConfined`, for `IoSpec` (the requests by themselves).  `IoInv` ties what was touched to the
  request and its check; `RangesEnd` and `ByteFits` are why eight bits from a valid address stay in the range, and
  `SmallKept` why they do not wrap.  The ranges are those of the code, not a parameter.

The assumptions about time (`Slept200` and the others of `MotionMode`) are guards of actions, so the theorems hold
under them as the runs do.

Left to TLC: liveness and fairness (`ProducerNotStuck`, `GoalEnds`, `PointTaken`, `SessionEnds`, `Answered`,
`Settles`; temporal reasoning about ENABLED is out of the prover's reach) and `ReadBack` (that the sum of the bits of
a number is the number: a recursion over data).  Every other property of the passing runs is also a theorem.

## Not modelled

Positions, velocities and their floating point arithmetic (the cubic of a segment, the truncation of positions to
pulses); ROS messages beyond the fields the control depends on; the creation of ROS entities; tool selection (one
assignment per group behind range checks); calibration files; debug output.  Not followed where the behaviour of the
code is undefined: a sequence under an unknown key, and the parser after a YAML syntax error.

Smaller things, in modelled functions, that no property depends on or another module has: in `MotionPipeline` the
retry out of eco mode after a rejected increment (`MotionControl.c:1080-1091`); in `IncMove` the test of the format
when increments are combined (867-873, in `IncQueue`); in `MotionMode` the clearing of the queues on a PFL edge
(`ControllerStatusIO.c:624-634`), a status that cannot be read (570), motion lost and found within one turn of the
executor (`noticed`) and a task still inside its segment behind the clear of a start (`TasksSettled`); in `FjtServer`
and `AgentLink` the writing through a freed message itself; in `IoServices` the bits left unset by a failing group
read are any of a small set; in `ConfigFile` the keys are one or two of each type: the test of the Agent's port number
(`ConfigFile.c:540`) is like that of `agent_ip_address`, and those of the names of node and job (571-579) cannot fail,
since both have a default and a blank text sets nothing; rounding, wherever units are converted.

`PROJECT.json` gives the reason for each component.  Robot, pendant, LAN port, Agent and scheduler are external,
modelled by how the source uses them.

## Plan

Done, in this order: `IncFifo`, `IncQueue`, `IncQueue_proofs`; `MotionPipeline` (uses the queue as the sequence it
implements); `TrajectoryCheck` (what `InitFill` abstracts), `TrajectoryCheck_proofs`; `AgentLink`; `GoalOutcome` (what
`GoalComplete` abstracts); `MotionMode` (the point queue, and the modes `MotionPipeline` takes as given);
`ActionServer`, `FjtServer`, `FjtServer_proofs`; `IncMove` (what is in the increments `MotionPipeline` counts);
`JointOrder`, `ConfigFile`, `JointNames`, `InformJob` (the start up, each extending the one before); `IoServices`;
`MotionPipeline_proofs`, `IncMove_proofs`, `MotionMode_proofs`, `Answers_proofs`; `Sessions_proofs` (start up and
sessions).

Next, the most important first:

1. `MotionMode` within the sessions of `AgentLink`: `MustInitializePointQueue` outlives the groups it speaks of.
2. Deferred pulses in `MotionPipeline`, with the goal each is of (`FjtServer` and `AgentLink` know only that there are
   some).
3. Cycle mode, eco mode and PFL as causes of a loss of motion of their own.
