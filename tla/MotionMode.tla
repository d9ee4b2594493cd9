------------------------------ MODULE MotionMode -----------------------------
(***************************************************************************)
(* The motion modes of MotoROS2, and the point queue: start_*_mode makes   *)
(* the robot run INIT_ROS up to its WAIT instruction and activates a mode, *)
(* queue_traj_point hands single points to the AddToIncQueueProcess tasks  *)
(* of the groups, stop_traj_mode ends the mode, and the motion executor    *)
(* ends it after every spin if motion is no longer possible.  Goals and    *)
(* trajectory mode beyond being active are in module MotionPipeline.       *)
(*                                                                         *)
(* Points are numbered in the order in which they are accepted; the        *)
(* increments of a group on its way from point `from` to point `to` are    *)
(* counted, and pos is the last increment the robot has made.              *)
(***************************************************************************)
EXTENDS Integers, Sequences

CONSTANTS NumGroups,  \* g_Ros_Controller.numGroup
          Incs,       \* increments between two points
          QSize,      \* slots of an increment queue
          Kinds,      \* what clients queue: "good" points, "fast" ones (above
                      \* the speed limit of some groups), "early" ones (not
                      \* later than the point before)
          MaxPoints,  \* bound: points accepted
          MaxStarts,  \* bound: calls of the start services
          MaxFaults   \* bound: losses of the job not caused by MotoROS2

ASSUME SizeAssumption ==
  /\ {NumGroups, Incs, QSize} \subseteq Nat \ {0}
  /\ {MaxPoints, MaxStarts, MaxFaults} \subseteq Nat
  /\ Kinds \subseteq {"good", "fast", "early"} /\ "good" \in Kinds

VARIABLES
  mode,                  \* Ros_MotionControl_ActiveMotionMode
  mustInit,              \* Ros_MotionControl_MustInitializePointQueue
  allInit,               \* Ros_MotionControl_AllGroupsInitComplete
  hasData,               \* hasDataToProcess, of each group
  slot0, slot1,          \* the first two entries of trajectoryToProcess: the
                         \* number of the point, 0 if zeroed or not valid
  fast,                  \* groups given a point above their speed limit
  early,                 \* points accepted not later than the one before
  queue,                 \* inc_q, of each group
  bStopMotion, bMpIncMoveError,
  status, possible,      \* ioStatus and motion_possible of the last refresh
  pc, want, k, stopped,  \* executor and IncMoveLoop: place; its locals
  add, made,             \* AddToIncQueueProcess: place and increments made
  job, out, alarm, power, remote,  \* the robot and its output 889
  noticed,               \* an executor turn has ended since the job was lost
  pos,                   \* last increment made by the robot, of each group
  accepted, starts, faults

modes == <<mode, mustInit, allInit>>
slots == <<slot0, slot1, fast, early>>
points == <<hasData, slot0, slot1, fast, early>>
flags == <<bStopMotion, bMpIncMoveError, status, possible>>
places == <<pc, want, k, stopped>>
tasks == <<add, made>>
robot == <<job, out, alarm, power, remote, noticed, pos>>
counts == <<accepted, starts, faults>>
vars == <<modes, points, queue, flags, places, tasks, robot, counts>>

Groups == 1 .. NumGroups
Stoppers == {"exec", "inc"}

Goto(t, l) == pc' = [pc EXCEPT ![t] = l]
AddGoto(g, l) == add' = [add EXCEPT ![g] = l]

HasDataToProcess == \E g \in Groups : hasData[g]
HasDataInQueue == \E g \in Groups : queue[g] # <<>>

(* What reading the I/O would answer now.                                  *)
RealStatus ==
  [alarm |-> alarm, remote |-> remote, power |-> power, waitingRos |-> out,
   operating |-> job \in {"other", "starting", "timer", "waiting"}]

(* Ros_Controller_IsMotionReady.  The name of the running job is not part  *)
(* of the status but asked for at once; servo power stands for the other   *)
(* conditions that StartMotionMode can restore.                            *)
ReadyIn(s, error) ==
  /\ ~s.alarm /\ s.power /\ s.remote /\ ~error
  /\ s.operating /\ job # "other"
  /\ s.waitingRos
MotionReady == ReadyIn(status, bMpIncMoveError)

ClearQ_All ==
  /\ hasData' = [g \in Groups |-> FALSE]
  /\ queue' = [g \in Groups |-> <<>>]

(* The changes on which Ros_Controller_IoStatusUpdate clears the queues.   *)
ClearsOnAlarm(old, new) == new.alarm /\ ~old.alarm
MustClear(old, new) ==
  \/ new.alarm /\ ~old.alarm
  \/ old.waitingRos /\ ~new.waitingRos

(* Ros_Controller_IoStatusUpdate.                                          *)
IoStatusUpdate ==
  LET new == RealStatus IN
  /\ status' = new
  /\ IF MustClear(status, new)
     THEN ClearQ_All
     ELSE UNCHANGED <<hasData, queue>>
  /\ bMpIncMoveError' = (bMpIncMoveError /\ ~(status.alarm /\ ~new.alarm))
  /\ possible' = ReadyIn(new, bMpIncMoveError')

StatusTask ==
  /\ status # RealStatus \/ possible # MotionReady
  /\ IoStatusUpdate
  /\ UNCHANGED <<modes, slots, bStopMotion, places, tasks, robot,
                 counts>>

(* mpHold: INIT_ROS stops where it is; only at WAIT is there something to  *)
(* resume.                                                                 *)
JobStops ==
  /\ job' = IF job \in {"waiting", "held"} THEN "held" ELSE "stopped"
  /\ noticed' = FALSE

Ros_MotionControl_StopTrajMode ==
  /\ allInit' = FALSE
  /\ mode' = "off"
  /\ out' = FALSE
-----------------------------------------------------------------------------
(* Ros_MotionControl_StartMotionMode, called by the start services.        *)
StartRequest(m) ==
  /\ pc["exec"] = "spin" /\ starts < MaxStarts
  /\ starts' = starts + 1
  /\ IF mode \in {"off", m}
     THEN Goto("exec", "start") /\ want' = m
     ELSE Goto("exec", "validate") /\ UNCHANGED want
  /\ UNCHANGED <<modes, points, queue, flags, k, stopped, tasks, robot,
                 accepted, faults>>

StartUpdate ==
  /\ pc["exec"] = "start"
  /\ IoStatusUpdate
  /\ Goto("exec", "tests")
  /\ UNCHANGED <<modes, slots, bStopMotion, want, k, stopped, tasks,
                 robot, counts>>

StartTests ==
  /\ pc["exec"] = "tests"
  /\ \/ /\ MotionReady \/ ~status.remote \/ status.alarm \/ bMpIncMoveError
        /\ Goto("exec", "validate")
        /\ UNCHANGED <<job, noticed>>
     \/ /\ ~MotionReady /\ status.remote /\ ~status.alarm /\ ~bMpIncMoveError
        /\ \/ /\ status.operating /\ job = "other"
              /\ Goto("exec", "update")
              /\ UNCHANGED <<job, noticed>>
           \/ /\ status.operating /\ job # "other"
              /\ JobStops
              /\ Goto("exec", "power")
           \/ /\ ~status.operating
              /\ Goto("exec", "power")
              /\ UNCHANGED <<job, noticed>>
  /\ UNCHANGED <<modes, points, queue, flags, want, k, stopped, tasks, out,
                 alarm, power, remote, pos, counts>>

(* Cycle mode, eco mode and servo power.  If the cycle mode cannot be set  *)
(* an alarm is raised (mpSetAlarm), and the status not refreshed.          *)
StartPower ==
  /\ pc["exec"] = "power"
  /\ \/ /\ \/ status.power /\ Goto("exec", "clear") /\ UNCHANGED power
           \/ ~status.power /\ Goto("exec", "powered") /\ power' = TRUE
           \/ ~status.power /\ Goto("exec", "update") /\ UNCHANGED power
        /\ UNCHANGED <<alarm, job, noticed>>
     \/ /\ Goto("exec", "validate")
        /\ alarm' = TRUE /\ JobStops
        /\ UNCHANGED power
  /\ UNCHANGED <<modes, points, queue, flags, want, k, stopped, tasks, out,
                 remote, pos, counts>>

StartPowered ==
  /\ pc["exec"] = "powered"
  /\ IoStatusUpdate
  /\ Goto("exec", IF status'.power THEN "clear" ELSE "update")
  /\ UNCHANGED <<modes, slots, bStopMotion, want, k, stopped, tasks,
                 robot, counts>>

(* Assumption: a task that had a point when motion was lost is through     *)
(* with it (while motion is not ready it sleeps one period at most).       *)
HasPoint(g) == allInit /\ hasData[g] /\ slot1[g] # 0
TasksSettled == \A g \in Groups : add[g] = "top" /\ ~HasPoint(g)

StartClear ==
  /\ pc["exec"] = "clear" /\ TasksSettled
  /\ IF HasDataInQueue THEN ClearQ_All ELSE UNCHANGED <<hasData, queue>>
  /\ Goto("exec", "job")
  /\ UNCHANGED <<modes, slots, flags, want, k, stopped, tasks,
                 robot, counts>>

(* mpStartJob; it may also refuse.                                         *)
StartJob ==
  /\ pc["exec"] = "job"
  /\ \/ /\ job \in {"stopped", "held"} /\ power /\ remote /\ ~alarm
        /\ job' = "starting"
        /\ Goto("exec", "await")
     \/ Goto("exec", "update") /\ UNCHANGED job
  /\ UNCHANGED <<modes, points, queue, flags, want, k, stopped, tasks, out,
                 alarm, power, remote, noticed, pos, counts>>

(* Assumption JobIsQuick: a job not stopped by anyone is at its WAIT       *)
(* before MOTION_START_TIMEOUT.  There it may find an error flagged by     *)
(* IncMoveLoop meanwhile, and the wait runs out.                           *)
StartAwait ==
  /\ pc["exec"] = "await"
  /\ IoStatusUpdate
  /\ \/ ReadyIn(status', bMpIncMoveError') /\ Goto("exec", "update")
     \/ job \notin {"starting", "timer"} /\ Goto("exec", "update")
     \/ ~ReadyIn(status', bMpIncMoveError') /\ UNCHANGED pc
  /\ UNCHANGED <<modes, slots, bStopMotion, want, k, stopped, tasks,
                 robot, counts>>

StartEnd ==
  /\ pc["exec"] = "update"
  /\ IoStatusUpdate
  /\ Goto("exec", "check")
  /\ UNCHANGED <<modes, slots, bStopMotion, want, k, stopped, tasks,
                 robot, counts>>

(* Assumption: in the 200 ms before this test the job gets to its WAIT, or *)
(* is stopped on the way, and the status is refreshed after that; a stop   *)
(* that IncMoveLoop began before the job was started (20 polls, a tick     *)
(* each) is over.                                                          *)
Slept200 ==
  /\ job \notin {"starting", "timer"}
  /\ job = "waiting" => /\ status.waitingRos = out
                        /\ pc["inc"] \notin {"poll", "clearq"}
  /\ job = "stopped" => ~status.operating

StartCheck ==
  /\ pc["exec"] = "check" /\ Slept200
  /\ IF MotionReady
     THEN /\ mode' = want
          /\ mustInit' = (mustInit \/ want = "queue")
     ELSE UNCHANGED <<mode, mustInit>>
  /\ Goto("exec", "validate")
  /\ UNCHANGED <<allInit, points, queue, flags, want, k, stopped, tasks, robot,
                 counts>>
-----------------------------------------------------------------------------
(* Ros_ServiceStopTrajMode_Trigger, and StopMotion, which IncMoveLoop also *)
(* calls when the robot rejects an increment.                              *)
StopRequest ==
  /\ pc["exec"] = "spin"
  /\ Goto("exec", IF HasDataInQueue THEN "validate" ELSE "raise")
  /\ UNCHANGED <<modes, points, queue, flags, want, k, stopped, tasks, robot,
                 counts>>

StopRaise(t) ==
  /\ pc[t] = "raise"
  /\ bStopMotion' = TRUE
  /\ bMpIncMoveError' = (bMpIncMoveError \/ t = "inc")
  /\ JobStops
  /\ Goto(t, "poll")
  /\ UNCHANGED <<modes, points, queue, status, possible, want, k, stopped,
                 tasks, out, alarm, power, remote, pos, counts>>

StopPoll(t) ==
  /\ pc[t] = "poll" /\ ~HasDataToProcess
  /\ Goto(t, "clearq")
  /\ UNCHANGED <<modes, points, queue, flags, want, k, stopped, tasks, robot,
                 counts>>

StopTimesOut(t) ==
  /\ pc[t] = "poll" /\ HasDataToProcess
  /\ stopped' = (stopped /\ t # "exec")
  /\ Goto(t, "clearq")
  /\ UNCHANGED <<modes, points, queue, flags, want, k, tasks, robot, counts>>

StopClear(t) ==
  /\ pc[t] = "clearq"
  /\ ClearQ_All
  /\ bStopMotion' = FALSE
  /\ Goto(t, IF t = "exec" THEN "reply" ELSE "tick")
  /\ UNCHANGED <<modes, slots, bMpIncMoveError, status, possible, want,
                 k, stopped, tasks, robot, counts>>

StopReply ==
  /\ pc["exec"] = "reply"
  /\ IF stopped
     THEN Ros_MotionControl_StopTrajMode
     ELSE UNCHANGED <<mode, allInit, out>>
  /\ Goto("exec", "validate")
  /\ UNCHANGED <<mustInit, points, queue, flags, want, k, stopped, tasks, job,
                 alarm, power, remote, noticed, pos, counts>>
-----------------------------------------------------------------------------
(* Ros_ServiceQueueTrajPoint_Trigger: the first point after a start must   *)
(* be where the robot is (InitPointQueue), the others follow one by one.   *)
FirstGroupBusy == slot1[1] # 0
Busy == \E g \in Groups : slot1[g] # 0

QueueRequest ==
  /\ pc["exec"] = "spin" /\ mode = "queue" /\ accepted < MaxPoints
  /\ \/ /\ mustInit
        /\ Goto("exec", IF HasDataToProcess THEN "validate" ELSE "zero")
     \/ /\ ~mustInit
        /\ Goto("exec", IF Busy THEN "validate" ELSE "mark")
  /\ k' = 0
  /\ UNCHANGED <<modes, points, queue, flags, want, stopped, tasks, robot, counts>>

InitZero ==
  /\ pc["exec"] = "zero"
  /\ allInit' = FALSE
  /\ slot0' = [g \in Groups |-> 0]
  /\ slot1' = [g \in Groups |-> 0]
  /\ fast' = {}
  /\ Goto("exec", "group")
  /\ UNCHANGED <<mode, mustInit, hasData, early, queue, flags, want, k, stopped,
                 tasks, robot, counts>>

(* The group starts at its command position, and the point says so.        *)
InitGroup ==
  LET g == k + 1 IN
  /\ pc["exec"] = "group" /\ g \in Groups
  /\ slot0' = [slot0 EXCEPT ![g] = accepted + 1]
  /\ pos' = [pos EXCEPT ![g] = [to |-> accepted + 1, nr |-> Incs]]
  /\ hasData' = [hasData EXCEPT ![g] = TRUE]
  /\ k' = g
  /\ UNCHANGED <<modes, slot1, fast, early, queue, flags, pc, want, stopped,
                 tasks, job, out, alarm, power, remote, noticed, counts>>

InitFails ==
  /\ pc["exec"] = "group" /\ k < NumGroups
  /\ hasData' = [g \in Groups |-> FALSE]
  /\ slot0' = [g \in Groups |-> 0]
  /\ Goto("exec", "validate")
  /\ UNCHANGED <<modes, slot1, fast, early, queue, flags, want, k, stopped,
                 tasks, robot, counts>>

InitDone ==
  /\ pc["exec"] = "group" /\ k = NumGroups
  /\ allInit' = TRUE
  /\ mustInit' = FALSE
  /\ accepted' = accepted + 1
  /\ Goto("exec", "validate")
  /\ UNCHANGED <<mode, points, queue, flags, want, k, stopped, tasks, robot,
                 starts, faults>>

(* The values of all groups are converted before the first is marked; a    *)
(* point that cannot be converted changes nothing that is looked at.       *)
QueueRefused ==
  /\ pc["exec"] = "mark" /\ k = 0
  /\ Goto("exec", "validate")
  /\ UNCHANGED <<modes, points, queue, flags, want, k, stopped, tasks, robot,
                 counts>>

(* The speeds of a point are looked at group by group, and only when it is *)
(* executed; its time is not compared with that of the point before.       *)
PointIsOfKind ==
  \/ UNCHANGED <<fast, early>>
  \/ /\ "fast" \in Kinds
     /\ fast' \in {fast \cup F : F \in SUBSET Groups}
     /\ UNCHANGED early
  \/ /\ "early" \in Kinds
     /\ early' = early \cup {accepted + 1}
     /\ UNCHANGED fast

QueueMark ==
  LET g == k + 1 IN
  /\ pc["exec"] = "mark" /\ g \in Groups
  /\ slot1' = [slot1 EXCEPT ![g] = accepted + 1]
  /\ IF k = 0 THEN PointIsOfKind ELSE UNCHANGED <<fast, early>>
  /\ k' = g
  /\ UNCHANGED <<modes, hasData, slot0, queue, flags, pc, want, stopped, tasks,
                 robot, counts>>

QueueMarked ==
  /\ pc["exec"] = "mark" /\ k = NumGroups
  /\ accepted' = accepted + 1
  /\ Goto("exec", "validate")
  /\ UNCHANGED <<modes, points, queue, flags, want, k, stopped, tasks, robot,
                 starts, faults>>
-----------------------------------------------------------------------------
(* Ros_ServiceResetError_Trigger.  A refused or missing reset leaves the   *)
(* alarm; the wait for the status may run out.                             *)
ResetRequest ==
  /\ pc["exec"] = "spin" /\ status.remote
  /\ bMpIncMoveError \/ status.alarm
  /\ bMpIncMoveError' = FALSE
  /\ \/ status.alarm /\ Goto("exec", "reset") /\ alarm' = FALSE
     \/ Goto("exec", "validate") /\ UNCHANGED alarm
  /\ UNCHANGED <<modes, points, queue, bStopMotion, status, possible, want, k,
                 stopped, tasks, job, out, power, remote, noticed, pos, counts>>

ResetUpdate ==
  /\ pc["exec"] = "reset"
  /\ IoStatusUpdate
  /\ Goto("exec", "validate")
  /\ UNCHANGED <<modes, slots, bStopMotion, want, k, stopped, tasks,
                 robot, counts>>

(* A spin in which no service is called.                                   *)
NoRequest ==
  /\ pc["exec"] = "spin"
  /\ Goto("exec", "validate")
  /\ UNCHANGED <<modes, points, queue, flags, want, k, stopped, tasks, robot,
                 counts>>

(* Ros_MotionControl_ValidateMotionModeIsOk, after every spin.             *)
EndsOtherMode == ~possible /\ mode = "trajectory"
ModeMustEnd == ~possible /\ mode = "queue"

Validate ==
  /\ pc["exec"] = "validate"
  /\ IF ModeMustEnd
     THEN Ros_MotionControl_StopTrajMode
     ELSE UNCHANGED <<mode, allInit, out>>
  /\ noticed' = (noticed \/ status = RealStatus)
  /\ want' = "off" /\ k' = 0 /\ stopped' = TRUE  \* no service is under way
  /\ Goto("exec", "spin")
  /\ UNCHANGED <<mustInit, points, queue, flags, tasks, job, alarm, power,
                 remote, pos, counts>>
-----------------------------------------------------------------------------
(* Ros_MotionControl_AddToIncQueueProcess in point queue mode.  In         *)
(* trajectory mode allInit is FALSE here: no goal has been received.       *)
ZeroPoints(g) ==
  /\ slot0' = [slot0 EXCEPT ![g] = 0]
  /\ slot1' = [slot1 EXCEPT ![g] = 0]
  /\ hasData' = [hasData EXCEPT ![g] = FALSE]
  /\ UNCHANGED <<fast, early>>

AddTop(g) ==
  /\ add[g] = "top" /\ HasPoint(g)
  /\ \/ bStopMotion /\ ZeroPoints(g) /\ UNCHANGED add
     \/ ~bStopMotion /\ g \in fast /\ ZeroPoints(g) /\ AddGoto(g, "advance")
     \/ ~bStopMotion /\ g \notin fast /\ AddGoto(g, "loop") /\ UNCHANGED points
  /\ UNCHANGED <<modes, queue, flags, places, made, robot, counts>>

AddLoop(g) ==
  /\ add[g] = "loop"
  /\ AddGoto(g, IF slot1[g] \notin early /\ made[g] < Incs /\ MotionReady
                THEN "enqueue" ELSE "advance")
  /\ UNCHANGED <<modes, points, queue, flags, places, made, robot, counts>>

RoomForOneMore(g) == Len(queue[g]) <= QSize
Room(g) == Len(queue[g]) < QSize

AddEnqueue(g) ==
  /\ add[g] = "enqueue" /\ Room(g)
  /\ queue' = [queue EXCEPT ![g] = Append(@,
        [from |-> slot0[g], to |-> slot1[g], nr |-> made[g] + 1])]
  /\ made' = [made EXCEPT ![g] = @ + 1]
  /\ AddGoto(g, "loop")
  /\ UNCHANGED <<modes, points, flags, places, robot, counts>>

AddGivesUp(g) ==
  /\ add[g] = "enqueue" /\ ~Room(g) /\ ~MotionReady
  /\ ZeroPoints(g)
  /\ AddGoto(g, "advance")
  /\ UNCHANGED <<modes, queue, flags, places, made, robot, counts>>

CopyPoint(g) ==
  /\ slot0' = [slot0 EXCEPT ![g] = slot1[g]]
  /\ UNCHANGED slot1
MovePoint(g) ==
  /\ slot0' = [slot0 EXCEPT ![g] = slot1[g]]
  /\ slot1' = [slot1 EXCEPT ![g] = 0]

AddAdvance(g) ==
  /\ add[g] = "advance"
  /\ IF mode = "queue"
     THEN MovePoint(g)
     ELSE UNCHANGED <<slot0, slot1>>
  /\ made' = [made EXCEPT ![g] = 0]
  /\ AddGoto(g, "top")
  /\ UNCHANGED <<modes, hasData, fast, early, queue, flags, places, robot, counts>>
-----------------------------------------------------------------------------
(* Ros_MotionControl_IncMoveLoopStart: the oldest increment of each group  *)
(* is sent in one command, at the highest priority.                        *)
IncCycle ==
  /\ pc["inc"] = "tick" /\ MotionReady /\ HasDataInQueue /\ ~bStopMotion
  /\ queue' = [g \in Groups |->
                 IF queue[g] = <<>> THEN <<>> ELSE Tail(queue[g])]
  /\ IF job = "waiting"
     THEN /\ pos' = [g \in Groups |-> IF queue[g] = <<>> THEN pos[g] ELSE
                       [to |-> Head(queue[g]).to, nr |-> Head(queue[g]).nr]]
          /\ UNCHANGED pc
     ELSE Goto("inc", "rejected") /\ UNCHANGED pos
  /\ UNCHANGED <<modes, points, flags, want, k, stopped, tasks, job, out, alarm,
                 power, remote, noticed, counts>>

IncRejected ==
  /\ pc["inc"] = "rejected"
  /\ IoStatusUpdate
  /\ Goto("inc", "raise")
  /\ UNCHANGED <<modes, slots, bStopMotion, want, k, stopped, tasks,
                 robot, counts>>
-----------------------------------------------------------------------------
(* The robot: INIT_ROS switches output 889 off, waits 50 ms, switches it   *)
(* on and waits.  Assumption OffIsSeen: a refresh falls into the 50 ms.    *)
JobOff ==
  /\ job = "starting"
  /\ job' = "timer" /\ out' = FALSE
  /\ UNCHANGED <<modes, points, queue, flags, places, tasks, alarm, power,
                 remote, noticed, pos, counts>>

JobOn ==
  /\ job = "timer" /\ ~status.waitingRos
  /\ job' = "waiting" /\ out' = TRUE
  /\ UNCHANGED <<modes, points, queue, flags, places, tasks, alarm, power,
                 remote, noticed, pos, counts>>

(* HOLD, an alarm, an emergency stop, the key switch.                      *)
Loss ==
  /\ faults < MaxFaults
  /\ faults' = faults + 1
  /\ JobStops
  /\ \/ UNCHANGED <<alarm, power, remote>>
     \/ alarm' = TRUE /\ UNCHANGED <<power, remote>>
     \/ power' = FALSE /\ UNCHANGED <<alarm, remote>>
     \/ remote' = FALSE /\ UNCHANGED <<alarm, power>>
  /\ UNCHANGED <<modes, points, queue, flags, places, tasks, out, pos, accepted,
                 starts>>

(* Assumption: the operator is slower than the refresh of the status and   *)
(* a turn of the executor.                                                 *)
OperatorRepairs ==
  /\ noticed
  /\ \/ alarm /\ alarm' = FALSE /\ UNCHANGED <<remote, job>>
     \/ ~remote /\ remote' = TRUE /\ UNCHANGED <<alarm, job>>
     \/ /\ job \in {"stopped", "held"} /\ power /\ remote /\ ~alarm
        /\ job' \in {"other"} \cup IF job = "held" THEN {"waiting"} ELSE {}
        /\ UNCHANGED <<alarm, remote>>
     \/ job = "other" /\ job' = "stopped" /\ UNCHANGED <<alarm, remote>>
  /\ UNCHANGED <<modes, points, queue, flags, places, tasks, out, power, noticed,
                 pos, counts>>
-----------------------------------------------------------------------------
Init ==
  /\ mode = "off" /\ mustInit = TRUE /\ allInit = FALSE
  /\ hasData = [g \in Groups |-> FALSE]
  /\ fast = {} /\ early = {}
  /\ slot0 = [g \in Groups |-> 0] /\ slot1 = slot0 /\ made = slot0
  /\ queue = [g \in Groups |-> <<>>]
  /\ bStopMotion = FALSE /\ bMpIncMoveError = FALSE
  /\ job = "stopped" /\ out = FALSE /\ alarm = FALSE /\ power \in BOOLEAN
  /\ remote = TRUE /\ noticed = TRUE
  /\ status = RealStatus /\ possible = FALSE
  /\ pc = [t \in Stoppers |-> IF t = "exec" THEN "spin" ELSE "tick"]
  /\ want = "off" /\ k = 0 /\ stopped = TRUE
  /\ add = [g \in Groups |-> "top"]
  /\ pos = [g \in Groups |-> [to |-> 0, nr |-> 0]]
  /\ accepted = 0 /\ starts = 0 /\ faults = 0

Start ==
  \/ StartUpdate \/ StartTests \/ StartPower \/ StartPowered \/ StartClear
  \/ StartJob \/ StartAwait \/ StartEnd \/ StartCheck
Stop(t) == StopRaise(t) \/ StopPoll(t) \/ StopTimesOut(t) \/ StopClear(t)
QueuePoint ==
  \/ InitZero \/ InitGroup \/ InitFails \/ InitDone
  \/ QueueRefused \/ QueueMark \/ QueueMarked
Executor ==
  \/ Start \/ Stop("exec") \/ StopReply \/ QueuePoint \/ ResetUpdate
  \/ NoRequest \/ Validate
AddTo(g) ==
  \/ AddTop(g) \/ AddLoop(g) \/ AddEnqueue(g) \/ AddGivesUp(g)
  \/ AddAdvance(g)
IncMove == IncCycle \/ IncRejected \/ Stop("inc")
Job == JobOff \/ JobOn

Next ==
  \/ \E m \in {"trajectory", "queue"} : StartRequest(m)
  \/ StopRequest \/ QueueRequest \/ ResetRequest
  \/ Executor \/ IncMove \/ \E g \in Groups : AddTo(g)
  \/ StatusTask \/ Job \/ Loss \/ OperatorRepairs

Spec == Init /\ [][Next]_vars

(* All tasks sleep and none has another above it for ever; nothing is      *)
(* assumed of client and operator.                                         *)
FairSpec ==
  /\ Spec
  /\ WF_vars(Executor) /\ WF_vars(IncMove) /\ WF_vars(StatusTask)
  /\ WF_vars(Job) /\ \A g \in Groups : WF_vars(AddTo(g))
-----------------------------------------------------------------------------
TypeOK ==
  /\ mode \in {"off", "trajectory", "queue"}
  /\ {mustInit, allInit, bStopMotion, bMpIncMoveError, possible} \subseteq BOOLEAN
  /\ hasData \in [Groups -> BOOLEAN]
  /\ fast \subseteq Groups /\ early \subseteq 1 .. MaxPoints
  /\ {slot0, slot1} \subseteq [Groups -> 0 .. MaxPoints]
  /\ made \in [Groups -> 0 .. Incs]
  /\ add \in [Groups -> {"top", "loop", "enqueue", "advance"}]
  /\ \A g \in Groups : Len(queue[g]) <= QSize
  /\ job \in {"stopped", "other", "starting", "timer", "waiting", "held"}
  /\ {out, alarm, power, remote, noticed} \subseteq BOOLEAN
  /\ pos \in [Groups -> [to : 0 .. MaxPoints, nr : 0 .. Incs]]

(* The robot makes an increment only where it stands: the first of a       *)
(* segment at the point the segment was computed from, the next after the  *)
(* one before, and the segments lead through all points accepted, in their *)
(* order.  Increments dropped by ClearQ_All, segments given up when motion *)
(* was lost, and points left over from another mode must not be followed   *)
(* by others before a new first point has been compared with the position. *)
(* There is one way to jump: no increment is made to a point accepted not  *)
(* later than the one before, but the segment behind it starts at it.      *)
Leads(p, n) ==
  p.nr = Incs /\ p.to <= n /\ \A i \in p.to + 1 .. n : i \in early
Follows(p, inc) ==
  IF inc.nr = 1
  THEN Leads(p, inc.from) /\ inc.to = inc.from + 1
  ELSE p = [to |-> inc.to, nr |-> inc.nr - 1]
Continuous ==
  [][IncCycle /\ job = "waiting" =>
       \A g \in Groups :
         queue[g] # <<>> => Follows(pos[g], Head(queue[g]))]_vars

(* When a mode has been started, nothing of an earlier one is left: the    *)
(* first point is not refused as "already in motion", and no increment     *)
(* waits for the job.                                                      *)
StartsClean ==
  mode = "queue" /\ mustInit /\ pc["exec"] = "spin"
    => ~HasDataToProcess /\ ~HasDataInQueue

(* A point that was accepted is broken into increments, or the mode ends   *)
(* or is started again: queue_traj_point does not answer BUSY for ever,    *)
(* unless the group was given a point it is too slow for, which leaves it  *)
(* with hasDataToProcess FALSE until the mode is started again.            *)
Waits(g) == mode = "queue" /\ ~mustInit /\ slot1[g] # 0 /\ g \notin fast
PointTaken == \A g \in Groups : Waits(g) ~> ~Waits(g)
=============================================================================
