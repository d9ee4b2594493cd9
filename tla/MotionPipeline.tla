--------------------------- MODULE MotionPipeline --------------------------
(***************************************************************************)
(* The path of a FollowJointTrajectory goal through MotoROS2: the motion   *)
(* executor accepts, cancels and completes goals; one AddToIncQueueProcess *)
(* task per control group interpolates the trajectory into the group's     *)
(* increment queue; IncMoveLoop feeds the queues to the robot at every     *)
(* interpolation clock; the main task refreshes the controller's status.   *)
(* They share hasDataToProcess, bStopMotion, AllGroupsInitComplete, the    *)
(* trajectory buffers and the queues without a lock around any of it but   *)
(* the queue itself (module IncQueue; a queue is the sequence that module  *)
(* is shown to implement).                                                 *)
(***************************************************************************)
EXTENDS Integers, Sequences, FiniteSets

CONSTANTS NumGroups,  \* g_Ros_Controller.numGroup
          Points,     \* points of a trajectory
          Incs,       \* increments each of its segments is broken into
          QSize,      \* slots of a queue
          StopPolls,  \* MOTION_STOP_TIMEOUT: polls before StopMotion goes on
          MaxGoals,   \* bound: goals sent by the client
          MaxFaults   \* bound: alarms and holds not asked for by MotoROS2

ASSUME SizeAssumption ==
  /\ {NumGroups, Incs, QSize, StopPolls} \subseteq Nat \ {0}
  /\ Points \in Nat \ {0, 1}
  /\ {MaxGoals, MaxFaults} \subseteq Nat

VARIABLES
  allInit,           \* Ros_MotionControl_AllGroupsInitComplete
  bStopMotion, bMpIncMoveError,
  status,            \* ioStatus, as IoStatusUpdate last saw it
  job, alarm,        \* the robot's real state behind ioStatus
  hasData,           \* hasDataToProcess, of each group
  iter,              \* trajectoryIterator: index of the point, 0 for NULL
  buf, valid,        \* whose points trajectoryToProcess holds, marked valid?
  queue,             \* inc_q: the goal each queued increment belongs to
  add, pc,           \* where each AddTo task is, and executor and IncMoveLoop
  seg, made,         \* segment an AddTo task works on: goal, increments made
  inits,             \* groups Ros_MotionControl_Init has made ready
  polls, keep,       \* checkCnt and bKeepJobRunning of StopMotion
  goals, goal,       \* goals received; the active one, 0 if none
  ended,             \* goals whose result has been decided
  overtaken,         \* hasDataToProcess was reset under a busy AddTo task,
                     \* or a queue that was not empty was not cleared
  faults             \* alarms and holds so far

flags == <<allInit, bStopMotion, bMpIncMoveError>>
robot == <<status, job, alarm, faults>>
traj  == <<hasData, iter, buf, valid>>
work  == <<seg, made, inits>>
stop  == <<polls, keep, overtaken>>
fjt   == <<goals, goal, ended>>
vars  == <<flags, robot, traj, queue, add, pc, work, stop, fjt>>

Groups == 1 .. NumGroups
Stoppers == {"exec", "inc"}     \* the tasks that call StopMotion
None == 0

Goto(t, l) == pc' = [pc EXCEPT ![t] = l]
AddGoto(g, l) == add' = [add EXCEPT ![g] = l]

(* Ros_Controller_IsMotionReady, IsAnyFaultActive, HasDataToProcess and    *)
(* HasDataInQueue.                                                         *)
MotionReady == status = "run" /\ ~bMpIncMoveError
AnyFault == status = "alarm" \/ bMpIncMoveError
AllHaveDataToProcess == \A g \in Groups : hasData[g]
HasDataToProcess == \E g \in Groups : hasData[g]
HasDataInQueue == \E g \in Groups : queue[g] # <<>>

RealStatus == IF alarm THEN "alarm" ELSE job

(* An AddTo task that has found work to do and has not looked for the next *)
(* point since.                                                            *)
Busy(g) == add[g] \in {"stop?", "loop", "enqueue"}

ZeroBuffer(g) ==
  /\ buf' = [buf EXCEPT ![g] = None]
  /\ valid' = [valid EXCEPT ![g] = FALSE]

(* hasDataToProcess of all groups reset by another task than theirs.       *)
ResetAllData ==
  /\ hasData' = [g \in Groups |-> FALSE]
  /\ overtaken' = (overtaken \/ \E g \in Groups : Busy(g))

ClearsQueuesOnly(q) ==
  /\ queue' = [g \in Groups |-> <<>>]
  /\ UNCHANGED <<hasData, overtaken>>

(* Ros_MotionControl_ClearQ_All of the queues q: it passes over those whose *)
(* lock it does not get in time.                                           *)
ClearQ_All(q) ==
  \E cleared \in SUBSET Groups :
    /\ hasData' = [g \in Groups |-> FALSE]
    /\ overtaken' = (\/ overtaken
                      \/ \E g \in Groups :
                           Busy(g) \/ (g \notin cleared /\ q[g] # <<>>))
    /\ queue' = [g \in Groups |-> IF g \in cleared THEN <<>> ELSE q[g]]
-----------------------------------------------------------------------------
(* Ros_ActionServer_FJT_Goal_Received and Ros_MotionControl_Init.          *)
GoalReceived ==
  /\ pc["exec"] = "idle" /\ goal = None /\ goals < MaxGoals
  /\ goals' = goals + 1
  /\ \/ /\ ~MotionReady \/ HasDataToProcess
        /\ UNCHANGED <<pc, allInit>>
     \/ /\ MotionReady /\ ~HasDataToProcess
        /\ allInit' = FALSE
        /\ Goto("exec", "zero")
  /\ UNCHANGED <<bStopMotion, bMpIncMoveError, robot, traj, queue, add, work,
                 stop, goal, ended>>

InitZero ==
  /\ pc["exec"] = "zero"
  /\ iter' = [g \in Groups |-> 0]
  /\ buf' = [g \in Groups |-> None]
  /\ valid' = [g \in Groups |-> FALSE]
  /\ inits' = 0
  /\ Goto("exec", "fill")
  /\ UNCHANGED <<flags, robot, hasData, queue, add, seg, made, stop, fjt>>

(* A joint list, time or velocity that is not acceptable ends the goal     *)
(* with the buffers partly filled.                                         *)
InitFill ==
  /\ pc["exec"] = "fill"
  /\ \/ Goto("exec", "group") /\ buf' = [g \in Groups |-> goals]
     \/ Goto("exec", "idle") /\ \E G \in SUBSET Groups :
          buf' = [g \in Groups |-> IF g \in G THEN goals ELSE buf[g]]
  /\ UNCHANGED <<flags, robot, hasData, iter, valid, queue, add, work, stop,
                 fjt>>

InitGroup ==
  LET g == inits + 1 IN
  /\ pc["exec"] = "group" /\ g \in Groups
  /\ valid' = [valid EXCEPT ![g] = TRUE]
  /\ iter' = [iter EXCEPT ![g] = 1]
  /\ hasData' = [hasData EXCEPT ![g] = TRUE]
  /\ inits' = g
  /\ UNCHANGED <<flags, robot, buf, queue, add, pc, seg, made, stop, fjt>>

(* A group that is not at the start position undoes all of them.           *)
InitGroupFails ==
  /\ pc["exec"] = "group" /\ inits < NumGroups
  /\ ResetAllData
  /\ iter' = [g \in Groups |-> 0]
  /\ buf' = [g \in Groups |-> None]
  /\ valid' = [g \in Groups |-> FALSE]
  /\ Goto("exec", "idle")
  /\ UNCHANGED <<flags, robot, queue, add, work, polls, keep, fjt>>

InitDone ==
  /\ pc["exec"] = "group" /\ inits = NumGroups
  /\ allInit' = TRUE
  /\ goal' = goals
  /\ Goto("exec", "idle")
  /\ UNCHANGED <<bStopMotion, bMpIncMoveError, robot, traj, queue, add, work,
                 stop, goals, ended>>
-----------------------------------------------------------------------------
(* Ros_ActionServer_FJT_ProcessFeedback and _Goal_Cancel.                  *)
End(g) == goal' = None /\ ended' = ended \cup {g}

GoalComplete ==
  /\ pc["exec"] = "idle" /\ goal # None
  /\ ~AnyFault /\ ~HasDataToProcess /\ ~HasDataInQueue
  /\ End(goal)
  /\ UNCHANGED <<flags, robot, traj, queue, add, pc, work, stop, goals>>

CallStopMotion(t, bKeepJobRunning) ==
  /\ Goto(t, "raise")
  /\ keep' = [keep EXCEPT ![t] = bKeepJobRunning]
  /\ polls' = [polls EXCEPT ![t] = 0]

GoalAbort ==
  /\ pc["exec"] = "idle" /\ goal # None /\ AnyFault
  /\ CallStopMotion("exec", FALSE)
  /\ UNCHANGED <<flags, robot, traj, queue, add, work, overtaken, fjt>>

GoalCancel ==
  /\ pc["exec"] = "idle" /\ goal # None
  /\ CallStopMotion("exec", TRUE)
  /\ UNCHANGED <<flags, robot, traj, queue, add, work, overtaken, fjt>>
-----------------------------------------------------------------------------
(* Ros_MotionControl_StopMotion, run by the executor and by IncMoveLoop.   *)
StopHoldsWithoutFlag(t) ==
  /\ pc[t] = "raise"
  /\ job' = "held"
  /\ Goto(t, "hold")
  /\ UNCHANGED <<flags, status, alarm, faults, traj, queue, add, work, stop,
                 fjt>>

StopRaise(t) ==
  /\ pc[t] = "raise"
  /\ bStopMotion' = TRUE
  /\ Goto(t, "hold")
  /\ UNCHANGED <<allInit, bMpIncMoveError, robot, traj, queue, add, work, stop,
                 fjt>>

StopHold(t) ==
  /\ pc[t] = "hold"
  /\ job' = "held"
  /\ Goto(t, "poll")
  /\ UNCHANGED <<flags, status, alarm, faults, traj, queue, add, work, stop,
                 fjt>>

StopPoll(t) ==
  /\ pc[t] = "poll"
  /\ IF HasDataToProcess
       THEN /\ polls' = [polls EXCEPT ![t] = @ + 1]
            /\ Goto(t, IF polls[t] + 1 < StopPolls THEN "poll" ELSE "clear")
       ELSE Goto(t, "clear") /\ UNCHANGED polls
  /\ UNCHANGED <<flags, robot, traj, queue, add, work, keep, overtaken, fjt>>

StopKeepsQueue(t) ==
  /\ pc[t] = "clear"
  /\ Goto(t, "lower")
  /\ UNCHANGED <<flags, robot, traj, queue, add, work, stop, fjt>>

StopClear(t) ==
  /\ pc[t] = "clear"
  /\ ClearQ_All(queue)
  /\ Goto(t, "lower")
  /\ UNCHANGED <<flags, robot, iter, buf, valid, add, work, polls, keep, fjt>>

StopLower(t) ==
  /\ pc[t] = "lower"
  /\ bStopMotion' = FALSE
  /\ Goto(t, "release")
  /\ UNCHANGED <<allInit, bMpIncMoveError, robot, traj, queue, add, work, stop,
                 fjt>>

(* Hold released; with bKeepJobRunning the job is started again, which may *)
(* fail and is then only logged.  What is local to a call is reset at its  *)
(* end, here and in AddAdvance.                                            *)
StopReturn(t) ==
  /\ pc[t] = "release"
  /\ \/ keep[t] /\ ~alarm /\ job' = "run"
     \/ UNCHANGED job
  /\ Goto(t, "idle")
  /\ IF t = "exec" THEN End(goal) ELSE UNCHANGED <<goal, ended>>
  /\ polls' = [polls EXCEPT ![t] = 0] /\ keep' = [keep EXCEPT ![t] = FALSE]
  /\ UNCHANGED <<flags, status, alarm, faults, traj, queue, add, work,
                 overtaken, goals>>
-----------------------------------------------------------------------------
(* Ros_MotionControl_AddToIncQueueProcess of group g.                      *)
AddTop(g) ==
  /\ add[g] = "top" /\ allInit
  /\ AddGoto(g, "test")
  /\ UNCHANGED <<flags, robot, traj, queue, pc, work, stop, fjt>>

PointPastEnd(g) == hasData[g] /\ valid[g] /\ iter[g] \in 1 .. Points

PointToProcess(g) == hasData[g] /\ valid[g] /\ iter[g] \in 1 .. Points - 1

AddTest(g) ==
  /\ add[g] = "test"
  /\ AddGoto(g, IF PointToProcess(g) THEN "stop?" ELSE "nothing")
  /\ UNCHANGED <<flags, robot, traj, queue, pc, work, stop, fjt>>

(* Nothing to do: the buffer and then the flag are reset.                  *)
AddNothing(g) ==
  /\ add[g] = "nothing"
  /\ ZeroBuffer(g)
  /\ AddGoto(g, "reset")
  /\ UNCHANGED <<flags, robot, hasData, iter, queue, pc, work, stop, fjt>>

AddResetKeepsFlag(g) ==
  /\ add[g] = "reset"
  /\ AddGoto(g, "top")
  /\ UNCHANGED <<flags, robot, traj, queue, pc, work, stop, fjt>>

AddReset(g) ==
  /\ add[g] = "reset"
  /\ hasData' = [hasData EXCEPT ![g] = FALSE]
  /\ AddGoto(g, "top")
  /\ UNCHANGED <<flags, robot, iter, buf, valid, queue, pc, work, stop, fjt>>

(* A stop, or a point that is too fast, drops the rest of the trajectory.  *)
AddDrop(g) ==
  /\ add[g] = "stop?"
  /\ ZeroBuffer(g)
  /\ hasData' = [hasData EXCEPT ![g] = FALSE]
  /\ IF bStopMotion THEN AddGoto(g, "top") ELSE AddGoto(g, "advance")
  /\ UNCHANGED <<flags, robot, iter, queue, pc, work, stop, fjt>>

AddSegmentEndsEarly(g) ==
  /\ add[g] = "stop?" /\ ~bStopMotion
  /\ seg' = [seg EXCEPT ![g] = buf[g]]
  /\ made' = [made EXCEPT ![g] = 0]
  /\ hasData' = [hasData EXCEPT ![g] = iter[g] < Points - 1]
  /\ AddGoto(g, "loop")
  /\ UNCHANGED <<flags, robot, iter, buf, valid, queue, pc, inits, stop, fjt>>

AddSegment(g) ==
  /\ add[g] = "stop?" /\ ~bStopMotion
  /\ seg' = [seg EXCEPT ![g] = buf[g]]
  /\ made' = [made EXCEPT ![g] = 0]
  /\ AddGoto(g, "loop")
  /\ UNCHANGED <<flags, robot, traj, queue, pc, inits, stop, fjt>>

(* The inner loop ends with its segment, with a zeroed buffer, or as soon  *)
(* as motion is not ready: bStopMotion is not looked at.                   *)
AddLoop(g) ==
  /\ add[g] = "loop"
  /\ AddGoto(g, IF made[g] < Incs /\ buf[g] # None /\ MotionReady
               THEN "enqueue" ELSE "advance")
  /\ UNCHANGED <<flags, robot, traj, queue, pc, work, stop, fjt>>

AddEnqueue(g) ==
  /\ add[g] = "enqueue" /\ Len(queue[g]) < QSize
  /\ queue' = [queue EXCEPT ![g] = Append(@, seg[g])]
  /\ made' = [made EXCEPT ![g] = @ + 1]
  /\ AddGoto(g, "loop")
  /\ UNCHANGED <<flags, robot, traj, pc, seg, inits, stop, fjt>>

(* No room until motion is no longer ready, or room but no lock in time.   *)
AddGiveUp(g) ==
  /\ add[g] = "enqueue" /\ (Len(queue[g]) = QSize => ~MotionReady)
  /\ ZeroBuffer(g)
  /\ hasData' = [hasData EXCEPT ![g] = FALSE]
  /\ AddGoto(g, "advance")
  /\ UNCHANGED <<flags, robot, iter, queue, pc, work, stop, fjt>>

AddAdvance(g) ==
  /\ add[g] = "advance"
  /\ iter' = [iter EXCEPT ![g] = @ + 1]
  /\ seg' = [seg EXCEPT ![g] = None] /\ made' = [made EXCEPT ![g] = 0]
  /\ AddGoto(g, "top")
  /\ UNCHANGED <<flags, robot, hasData, buf, valid, queue, pc, inits, stop,
                 fjt>>
-----------------------------------------------------------------------------
(* IncMoveLoop, which no other task interrupts: one increment of every     *)
(* queue that has one, accepted by the robot or rejected.  A rejection has *)
(* it refresh the status, and stop all motion.                             *)
IncDue ==
  /\ pc["inc"] = "idle"
  /\ MotionReady /\ HasDataInQueue /\ ~bStopMotion

Rest == [g \in Groups |-> SubSeq(queue[g], 2, Len(queue[g]))]

IncAccepted ==
  /\ IncDue /\ job = "run"
  /\ queue' = Rest
  /\ UNCHANGED <<flags, robot, traj, add, pc, work, stop, fjt>>

(* An alarm that was not there before clears the queues.                   *)
UpdateStatus(q) ==
  /\ status' = RealStatus
  /\ IF alarm /\ status # "alarm"
       THEN ClearQ_All(q)
       ELSE queue' = q /\ UNCHANGED <<hasData, overtaken>>

IncRejected ==
  /\ IncDue /\ job # "run"
  /\ UpdateStatus(Rest)
  /\ bMpIncMoveError' = TRUE
  /\ CallStopMotion("inc", FALSE)
  /\ UNCHANGED <<allInit, bStopMotion, job, alarm, faults, iter, buf, valid,
                 add, work, fjt>>

(* IoStatusUpdate by the main task.                                        *)
IoStatusUpdate ==
  /\ status # RealStatus
  /\ UpdateStatus(queue)
  /\ UNCHANGED <<flags, job, alarm, faults, iter, buf, valid, add, pc, work,
                 polls, keep, fjt>>

(* The robot stops by itself, or by its operator, who may resume the job.  *)
RobotStops ==
  /\ faults < MaxFaults /\ job = "run"
  /\ faults' = faults + 1
  /\ job' = "held"
  /\ alarm' \in BOOLEAN
  /\ UNCHANGED <<flags, status, traj, queue, add, pc, work, stop, fjt>>

OperatorResumes ==
  /\ faults > 0 /\ job = "held" /\ ~alarm
  /\ \A t \in Stoppers : pc[t] \notin {"poll", "clear", "lower", "release"}
  /\ job' = "run"
  /\ UNCHANGED <<flags, status, alarm, faults, traj, queue, add, pc, work,
                 stop, fjt>>
-----------------------------------------------------------------------------
Init ==
  /\ allInit = FALSE /\ bStopMotion = FALSE /\ bMpIncMoveError = FALSE
  /\ status = "run" /\ job = "run" /\ alarm = FALSE /\ faults = 0
  /\ hasData = [g \in Groups |-> FALSE] /\ iter = [g \in Groups |-> 0]
  /\ buf = [g \in Groups |-> None] /\ valid = [g \in Groups |-> FALSE]
  /\ queue = [g \in Groups |-> <<>>]
  /\ add = [g \in Groups |-> "top"] /\ pc = [t \in Stoppers |-> "idle"]
  /\ seg = [g \in Groups |-> None] /\ made = [g \in Groups |-> 0]
  /\ inits = 0
  /\ polls = [t \in Stoppers |-> 0]
  /\ keep = [t \in Stoppers |-> FALSE]
  /\ goals = 0 /\ goal = None /\ ended = {}
  /\ overtaken = FALSE

StopStep(t) == \/ StopRaise(t) \/ StopHold(t) \/ StopPoll(t) \/ StopClear(t)
               \/ StopLower(t) \/ StopReturn(t)

InitStep == InitZero \/ InitFill \/ InitGroup \/ InitGroupFails \/ InitDone

AddStep(g) == \/ AddTop(g) \/ AddTest(g) \/ AddNothing(g) \/ AddReset(g)
              \/ AddDrop(g) \/ AddSegment(g) \/ AddLoop(g) \/ AddEnqueue(g)
              \/ AddGiveUp(g) \/ AddAdvance(g)

IncStep == IncAccepted \/ IncRejected

Next ==
  \/ GoalReceived \/ InitStep \/ GoalComplete \/ GoalAbort \/ GoalCancel
  \/ \E t \in Stoppers : StopStep(t)
  \/ \E g \in Groups : AddStep(g)
  \/ IncStep \/ IoStatusUpdate \/ RobotStops \/ OperatorResumes

Spec == Init /\ [][Next]_vars

(* Variants of the definitions above carry plausible mistakes: a stop that *)
(* holds the job without the flag, one that leaves the queues, an iterator *)
(* one too far, a task that resets hasDataToProcess too early or never, a  *)
(* clear that leaves it.                                                   *)

(* Every task keeps running.  ProcessFeedback is called at every turn of   *)
(* the executor; nothing obliges the client to cancel or the operator to   *)
(* resume.                                                                 *)
Fairness ==
  /\ WF_vars(InitStep) /\ WF_vars(GoalComplete \/ GoalAbort)
  /\ \A t \in Stoppers : WF_vars(StopStep(t))
  /\ \A g \in Groups : WF_vars(AddStep(g))
  /\ WF_vars(IncStep) /\ WF_vars(IoStatusUpdate)

FairSpec == Spec /\ Fairness
-----------------------------------------------------------------------------
GoalIds == 1 .. MaxGoals

TypeOK ==
  /\ {allInit, bStopMotion, bMpIncMoveError, alarm, overtaken} \subseteq BOOLEAN
  /\ status \in {"run", "held", "alarm"} /\ job \in {"run", "held"}
  /\ hasData \in [Groups -> BOOLEAN] /\ valid \in [Groups -> BOOLEAN]
  /\ iter \in [Groups -> 0 .. Points]
  /\ buf \in [Groups -> 0 .. MaxGoals] /\ seg \in [Groups -> 0 .. MaxGoals]
  /\ queue \in [Groups -> Seq(0 .. MaxGoals)]
  /\ \A g \in Groups : Len(queue[g]) <= QSize
  /\ add \in [Groups -> {"top", "test", "nothing", "reset", "stop?", "loop",
                          "enqueue", "advance"}]
  /\ pc \in [Stoppers -> {"idle", "zero", "fill", "group", "raise", "hold",
                           "poll", "clear", "lower", "release"}]
  /\ made \in [Groups -> 0 .. Incs] /\ inits \in 0 .. NumGroups
  /\ polls \in [Stoppers -> 0 .. StopPolls] /\ keep \in [Stoppers -> BOOLEAN]
  /\ goals \in 0 .. MaxGoals /\ goal \in 0 .. goals /\ ended \subseteq 1 .. goals
  /\ faults \in 0 .. MaxFaults

(* An AddTo task inside its interpolation loop, with more to make.         *)
Filling(g) ==
  add[g] \in {"loop", "enqueue"} /\ made[g] < Incs /\ buf[g] # None

(* Once the result of a goal is decided (completed, cancelled or aborted)  *)
(* nothing of it is left in a queue or still being interpolated, unless    *)
(* hasDataToProcess was reset under a busy task: StopMotion that timed out *)
(* or an alarm, whose ClearQ_All does not stop the task; or a queue could  *)
(* not be cleared because its lock was not to be had.                      *)
EndedGoalIsStill ==
  ~overtaken => \A g \in Groups :
    /\ \A i \in DOMAIN queue[g] : queue[g][i] \notin ended
    /\ Filling(g) => seg[g] \notin ended

(* Whatever overtook it, a task takes up no further point of a goal whose  *)
(* result is decided: what a StopMotion that timed out or an alarm leaves  *)
(* moving is the rest of the segment each task is in, not the trajectory.  *)
EndedGoalGoesNoFurther ==
  [][\A g \in Groups :
       add[g] = "test" /\ add'[g] = "stop?" => buf[g] \notin ended]_vars

(* The trajectory an AddTo task interpolates is not replaced by the next   *)
(* one: the task keeps pointers into trajectoryToProcess across its sleeps *)
(* and Ros_MotionControl_Init relies on hasDataToProcess alone.            *)
BufferOwned ==
  ~overtaken => \A g \in Groups : Filling(g) => buf[g] = seg[g]

(* StopMotion's order (raise the flag, hold the job, and the reverse) has  *)
(* the robot reject no increment between the hold and its release.         *)
StopNeverRejects ==
  [][IncRejected /\ ~overtaken =>
       pc["exec"] \notin {"hold", "poll", "clear", "lower", "release"}]_vars

(* Every accepted goal gets its result, if the job is not left on hold for *)
(* ever: IncMoveLoop, status and AddTo tasks bring it to an end whatever   *)
(* was dropped, rejected or cleared on the way.                            *)
GoalEnds ==
  (<>[](job = "run" \/ alarm))
     => \A k \in GoalIds : goal = k ~> goal # k
=============================================================================
