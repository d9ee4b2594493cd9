----------------------------- MODULE AgentLink -----------------------------
(***************************************************************************)
(* One session with the micro-ROS Agent after another: the main task       *)
(* connects, creates the task of the motion executor, which creates that   *)
(* of the I/O executor; all three leave their loops when they see          *)
(* AgentIsConnected FALSE, and wait for each other on binary semaphores    *)
(* before they release what the others use.  A trajectory may be on its    *)
(* way meanwhile.                                                          *)
(*                                                                         *)
(* All three tasks have the same priority and sleep: a task just created   *)
(* runs before a sleeping one goes on.                                     *)
(***************************************************************************)
VARIABLES
  stopOnDisconnect,  \* stop_motion_on_disconnect, as configured
  link, agent,       \* the LAN port has a link; the Agent answers
  connected,         \* g_Ros_Communication_AgentIsConnected
  main, comm, io,    \* where each task is ("none": not there)
  semComm, semIo,    \* semCommunicationExecutorStatus, semIoExecutorStatus
  executors,         \* the two executors exist
  bLinkWasUp,        \* static of MonitorUserLanState
  monitor,           \* its timer runs
  traj,              \* the trajectory: none, accepted ("pending"), moving the
                     \* robot; "escaped" from a StopMotion that gave up
                     \* waiting; or "deferred", pulses of it by a speed limit
  handle,            \* fjt_active_goal_handle is not NULL
  feedback,          \* feedback_FollowJointTrajectory is allocated
  late               \* history: its goal was decided, some of it is not sent

world == <<stopOnDisconnect, link, agent>>
tasks == <<main, comm, io>>
sems == <<semComm, semIo>>
lan == <<bLinkWasUp, monitor>>
goal == <<traj, handle, feedback, late>>
vars == <<world, connected, tasks, sems, executors, lan, goal>>

Reachable == link /\ agent

(* A sleep or a wait of another task is over only after new tasks started. *)
Awake == comm # "created" /\ io # "created"

(* IsInMotion sees increments in a queue, not a trajectory just accepted.  *)
IsInMotion == traj = "moving"

SendsAnyway == traj \in {"moving", "deferred"}

(* IncMoveLoop passes increments to the robot and updates the feedback.    *)
SendsIncrements ==
  traj \in {"moving", "deferred"} /\ (connected \/ ~stopOnDisconnect)

(* Ros_MotionControl_StopMotion clears the queues, also when a task that   *)
(* fills them has not stopped in time, but not what is deferred.           *)
StopMotion ==
  traj' \in IF traj = "none" THEN {"none"} ELSE {"none", "escaped", "deferred"}

LateNoMore == late' = (late /\ traj' # "none")
-----------------------------------------------------------------------------
(* The main task.                                                          *)
ConnectToAgent ==
  /\ main = "connect" /\ Reachable
  /\ connected' = TRUE
  /\ main' = "initialize"
  /\ UNCHANGED <<world, comm, io, sems, executors, lan, goal>>

CreateExecutors ==
  /\ main = "initialize"
  /\ handle' = FALSE /\ feedback' = FALSE       \* Ros_ActionServer_FJT_Initialize
  /\ semComm' = "full"
  /\ comm' = "created" /\ main' = "loop"
  /\ UNCHANGED <<world, connected, io, semIo, executors, lan, traj, late>>

(* The status could not be read: disconnect, then assert, never to return. *)
StatusUpdateFails ==
  /\ main = "loop" /\ connected /\ Awake
  /\ connected' = FALSE
  /\ main' = "asserted"
  /\ UNCHANGED <<world, comm, io, sems, executors, lan, goal>>

MainLeaves ==
  /\ main = "loop" /\ ~connected /\ Awake
  /\ main' = "in motion?"
  /\ UNCHANGED <<world, connected, comm, io, sems, executors, lan, goal>>

(* Asked after a sleep of a second: long enough for a trajectory accepted  *)
(* before it to have put its first increments into the queue, and for the  *)
(* motion executor to come to the end of a spin that is not in a ping.     *)
(* What StopMotion left behind may not be seen.                            *)
MainSeesStill ==
  /\ main = "in motion?" /\ ~IsInMotion /\ traj # "pending" /\ Awake
  /\ connected \/ comm \notin {"loop", "feedback", "goals"}
  /\ main' = "join"
  /\ UNCHANGED <<world, connected, comm, io, sems, executors, lan, goal>>

MainJoins ==
  /\ main = "join" /\ semComm = "full"
  /\ semComm' = "none"
  /\ main' = "clean"
  /\ UNCHANGED <<world, connected, comm, io, semIo, executors, lan, goal>>

(* Frees the feedback message; fjt_active_goal_handle keeps its value.     *)
CleanupServers ==
  /\ main = "clean"
  /\ feedback' = FALSE
  /\ main' = "clean groups"
  /\ UNCHANGED <<world, connected, comm, io, sems, executors, lan, traj,
                 handle, late>>

(* Ros_Controller_Cleanup deletes the tasks that move the robot.           *)
CleanupController ==
  /\ main = "clean groups"
  /\ traj' = "none" /\ LateNoMore
  /\ main' = "connect"
  /\ UNCHANGED <<world, connected, comm, io, sems, executors, lan, handle,
                 feedback>>
-----------------------------------------------------------------------------
(* The task of the motion executor.                                        *)
StartExecutors ==
  /\ comm = "created"
  /\ semComm' = "empty"                           \* mpSemTake(.., NO_WAIT)
  /\ executors' = TRUE
  /\ monitor' \in BOOLEAN                         \* userlan_monitor_enabled
  /\ semIo' = "full"
  /\ io' = "created" /\ comm' = "loop"
  /\ UNCHANGED <<world, connected, main, bLinkWasUp, goal>>

(* In one spin: the ping if its timer is due, the feedback of the action,  *)
(* then its goal requests.                                                 *)
CommSpins ==
  /\ comm = "loop" /\ connected /\ Awake
  /\ comm' = "feedback"
  /\ UNCHANGED <<world, connected, main, io, sems, executors, lan, goal>>

PingAgent ==
  /\ comm = "loop" /\ connected /\ Awake
  /\ comm' = "ping"
  /\ UNCHANGED <<world, connected, main, io, sems, executors, lan, goal>>

(* Up to three attempts of a second each; the answer overwrites the flag.  *)
PingAnswered ==
  /\ comm = "ping"
  /\ connected' \in {Reachable, FALSE}            \* FALSE: all packets lost
  /\ comm' = "feedback"
  /\ UNCHANGED <<world, main, io, sems, executors, lan, goal>>

PublishKeepsMessage ==
  /\ comm = "feedback"
  /\ \/ UNCHANGED handle
     \/ handle /\ traj = "none" /\ handle' = FALSE
  /\ comm' = "goals"
  /\ UNCHANGED <<world, connected, main, io, sems, executors, lan, traj,
                 feedback, late>>

(* ProcessFeedback finds the motion over, or a fault that it stops it for; *)
(* ProcessResult sends the result at once or at a later tick.              *)
PublishActionFeedback ==
  /\ comm = "feedback"
  /\ \/ UNCHANGED goal                             \* not due, or not over
     \/ /\ handle /\ feedback
        /\ StopMotion \/ (~IsInMotion /\ traj # "pending" /\ UNCHANGED traj)
        /\ feedback' = FALSE /\ handle' \in BOOLEAN
        /\ late' = (traj' # "none")
     \/ /\ handle /\ ~feedback
        /\ handle' = FALSE /\ UNCHANGED <<traj, feedback, late>>
  /\ comm' = "goals"
  /\ UNCHANGED <<world, connected, main, io, sems, executors, lan>>

(* Goal_Received; rclc has one goal handle.  InitTrajectory, which refuses *)
(* while the robot is in motion, does not see what is deferred or escaped. *)
GoalReceived ==
  /\ comm = "goals" /\ ~IsInMotion /\ traj # "pending" /\ ~handle
  /\ traj' = "pending" /\ handle' = TRUE /\ feedback' = TRUE
  /\ late' = (traj = "escaped")
  /\ comm' = "loop"
  /\ UNCHANGED <<world, connected, main, io, sems, executors, lan>>

(* Goal_Cancel; the handle is given up when the result is sent.            *)
GoalCanceled ==
  /\ comm = "goals" /\ handle
  /\ StopMotion
  /\ feedback' = FALSE /\ late' = (traj' # "none")
  /\ comm' = "loop"
  /\ UNCHANGED <<world, connected, main, io, sems, executors, lan, handle>>

NoGoalReceived ==
  /\ comm = "goals"
  /\ comm' = "loop"
  /\ UNCHANGED <<world, connected, main, io, sems, executors, lan, goal>>

CommLeaves ==
  /\ comm = "loop" /\ ~connected /\ Awake
  /\ comm' = "join"
  /\ UNCHANGED <<world, connected, main, io, sems, executors, lan, goal>>

JoinsWithoutWaiting ==
  /\ comm = "join"
  /\ semIo' = "none"
  /\ comm' = "in motion?"
  /\ UNCHANGED <<world, connected, main, io, semComm, executors, lan, goal>>

CommJoins ==
  /\ comm = "join" /\ semIo = "full"
  /\ semIo' = "none"
  /\ comm' = "in motion?"
  /\ UNCHANGED <<world, connected, main, io, semComm, executors, lan, goal>>

(* The mode that lets ROS control motion may have been lost meanwhile.     *)
CommStopsMotion ==
  /\ comm = "in motion?"
  /\ \/ /\ ~IsInMotion
        /\ comm' = "fini" /\ UNCHANGED traj
     \/ /\ IsInMotion /\ stopOnDisconnect
        /\ StopMotion
        /\ comm' = "fini"
     \/ /\ IsInMotion
        /\ comm' = "drain" /\ UNCHANGED traj
  /\ LateNoMore
  /\ UNCHANGED <<world, connected, main, io, sems, executors, lan, handle,
                 feedback>>

CommWaitedForMotion ==
  /\ comm = "drain" /\ ~IsInMotion
  /\ comm' = "fini"
  /\ UNCHANGED <<world, connected, main, io, sems, executors, lan, goal>>

CommEnds ==
  /\ comm = "fini"
  /\ executors' = FALSE
  /\ semComm' = "full"
  /\ comm' = "none"                               \* mpDeleteSelf
  /\ UNCHANGED <<world, connected, main, io, semIo, lan, goal>>
-----------------------------------------------------------------------------
(* The task of the I/O executor, whose timer watches the link of the port. *)
IoStarts ==
  /\ io = "created"
  /\ semIo' = "empty"                             \* mpSemTake(.., NO_WAIT)
  /\ io' = "loop"
  /\ UNCHANGED <<world, connected, main, comm, semComm, executors, lan, goal>>

IoSpins ==
  /\ io = "loop" /\ connected
  /\ io' = "spin"
  /\ UNCHANGED <<world, connected, main, comm, sems, executors, lan, goal>>

MonitorUserLanState ==
  /\ io = "spin" /\ monitor
  /\ \/ /\ connected' = (connected /\ ~(bLinkWasUp /\ ~link))
        /\ bLinkWasUp' = link
        /\ UNCHANGED monitor
     \/ /\ monitor' = FALSE                       \* state cannot be read
        /\ UNCHANGED <<connected, bLinkWasUp>>
  /\ io' = "loop"
  /\ UNCHANGED <<world, main, comm, sems, executors, goal>>

IoSpinEnds ==
  /\ io = "spin"
  /\ io' = "loop"
  /\ UNCHANGED <<world, connected, main, comm, sems, executors, lan, goal>>

IoEndsSilently ==
  /\ io = "loop" /\ ~connected
  /\ io' = "none"
  /\ UNCHANGED <<world, connected, main, comm, sems, executors, lan, goal>>

IoEnds ==
  /\ io = "loop" /\ ~connected
  /\ semIo' = "full"
  /\ io' = "none"
  /\ UNCHANGED <<world, connected, main, comm, semComm, executors, lan, goal>>
-----------------------------------------------------------------------------
(* AddToIncQueueProcess puts the first increments of an accepted           *)
(* trajectory into the queue; IncMoveLoop takes the last one out.          *)
MotionBegins ==
  /\ traj \in {"pending", "escaped"}
  /\ traj' = "moving"
  /\ UNCHANGED <<world, connected, tasks, sems, executors, lan, handle,
                 feedback, late>>

MotionEnds ==
  /\ traj = "moving"
  /\ traj' \in {"none", "deferred"} /\ LateNoMore
  /\ UNCHANGED <<world, connected, tasks, sems, executors, lan, handle,
                 feedback>>

(* The speed limit lets the rest through.                                  *)
DeferredSent ==
  /\ traj = "deferred"
  /\ traj' = "none" /\ LateNoMore
  /\ UNCHANGED <<world, connected, tasks, sems, executors, lan, handle,
                 feedback>>

World ==
  /\ \/ link' = ~link /\ UNCHANGED agent
     \/ agent' = ~agent /\ UNCHANGED link
  /\ UNCHANGED <<stopOnDisconnect, connected, tasks, sems, executors, lan, goal>>
-----------------------------------------------------------------------------
Init ==
  /\ stopOnDisconnect \in BOOLEAN
  /\ link = TRUE /\ agent \in BOOLEAN
  /\ connected = FALSE
  /\ main = "connect" /\ comm = "none" /\ io = "none"
  /\ semComm = "none" /\ semIo = "none"
  /\ executors = FALSE
  /\ bLinkWasUp = TRUE /\ monitor = FALSE
  /\ traj = "none" /\ handle = FALSE /\ feedback = FALSE /\ late = FALSE

MainStep ==
  \/ ConnectToAgent \/ CreateExecutors \/ MainLeaves \/ MainSeesStill
  \/ MainJoins \/ CleanupServers \/ CleanupController

CommStep ==
  \/ StartExecutors \/ CommSpins \/ PingAnswered \/ NoGoalReceived
  \/ PublishActionFeedback \/ CommLeaves \/ CommJoins \/ CommStopsMotion
  \/ CommWaitedForMotion \/ CommEnds

IoStep == IoStarts \/ IoSpins \/ IoSpinEnds \/ IoEnds

Next ==
  \/ MainStep \/ CommStep \/ IoStep \/ GoalReceived \/ GoalCanceled
  \/ StatusUpdateFails \/ PingAgent \/ MonitorUserLanState
  \/ MotionBegins \/ MotionEnds \/ DeferredSent \/ World

Spec == Init /\ [][Next]_vars

(* Every task keeps running; the timer of the ping is periodic, so it      *)
(* comes up in some spin; a motion once begun ends.                        *)
Fairness ==
  /\ WF_vars(MainStep) /\ WF_vars(CommStep) /\ WF_vars(IoStep)
  /\ SF_vars(PingAgent)
  /\ WF_vars(MotionBegins) /\ WF_vars(MotionEnds)

FairSpec == Spec /\ Fairness
-----------------------------------------------------------------------------
(* Variants carry plausible mistakes: increments sent whatever the state   *)
(* of the connection, an executor torn down without waiting for the task   *)
(* that spins it, a semaphore not given back, a message never released.    *)

(* Types; and the feedback message is allocated for the active goal only.  *)
TypeOK ==
  /\ {stopOnDisconnect, link, agent, connected, executors, bLinkWasUp,
      monitor, handle, feedback, late} \subseteq BOOLEAN
  /\ main \in {"connect", "initialize", "loop", "asserted", "in motion?",
               "join", "clean", "clean groups"}
  /\ comm \in {"none", "created", "loop", "ping", "feedback", "goals",
               "join", "in motion?", "drain", "fini"}
  /\ io \in {"none", "created", "loop", "spin"}
  /\ {semComm, semIo} \subseteq {"none", "full", "empty"}
  /\ traj \in {"none", "pending", "moving", "escaped", "deferred"}
  /\ feedback => handle

(* What a task uses is there as long as the task is: neither executor is   *)
(* torn down under the task that spins it, no semaphore deleted before the *)
(* task that will give it has done so, and the main task releases nothing  *)
(* while an executor task lives, however often the flag that all of them   *)
(* read changes in between.                                                *)
TasksOutlivedByTheirObjects ==
  /\ comm \in {"loop", "ping", "feedback", "goals"} \/ io # "none" => executors
  /\ io # "none" => semIo # "none"
  /\ comm # "none" => semComm # "none"
  /\ main \in {"clean", "clean groups", "connect", "initialize"} =>
       comm = "none" /\ io = "none"

(* UpdateProgressTracker trusts fjt_active_goal_handle, which Cleanup does *)
(* not reset, to tell it that the feedback message exists: with            *)
(* stop_motion_on_disconnect no increment is sent once the end of a        *)
(* session released it.  Increments of a goal that was decided before they *)
(* were sent (late) are not covered: for them the message is gone.         *)
TrackerFindsFeedback ==
  stopOnDisconnect /\ SendsIncrements /\ handle /\ ~late => feedback

(* An Agent that stays away is noticed, and the session it leaves behind   *)
(* is torn down to the end: the three tasks never wait for each other for  *)
(* ever, and the main task waits for a new connection.                     *)
SessionEnds ==
  <>[]~Reachable => (main = "loop" ~> main \in {"connect", "asserted"})
=============================================================================
