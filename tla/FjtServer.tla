----------------------------- MODULE FjtServer ------------------------------
(***************************************************************************)
(* The bookkeeping of the FollowJointTrajectory action server: which goal  *)
(* is active, which was turned down but has to be answered all the same,   *)
(* whether a result waits for its client, and which one.  rclc, which      *)
(* calls the handlers one at a time, has one goal handle (the argument 1   *)
(* of rclc_executor_add_action_server): it takes no goal until the result  *)
(* of the one before is out, which it refuses to send until the client has *)
(* asked for it.  How the robot executes a goal is left to MotionPipeline: *)
(* here it moves or is still.  A goal may be decided while increments of   *)
(* it are still sent: StopMotion gives up waiting for the tasks that make  *)
(* them, and pulses a speed limit defers are not seen by IsInMotion.       *)
(***************************************************************************)
EXTENDS Naturals

CONSTANTS MaxGoals,     \* bound: goals the client sends
          MaxSessions   \* bound: sessions with the Agent

ASSUME BoundsAssumption == MaxGoals \in Nat /\ MaxSessions \in Nat

VARIABLES
  active, rejected,  \* fjt_active_goal_handle, fjt_rejected_goal_handle
  ready,             \* fjt_result_message_ready
  response,          \* fjt_result_response.status
  goalState,         \* fjt_goal_state
  feedback,          \* feedback_FollowJointTrajectory is allocated
  turn,              \* between the two halves of the feedback timer?
  handle,            \* goal that has the goal handle of rclc
  received,          \* goals received so far
  asked, canceled,   \* goals whose client asked for the result, canceled
  sent,              \* how often, and what, was sent as result of a goal
  robot,             \* ready, in energy saving mode, stopped, or in a fault
  mode,              \* trajectory mode, or the one of the point queue
  moving,            \* what data is processed, or moves the robot, if any;
                     \* "deferred": at rest, with pulses of a goal to send
  session, sessions  \* the server exists; how many did so far

server == <<active, rejected, ready, response, goalState, feedback, turn>>
client == <<handle, received, asked, canceled, sent>>
motion == <<robot, mode, moving>>
life == <<session, sessions>>
vars == <<server, client, motion, life>>

GoalIds == 1 .. MaxGoals
Verdicts == {"none", "succeeded", "aborted", "canceled"}
None == 0
IsInMotion == moving \in {"goal", "queue"}
Unsent == [times |-> 0, state |-> "none", status |-> "none"]
-----------------------------------------------------------------------------
InitializeKeepsResult ==
  /\ ~session /\ sessions < MaxSessions
  /\ session' = TRUE /\ sessions' = sessions + 1
  /\ active' = None /\ rejected' = None
  /\ feedback' = FALSE
  /\ turn' = "spin"
  /\ UNCHANGED <<ready, response, goalState, client, motion>>

(* Ros_ActionServer_FJT_Initialize and _Cleanup.                           *)
Initialize ==
  /\ ~session /\ sessions < MaxSessions
  /\ session' = TRUE /\ sessions' = sessions + 1
  /\ active' = None /\ rejected' = None
  /\ ready' = FALSE
  /\ feedback' = FALSE
  /\ turn' = "spin"
  /\ UNCHANGED <<response, goalState, client, motion>>

Cleanup ==
  /\ session /\ turn = "spin" /\ ~IsInMotion
  /\ session' = FALSE
  /\ moving' = "still"                      \* Ros_Controller_Cleanup
  /\ handle' = None                         \* rclc_action_server_fini
  /\ feedback' = FALSE
  /\ UNCHANGED <<active, rejected, ready, response, goalState, turn, received,
                 asked, canceled, sent, robot, mode, sessions>>
-----------------------------------------------------------------------------
Serving == session /\ turn = "spin"

(* Energy saving is left by way of start_traj_mode, which may fail.        *)
WakeUp(sizeOk) ==
  IF robot = "eco" /\ mode = "trajectory" /\ sizeOk
    THEN robot' \in {"ready", "eco"} ELSE robot' = robot

(* Ros_ActionServer_FJT_Goal_Received.  rclc has no other goal.            *)
Receive ==
  /\ Serving /\ handle = None /\ received < MaxGoals
  /\ received' = received + 1
  /\ handle' = received + 1

GoalAccepted ==
  /\ Receive
  /\ mode = "trajectory"
  /\ WakeUp(TRUE) /\ robot' = "ready"
  /\ active' = received + 1
  /\ feedback' = TRUE
  /\ moving' = "goal"                        \* Ros_MotionControl_InitTrajectory
  /\ UNCHANGED <<rejected, ready, response, goalState, turn, asked, canceled,
                 sent, mode, life>>

GoalRejectedSilently ==
  /\ Receive
  /\ \E sizeOk, initOk \in BOOLEAN :
       /\ WakeUp(sizeOk)
       /\ ~(sizeOk /\ initOk /\ mode = "trajectory" /\ robot' = "ready")
  /\ rejected' = received + 1
  /\ response' = "aborted"
  /\ UNCHANGED <<active, ready, goalState, feedback, turn, asked, canceled,
                 sent, mode, moving, life>>

(* Too many points, robot not ready, another mode, or not accepted by      *)
(* InitTrajectory: accepted by rclc, with a result at once.                *)
GoalRejected ==
  /\ Receive
  /\ \E sizeOk, initOk \in BOOLEAN :
       /\ WakeUp(sizeOk)
       /\ ~(sizeOk /\ initOk /\ mode = "trajectory" /\ robot' = "ready")
  /\ rejected' = received + 1
  /\ response' = "aborted"
  /\ ready' = TRUE
  /\ UNCHANGED <<active, goalState, feedback, turn, asked, canceled, sent,
                 mode, moving, life>>

-----------------------------------------------------------------------------

CompleteKeepsFeedback(status) ==
  /\ response' = status /\ goalState' = status
  /\ ready' = TRUE
  /\ UNCHANGED feedback

(* Ros_ActionServer_FJT_Goal_Complete.                                     *)
Complete(status) ==
  /\ response' = status /\ goalState' = status
  /\ feedback' = FALSE                      \* _DeleteFeedbackMessage
  /\ ready' = TRUE

(* Ros_MotionControl_StopMotion, which clears the queues also when a task  *)
(* that fills them has not stopped in time.                                *)
StopMotion == moving' \in {"still", moving}

(* Ros_ActionServer_FJT_Goal_Cancel: of the goal that has the handle,      *)
(* whether active, rejected, or decided and waiting for its client.        *)
GoalCancel ==
  /\ Serving /\ handle # None /\ handle \notin canceled
  /\ canceled' = canceled \cup {handle}
  /\ StopMotion
  /\ Complete("canceled")
  /\ UNCHANGED <<active, rejected, turn, handle, received, asked, sent, robot,
                 mode, life>>

(* The feedback timer: Ros_ActionServer_FJT_ProcessFeedback, ...           *)
AnyFault == robot = "fault"

ProcessFeedback ==
  /\ Serving
  /\ turn' = "result"
  /\ IF active # None /\ ~ready /\ (AnyFault \/ ~IsInMotion)
       THEN IF AnyFault
              THEN StopMotion /\ Complete("aborted")
              ELSE /\ \E v \in {"succeeded", "aborted"} : Complete(v)
                   /\ UNCHANGED moving
       ELSE UNCHANGED <<response, goalState, feedback, ready, moving>>
  /\ UNCHANGED <<active, rejected, client, robot, mode, life>>

(* rclc_action_send_result succeeds once the client has asked; the handle  *)
(* is free then.  The link may fail it.                                    *)
Send(g, state) ==
  /\ g \in asked
  /\ sent' = [sent EXCEPT ![g] = [times |-> @.times + 1, state |-> state,
                                  status |-> response]]
  /\ handle' = None

KeepsResult ==
  UNCHANGED <<active, rejected, ready, response, goalState, feedback, handle,
              sent>>

(* ... then Ros_ActionServer_FJT_ProcessResult.                            *)
ResultSent ==
  \/ /\ active # None /\ ready
     /\ Send(active, goalState)
     /\ active' = None /\ ready' = FALSE
     /\ UNCHANGED rejected
  \/ /\ active = None /\ rejected # None /\ ready
     /\ Send(rejected, "aborted")
     /\ rejected' = None /\ ready' = FALSE
     /\ UNCHANGED active

ProcessResult ==
  /\ session /\ turn = "result"
  /\ turn' = "spin"
  /\ \/ ResultSent /\ UNCHANGED <<response, goalState, feedback>>
     \/ KeepsResult
  /\ UNCHANGED <<received, asked, canceled, motion, life>>

-----------------------------------------------------------------------------
(* The client.                                                             *)
AskResult ==
  /\ session /\ handle # None /\ handle \notin asked
  /\ asked' = asked \cup {handle}
  /\ UNCHANGED <<server, handle, received, canceled, sent, motion, life>>

(* The robot and its modes, whatever brings them about; a mode is chosen   *)
(* only when nothing moves, and lost at any time.                          *)
RobotChanges ==
  /\ robot' \in {"ready", "eco", "stopped", "fault"} \ {robot}
  /\ UNCHANGED <<server, client, mode, moving, life>>

ModeChanges ==
  /\ mode' \in {"trajectory", "queue", "none"} \ {mode}
  /\ mode' # "none" => mode = "none" /\ robot = "ready" /\ ~IsInMotion
  /\ UNCHANGED <<server, client, robot, moving, life>>

QueueMoves ==
  /\ mode = "queue" /\ robot = "ready" /\ ~IsInMotion
  /\ moving' = "queue"
  /\ UNCHANGED <<server, client, robot, mode, life>>

MotionEnds ==
  /\ IsInMotion
  /\ moving' \in {"still"} \cup (IF moving = "goal" THEN {"deferred"} ELSE {})
  /\ UNCHANGED <<server, client, robot, mode, life>>

(* The speed limit lets the rest through.                                  *)
DeferredSent ==
  /\ moving = "deferred" /\ moving' = "still"
  /\ UNCHANGED <<server, client, robot, mode, life>>
-----------------------------------------------------------------------------
Init ==
  /\ active = None /\ rejected = None /\ ready = FALSE
  /\ response = "none" /\ goalState = "none"
  /\ feedback = FALSE /\ turn = "spin"
  /\ handle = None /\ received = 0 /\ asked = {} /\ canceled = {}
  /\ sent = [g \in GoalIds |-> Unsent]
  /\ robot = "ready" /\ mode = "trajectory" /\ moving = "still"
  /\ session = FALSE /\ sessions = 0

Handlers == GoalAccepted \/ GoalRejected \/ GoalCancel
Timer == ProcessFeedback \/ ProcessResult
World == RobotChanges \/ ModeChanges \/ QueueMoves \/ MotionEnds \/ DeferredSent

Next == Initialize \/ Cleanup \/ Handlers \/ Timer \/ AskResult \/ World

Spec == Init /\ [][Next]_vars

(* The timer is never starved by the handlers.  A result that is asked for *)
(* is not refused for ever, and a motion that is not stopped ends (GoalEnds*)
(* of MotionPipeline).                                                     *)
Fairness ==
  /\ WF_vars(ProcessResult) /\ WF_vars(ProcessFeedback)
  /\ SF_vars(ProcessResult /\ handle' # handle)
  /\ SF_vars(MotionEnds /\ robot # "stopped")

FairSpec == Spec /\ Fairness
-----------------------------------------------------------------------------
(* Types; a goal the server remembers is the one rclc has the handle of.    *)
TypeOK ==
  /\ ready \in BOOLEAN /\ feedback \in BOOLEAN /\ session \in BOOLEAN
  /\ response \in Verdicts /\ goalState \in Verdicts
  /\ turn \in {"spin", "result"}
  /\ received \in 0 .. MaxGoals /\ handle \in 0 .. received
  /\ active \in 0 .. received /\ rejected \in 0 .. received
  /\ session => active \in {None, handle} /\ rejected \in {None, handle}
  /\ asked \subseteq 1 .. received /\ canceled \subseteq 1 .. received
  /\ sent \in [GoalIds -> [times : Nat, state : Verdicts, status : Verdicts]]
  /\ robot \in {"ready", "eco", "stopped", "fault"}
  /\ mode \in {"trajectory", "queue", "none"}
  /\ moving \in {"still", "goal", "queue", "deferred"}
  /\ sessions \in 0 .. MaxSessions

(* The feedback message exists exactly while the active goal has no        *)
(* result: it is neither freed twice, nor used or left behind, by          *)
(* whichever way the goal ends.                                            *)
FeedbackForUndecided ==
  session => (feedback <=> active # None /\ ~ready)

(* The state a goal is finished with says the same as the result message,  *)
(* unless a goal already turned down was then canceled.                    *)
StateIsStatus ==
  \A g \in GoalIds : sent[g].state # sent[g].status =>
     sent[g].state = "aborted" /\ sent[g].status = "canceled" /\ g \in canceled

(* How far each goal has come, for the client.                             *)
LifeOf(g) ==
  CASE g > received -> "unknown"
    [] g <= received /\ sent[g].times = 1 -> "reported"
    [] g <= received /\ sent[g].times > 1 -> "reported again"
    [] g <= received /\ sent[g].times = 0 /\ handle # g -> "lost"
    [] g <= received /\ sent[g].times = 0 /\ handle = g /\ ready -> "decided"
    [] OTHER -> "executing"

ResultOf(g) ==
  CASE LifeOf(g) = "reported" -> sent[g].status
    [] LifeOf(g) = "decided" -> response
    [] OTHER -> "none"

Promise == INSTANCE ActionServer WITH
  life <- [g \in GoalIds |-> LifeOf(g)], result <- [g \in GoalIds |-> ResultOf(g)]

(* Every goal gets one result, its own: the one decided last, whatever     *)
(* comes between, as rejections, cancels, retries of the send and the ends *)
(* of sessions.                                                            *)
KeepsPromise == Promise!LifeSpec

(* A client that asks gets its result, or loses it with the session, once  *)
(* motion is not held up for ever or taken over by the point queue; the    *)
(* server is then free for another goal.                                   *)
Answered ==
  <>[](robot # "stopped" /\ mode # "queue")
     => \A g \in GoalIds : (handle = g /\ g \in asked) ~> handle # g
=============================================================================
