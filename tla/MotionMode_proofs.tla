-------------------------- MODULE MotionMode_proofs --------------------------
(***************************************************************************)
(* MotionMode for any number of groups, points, increments, slots, starts  *)
(* and losses of motion: a mode starts with nothing left of the one        *)
(* before, and the robot moves on only from where it is.                   *)
(*                                                                         *)
(* The increments and the flags of a group survive the end of a mode until *)
(* a refresh of the status or the next start clears them, and the robot    *)
(* may be brought back to its WAIT before.  The invariant follows output   *)
(* 889 for that: a session keeps it on, one that was ended switched it     *)
(* off, so that only a start with its clearing brings the robot back       *)
(* (WaitSeen, RestartOK, OtherModes).  While the robot can move, every     *)
(* group has an unbroken row of increments from where the robot is to the  *)
(* newest point (LiveOK).                                                  *)
(***************************************************************************)
EXTENDS MotionMode, TLAPS

USE DEF modes, slots, points, flags, places, tasks, robot, counts, Goto, AddGoto

(* No group has anything to do; a group has nothing a start would not      *)
(* clear; some group is taken for busy.                                    *)
NoWork == \A g \in Groups : ~hasData[g] /\ queue[g] = <<>> /\ add[g] = "top"
Idle(g) == add[g] = "top" /\ ~HasPoint(g) /\ queue[g] = <<>>
Unclean == \E g \in Groups : hasData[g]

(* StartMotionMode before and after mpStartJob.                            *)
Prepare == {"power", "powered", "clear", "job"}
Restart == {"await", "update", "check"}
Starts == {"start", "tests"} \cup Prepare \cup Restart
ExecPlaces ==
  {"spin", "validate", "raise", "poll", "clearq", "reply", "zero", "group",
   "mark", "reset"} \cup Starts
IncPlaces == {"tick", "rejected", "raise", "poll", "clearq"}

Statuses ==
  [alarm : BOOLEAN, remote : BOOLEAN, power : BOOLEAN, waitingRos : BOOLEAN,
   operating : BOOLEAN]
Increments == [from : 0 .. MaxPoints, to : 0 .. MaxPoints, nr : 0 .. Incs]

Types ==
  /\ mode \in {"off", "trajectory", "queue"}
  /\ mustInit \in BOOLEAN /\ allInit \in BOOLEAN
  /\ hasData \in [Groups -> BOOLEAN]
  /\ slot0 \in [Groups -> 0 .. MaxPoints]
  /\ slot1 \in [Groups -> 0 .. MaxPoints]
  /\ fast \in SUBSET Groups /\ early \in SUBSET (1 .. MaxPoints)
  /\ queue \in [Groups -> Seq(Increments)]
  /\ bStopMotion \in BOOLEAN /\ bMpIncMoveError \in BOOLEAN
  /\ status \in Statuses /\ possible \in BOOLEAN
  /\ want \in {"off", "trajectory", "queue"}
  /\ k \in 0 .. NumGroups /\ stopped \in BOOLEAN
  /\ add \in [Groups -> {"top", "loop", "enqueue", "advance"}]
  /\ made \in [Groups -> 0 .. Incs]
  /\ job \in {"stopped", "other", "starting", "timer", "waiting", "held"}
  /\ out \in BOOLEAN /\ alarm \in BOOLEAN /\ power \in BOOLEAN
  /\ remote \in BOOLEAN /\ noticed \in BOOLEAN
  /\ pos \in [Groups -> [to : 0 .. MaxPoints, nr : 0 .. Incs]]
  /\ accepted \in 0 .. MaxPoints

PlacesOK ==
  /\ pc = [t \in Stoppers |-> pc[t]]
  /\ pc["exec"] \in ExecPlaces /\ pc["inc"] \in IncPlaces

TaskOK ==
  /\ pc["exec"] \in {"zero", "group", "mark"} => accepted < MaxPoints
  /\ \A g \in Groups :
       /\ Len(queue[g]) <= QSize
       /\ add[g] = "enqueue" => made[g] < Incs
       /\ add[g] = "top" => made[g] = 0

(* INIT_ROS runs to its WAIT only under a start; a loss that the executor  *)
(* has noticed has ended point queue mode.                                 *)
JobOK ==
  /\ job \in {"starting", "timer"} => pc["exec"] \in Restart
  /\ job \in {"starting", "timer", "waiting"} => ~alarm /\ power /\ remote
  /\ job = "other" => noticed /\ mode # "queue"
  /\ noticed /\ job \in {"held", "stopped"} => mode # "queue"
  /\ noticed /\ job = "held" => ~status.operating
  /\ power => status.power \/ pc["exec"] = "powered"

PossibleOK ==
  possible => /\ ~status.alarm /\ status.power /\ status.remote
              /\ status.operating /\ status.waitingRos
              /\ job = "waiting" => ~bMpIncMoveError

(* What a service that is under way relies on.                             *)
ServiceOK ==
  /\ pc["exec"] \in Starts =>
       want \in {"trajectory", "queue"} /\ mode \in {"off", want}
  /\ pc["exec"] \in {"zero", "group", "mark"} => mode = "queue"
  /\ pc["exec"] \in {"zero", "group"} => mustInit
  /\ pc["exec"] = "group" =>
       ~allInit /\ \A g \in Groups : slot1[g] = 0 /\ (g > k => ~hasData[g])
  /\ pc["exec"] = "mark" =>
       ~mustInit /\ \A g \in Groups : g > k => slot1[g] = 0
  /\ pc["exec"] \in {"poll", "clearq", "reply"} =>
       ~noticed /\ job \in {"held", "stopped"}

(* In point queue mode output 889 is on and seen to be, except during a    *)
(* start and the turn that ends it.                                        *)
WaitSeen ==
  /\ mode = "queue" /\ pc["exec"] \notin Restart \cup {"validate"} =>
       out /\ status.waitingRos
  /\ mode = "queue" /\ pc["exec"] = "validate" =>
       /\ possible => out
       /\ job = "waiting" /\ status.waitingRos => out
  /\ pc["exec"] = "check" /\ job \in {"waiting", "held"} =>
       (status.waitingRos => out)
  /\ \A g \in Groups : hasData[g] => status.waitingRos

(* A start that was to restore what motion needs has idle groups behind    *)
(* StartClear, or cannot succeed; and nobody is taken for busy once        *)
(* INIT_ROS has switched the output off and on again.                      *)
NeverStarts ==
  /\ pc["exec"] \in {"update", "check"}
  /\ \/ ~power /\ ~status.power
     \/ job \in {"other", "stopped"}

RestartOK ==
  /\ pc["exec"] \in {"job"} \cup Restart =>
       NeverStarts \/ \A g \in Groups : Idle(g)
  /\ mode = "queue" /\ pc["exec"] \in Prepare => job # "waiting"
  /\ mode = "queue" /\ pc["exec"] \in Restart =>
       /\ job = "waiting" => ~Unclean
       /\ job = "held" =>
            ~Unclean \/ (pc["exec"] = "check" => ~status.operating)

(* Until the first point of a session has been accepted only               *)
(* InitPointQueue makes a group busy.                                      *)
FirstPoint ==
  mustInit /\ mode = "queue" =>
    \A g \in Groups :
      add[g] = "top" /\ queue[g] = <<>> /\ (hasData[g] => pc["exec"] = "group")

(* In the other modes, work left over keeps output 889 off.                *)
OtherModes ==
  mode # "queue" =>
    /\ out => NoWork
    /\ ~out /\ job = "waiting" /\ status.waitingRos =>
         ~status.operating \/ NoWork

(* The robot can move in point queue mode.                                 *)
Live == mode = "queue" /\ job = "waiting" /\ pc["exec"] \notin Restart

(* Where the robot is when it has made all that is queued.                 *)
Last(g) ==
  IF queue[g] = <<>> THEN pos[g]
  ELSE [to |-> queue[g][Len(queue[g])].to, nr |-> queue[g][Len(queue[g])].nr]

Queued(g) ==
  /\ queue[g] # <<>> => Follows(pos[g], queue[g][1])
  /\ \A i \in 1 .. Len(queue[g]) - 1 :
       Follows([to |-> queue[g][i].to, nr |-> queue[g][i].nr], queue[g][i + 1])

(* The newest point the group knows, and where it is on the way there: no  *)
(* increment is made to a point not later than the one before.             *)
Newest(g) ==
  IF pc["exec"] \in {"group", "mark"} /\ g <= k THEN accepted + 1 ELSE accepted

Ahead(g) ==
  hasData[g] =>
    /\ IF slot1[g] = 0 THEN slot0[g] = Newest(g)
       ELSE slot1[g] = Newest(g) /\ slot1[g] = slot0[g] + 1
    /\ made[g] = 0 => Leads(Last(g), slot0[g])
    /\ made[g] # 0 => Last(g) = [to |-> slot1[g], nr |-> made[g]]
    /\ made[g] # 0 \/ add[g] = "enqueue" => slot1[g] \notin early
    /\ add[g] # "top" => slot1[g] # 0
    /\ add[g] = "advance" => made[g] = Incs \/ slot1[g] \in early

Good(g) ==
  /\ add[g] \in {"loop", "enqueue"} => hasData[g]
  /\ Queued(g) /\ Ahead(g)

(* ... and then it may, or ValidateMotionModeIsOk is about to end the mode *)
(* and there is nothing to do; no stop is still to clear; every group is   *)
(* in order.                                                               *)
LiveOK ==
  Live =>
    /\ possible \/ (pc["exec"] = "validate" /\ NoWork)
    /\ pc["inc"] \notin {"poll", "clearq"}
    /\ \A g \in Groups : Good(g)

IInv ==
  /\ Types /\ PlacesOK /\ TaskOK /\ JobOK /\ PossibleOK /\ ServiceOK
  /\ WaitSeen /\ RestartOK /\ FirstPoint /\ OtherModes /\ LiveOK
-----------------------------------------------------------------------------

(* The kinds of steps.                                                     *)
LEMMA StepCases ==
  ASSUME [Next]_vars
  PROVE  \/ \E m \in {"trajectory", "queue"} : StartRequest(m)
         \/ StopRequest \/ QueueRequest \/ ResetRequest \/ NoRequest
         \/ Start
         \/ \E t \in Stoppers : Stop(t)
         \/ StopReply \/ Validate
         \/ QueuePoint
         \/ ResetUpdate \/ IncRejected \/ StatusTask
         \/ IncCycle
         \/ \E g \in Groups : AddTo(g)
         \/ Job
         \/ Loss \/ OperatorRepairs
         \/ UNCHANGED vars
  BY DEF Next, Executor, IncMove, Stoppers

(* What a refresh of the status does.                                      *)
Refreshed ==
  /\ status' \in Statuses
  /\ status'.alarm <=> alarm
  /\ status'.remote <=> remote
  /\ status'.power <=> power
  /\ status'.waitingRos <=> out
  /\ status'.operating <=> job \in {"other", "starting", "timer", "waiting"}
  /\ possible' <=> /\ ~alarm /\ power /\ remote /\ ~bMpIncMoveError'
                   /\ job \in {"starting", "timer", "waiting"} /\ out
  /\ possible' \in BOOLEAN /\ bMpIncMoveError' \in BOOLEAN
  /\ bMpIncMoveError' => bMpIncMoveError
  /\ \/ /\ hasData' = [g \in Groups |-> FALSE]
        /\ queue' = [g \in Groups |-> <<>>]
        /\ alarm \/ ~out
     \/ /\ UNCHANGED <<hasData, queue>>
        /\ status.waitingRos => out

(* IoStatusUpdate is such a refresh.                                       *)
LEMMA RefreshFacts ==
  ASSUME Types, IoStatusUpdate
  PROVE  Refreshed
<1>1. /\ alarm \in BOOLEAN /\ remote \in BOOLEAN /\ power \in BOOLEAN
      /\ out \in BOOLEAN /\ bMpIncMoveError \in BOOLEAN
  BY DEF Types
<1>2. status' = [alarm |-> alarm, remote |-> remote, power |-> power,
                 waitingRos |-> out,
                 operating |->
                   job \in {"other", "starting", "timer", "waiting"}]
  BY DEF IoStatusUpdate, RealStatus
<1>3. /\ status' \in Statuses
      /\ status'.alarm = alarm /\ status'.remote = remote
      /\ status'.power = power /\ status'.waitingRos = out
      /\ status'.operating =
           (job \in {"other", "starting", "timer", "waiting"})
  BY <1>1, <1>2 DEF Statuses
<1>4. /\ bMpIncMoveError' =
           (bMpIncMoveError /\ ~(status.alarm /\ ~status'.alarm))
      /\ possible' = ReadyIn(status', bMpIncMoveError')
      /\ IF MustClear(status, status') THEN ClearQ_All
         ELSE UNCHANGED <<hasData, queue>>
  BY DEF IoStatusUpdate
<1>5. bMpIncMoveError' \in BOOLEAN /\ (bMpIncMoveError' => bMpIncMoveError)
  BY <1>1, <1>4
<1>6. /\ possible' \in BOOLEAN
      /\ possible' <=> /\ ~alarm /\ power /\ remote /\ ~bMpIncMoveError'
                       /\ job \in {"starting", "timer", "waiting"} /\ out
  BY <1>1, <1>3, <1>4, <1>5 DEF ReadyIn
<1>7. \/ /\ hasData' = [g \in Groups |-> FALSE]
         /\ queue' = [g \in Groups |-> <<>>]
         /\ alarm \/ ~out
      \/ /\ UNCHANGED <<hasData, queue>>
         /\ status.waitingRos => out
  BY <1>1, <1>3, <1>4 DEF MustClear, ClearQ_All
<1> QED
  BY <1>3, <1>5, <1>6, <1>7 DEF Refreshed

(* ... and of the queues.                                                  *)
LEMMA RefreshedQueues ==
  ASSUME Types, Refreshed
  PROVE  /\ hasData' \in [Groups -> BOOLEAN]
         /\ queue' \in [Groups -> Seq(Increments)]
<1>1. CASE UNCHANGED <<hasData, queue>>
  BY <1>1 DEF Types
<1>2. CASE /\ hasData' = [g \in Groups |-> FALSE]
           /\ queue' = [g \in Groups |-> <<>>]
  <2>1. hasData' \in [Groups -> BOOLEAN]
    BY <1>2
  <2>2. queue' \in [Groups -> Seq(Increments)]
    BY <1>2
  <2> QED
    BY <2>1, <2>2
<1> QED
  BY <1>1, <1>2 DEF Refreshed

(* Every step keeps the types.                                             *)
LEMMA TypesKept ==
  ASSUME Types, TaskOK, [Next]_vars
  PROVE  Types'
<1> USE DEF Types
<1>1. CASE \E m \in {"trajectory", "queue"} : StartRequest(m)
  BY <1>1 DEF StartRequest
<1>2. CASE StopRequest \/ NoRequest
  <2>1. UNCHANGED <<modes, points, queue, flags, want, k, stopped, tasks, robot,
                    counts>>
    BY <1>2 DEF StopRequest, NoRequest
  <2> QED
    BY <2>1
<1>3. CASE QueueRequest
  <2>1. k' \in 0 .. NumGroups
    BY <1>3, SizeAssumption DEF QueueRequest
  <2> QED
    BY <1>3, <2>1 DEF QueueRequest
<1>4. CASE ResetRequest
  <2>1. alarm' \in BOOLEAN /\ bMpIncMoveError' \in BOOLEAN
    BY <1>4 DEF ResetRequest
  <2> QED
    BY <1>4, <2>1 DEF ResetRequest
<1>5. CASE ResetUpdate \/ IncRejected \/ StatusTask
  <2>1. Refreshed
    BY <1>5, RefreshFacts DEF ResetUpdate, IncRejected, StatusTask
  <2>2. /\ hasData' \in [Groups -> BOOLEAN]
        /\ queue' \in [Groups -> Seq(Increments)]
    BY <2>1, RefreshedQueues
  <2>3. /\ status' \in Statuses /\ possible' \in BOOLEAN
        /\ bMpIncMoveError' \in BOOLEAN
    BY <2>1 DEF Refreshed
  <2>4. UNCHANGED <<modes, slots, bStopMotion, want, k, stopped, tasks, robot,
                    counts>>
    BY <1>5 DEF ResetUpdate, IncRejected, StatusTask
  <2> QED
    BY <2>2, <2>3, <2>4
<1>6. CASE StartUpdate \/ StartPowered \/ StartAwait \/ StartEnd
  <2>1. Refreshed
    BY <1>6, RefreshFacts DEF StartUpdate, StartPowered, StartAwait, StartEnd
  <2>2. /\ hasData' \in [Groups -> BOOLEAN]
        /\ queue' \in [Groups -> Seq(Increments)]
    BY <2>1, RefreshedQueues
  <2>3. /\ status' \in Statuses /\ possible' \in BOOLEAN
        /\ bMpIncMoveError' \in BOOLEAN
    BY <2>1 DEF Refreshed
  <2>4. UNCHANGED <<modes, slots, bStopMotion, want, k, stopped, tasks, robot,
                    counts>>
    BY <1>6 DEF StartUpdate, StartPowered, StartAwait, StartEnd
  <2> QED
    BY <2>2, <2>3, <2>4
<1>7. CASE StartTests \/ Loss \/ OperatorRepairs
  <2>1. job' \in {"stopped", "other", "starting", "timer", "waiting", "held"}
    BY <1>7 DEF StartTests, Loss, OperatorRepairs, JobStops
  <2>2. noticed' \in BOOLEAN
    BY <1>7 DEF StartTests, Loss, OperatorRepairs, JobStops
  <2>3. alarm' \in BOOLEAN /\ power' \in BOOLEAN /\ remote' \in BOOLEAN
    BY <1>7 DEF StartTests, Loss, OperatorRepairs
  <2>4. UNCHANGED <<modes, points, queue, flags, want, k, stopped, tasks, out,
                    pos, accepted>>
    BY <1>7 DEF StartTests, Loss, OperatorRepairs
  <2> QED
    BY <2>1, <2>2, <2>3, <2>4
<1>8. CASE StartPower
  <2>1. power' \in BOOLEAN /\ alarm' \in BOOLEAN /\ noticed' \in BOOLEAN
    BY <1>8 DEF StartPower, JobStops
  <2>2. job' \in {"stopped", "other", "starting", "timer", "waiting", "held"}
    BY <1>8 DEF StartPower, JobStops
  <2> QED
    BY <1>8, <2>1, <2>2 DEF StartPower
<1>9. CASE StartClear
  <2>1. hasData' \in [Groups -> BOOLEAN]
    BY <1>9 DEF StartClear, ClearQ_All
  <2>2. queue' \in [Groups -> Seq(Increments)]
    <3>1. CASE queue' = [g \in Groups |-> <<>>]
      BY <3>1
    <3>2. CASE queue' = queue
      BY <3>2
    <3> QED
      BY <1>9, <3>1, <3>2 DEF StartClear, ClearQ_All
  <2>3. UNCHANGED <<modes, slots, flags, want, k, stopped, tasks, robot,
                    counts>>
    BY <1>9 DEF StartClear
  <2> QED
    BY <2>1, <2>2, <2>3
<1>10. CASE StartJob
  BY <1>10 DEF StartJob
<1>11. CASE StartCheck
  <2>1. mode' \in {"off", "trajectory", "queue"} /\ mustInit' \in BOOLEAN
    BY <1>11 DEF StartCheck
  <2> QED
    BY <1>11, <2>1 DEF StartCheck
<1>12. CASE \E t \in Stoppers : Stop(t)
  <2>1. PICK t \in Stoppers : Stop(t)
    BY <1>12
  <2>2. CASE StopRaise(t)
    <3>1. bMpIncMoveError' \in BOOLEAN /\ bStopMotion' \in BOOLEAN
      BY <2>2 DEF StopRaise
    <3>2. job' \in {"stopped", "waiting", "held"} /\ noticed' \in BOOLEAN
      BY <2>2 DEF StopRaise, JobStops
    <3> QED
      BY <2>2, <3>1, <3>2 DEF StopRaise
  <2>3. CASE StopPoll(t)
    BY <2>3 DEF StopPoll
  <2>4. CASE StopTimesOut(t)
    <3>1. stopped' \in BOOLEAN
      BY <2>4 DEF StopTimesOut
    <3> QED
      BY <2>4, <3>1 DEF StopTimesOut
  <2>5. CASE StopClear(t)
    <3>1. /\ hasData' \in [Groups -> BOOLEAN]
          /\ queue' \in [Groups -> Seq(Increments)]
      BY <2>5 DEF StopClear, ClearQ_All
    <3>2. bStopMotion' \in BOOLEAN
      BY <2>5 DEF StopClear
    <3> QED
      BY <2>5, <3>1, <3>2 DEF StopClear
  <2> QED
    BY <2>1, <2>2, <2>3, <2>4, <2>5 DEF Stop
<1>13. CASE StopReply
  <2>1. mode' \in {"off", "trajectory", "queue"}
    BY <1>13 DEF StopReply, Ros_MotionControl_StopTrajMode
  <2>2. allInit' \in BOOLEAN /\ out' \in BOOLEAN
    BY <1>13 DEF StopReply, Ros_MotionControl_StopTrajMode
  <2> QED
    BY <1>13, <2>1, <2>2 DEF StopReply
<1>14. CASE Validate
  <2>1. mode' \in {"off", "trajectory", "queue"}
    BY <1>14 DEF Validate, Ros_MotionControl_StopTrajMode
  <2>2. allInit' \in BOOLEAN /\ out' \in BOOLEAN
    BY <1>14 DEF Validate, Ros_MotionControl_StopTrajMode
  <2>3. noticed' \in BOOLEAN /\ stopped' \in BOOLEAN
    BY <1>14 DEF Validate
  <2>4. k' \in 0 .. NumGroups
    BY <1>14, SizeAssumption DEF Validate
  <2> QED
    BY <1>14, <2>1, <2>2, <2>3, <2>4 DEF Validate
<1>15. CASE InitZero \/ InitDone \/ InitFails
  <2>1. 0 \in 0 .. MaxPoints /\ MaxPoints \in Nat
    BY SizeAssumption
  <2>2. allInit' \in BOOLEAN /\ mustInit' \in BOOLEAN
    BY <1>15 DEF InitZero, InitDone, InitFails
  <2>3. hasData' \in [Groups -> BOOLEAN]
    BY <1>15 DEF InitZero, InitDone, InitFails
  <2>4. /\ slot0' \in [Groups -> 0 .. MaxPoints]
        /\ slot1' \in [Groups -> 0 .. MaxPoints]
    BY <1>15, <2>1 DEF InitZero, InitDone, InitFails
  <2>5. accepted' \in 0 .. MaxPoints
    BY <1>15, <2>1 DEF InitZero, InitDone, InitFails, TaskOK
  <2>6. fast' \in SUBSET Groups
    BY <1>15 DEF InitZero, InitDone, InitFails
  <2>7. UNCHANGED <<mode, early, queue, flags, want, k, stopped, tasks, robot>>
    BY <1>15 DEF InitZero, InitDone, InitFails
  <2> QED
    BY <2>2, <2>3, <2>4, <2>5, <2>6, <2>7
<1>16. CASE InitGroup
  <2>1. /\ accepted + 1 \in 0 .. MaxPoints /\ k + 1 \in 0 .. NumGroups
        /\ Incs \in 0 .. Incs
    BY <1>16, SizeAssumption DEF InitGroup, TaskOK, Groups
  <2>2. /\ slot0' \in [Groups -> 0 .. MaxPoints]
        /\ hasData' \in [Groups -> BOOLEAN]
        /\ k' \in 0 .. NumGroups
    BY <1>16, <2>1 DEF InitGroup
  <2>3. pos' \in [Groups -> [to : 0 .. MaxPoints, nr : 0 .. Incs]]
    BY <1>16, <2>1 DEF InitGroup
  <2> QED
    BY <1>16, <2>2, <2>3 DEF InitGroup
<1>17. CASE QueueRefused \/ QueueMark \/ QueueMarked
  <2>1. pc["exec"] = "mark" => accepted + 1 \in 0 .. MaxPoints
    BY SizeAssumption DEF TaskOK
  <2>2. slot1' \in [Groups -> 0 .. MaxPoints]
    BY <1>17, <2>1 DEF QueueRefused, QueueMark, QueueMarked
  <2>3. k' \in 0 .. NumGroups /\ accepted' \in 0 .. MaxPoints
    BY <1>17, <2>1, SizeAssumption
       DEF QueueRefused, QueueMark, QueueMarked, Groups
  <2>4. fast' \in SUBSET Groups
    BY <1>17 DEF QueueRefused, QueueMark, QueueMarked, PointIsOfKind
  <2>5. pc["exec"] = "mark" => accepted + 1 \in 1 .. MaxPoints
    BY SizeAssumption DEF TaskOK
  <2>6. early' \in SUBSET (1 .. MaxPoints)
    <3>1. \/ early' = early
          \/ pc["exec"] = "mark" /\ early' = early \cup {accepted + 1}
      BY <1>17 DEF QueueRefused, QueueMark, QueueMarked, PointIsOfKind
    <3> QED
      BY <2>5, <3>1
  <2> QED
    BY <1>17, <2>2, <2>3, <2>4, <2>6
       DEF QueueRefused, QueueMark, QueueMarked
<1>18. CASE IncCycle
  <2>1. queue' \in [Groups -> Seq(Increments)]
    BY <1>18 DEF IncCycle
  <2>2. pos' \in [Groups -> [to : 0 .. MaxPoints, nr : 0 .. Incs]]
    <3>1. ASSUME NEW g \in Groups, queue[g] # <<>>
          PROVE  [to |-> Head(queue[g]).to, nr |-> Head(queue[g]).nr]
                   \in [to : 0 .. MaxPoints, nr : 0 .. Incs]
      <4>1. queue[g] \in Seq(Increments)
        OBVIOUS
      <4>2. Head(queue[g]) \in Increments
        BY <3>1, <4>1
      <4> QED
        BY <4>2 DEF Increments
    <3>2. CASE pos' = pos
      BY <3>2
    <3>3. CASE pos' = [g \in Groups |-> IF queue[g] = <<>> THEN pos[g] ELSE
                    [to |-> Head(queue[g]).to, nr |-> Head(queue[g]).nr]]
      BY <3>1, <3>3
    <3> QED
      BY <1>18, <3>2, <3>3 DEF IncCycle
  <2> QED
    BY <1>18, <2>1, <2>2 DEF IncCycle
<1>19. CASE \E g \in Groups : AddTo(g)
  <2>1. PICK g \in Groups : AddTo(g)
    BY <1>19
  <2>2. 0 \in 0 .. MaxPoints /\ 0 \in 0 .. Incs
    BY SizeAssumption
  <2>3. CASE AddTop(g)
    <3>1. /\ hasData' \in [Groups -> BOOLEAN]
          /\ slot0' \in [Groups -> 0 .. MaxPoints]
          /\ slot1' \in [Groups -> 0 .. MaxPoints]
          /\ UNCHANGED <<fast, early>>
      BY <2>2, <2>3 DEF AddTop, ZeroPoints
    <3>2. add' \in [Groups -> {"top", "loop", "enqueue", "advance"}]
      BY <2>3 DEF AddTop
    <3> QED
      BY <2>3, <3>1, <3>2 DEF AddTop
  <2>4. CASE AddLoop(g)
    BY <2>4 DEF AddLoop
  <2>5. CASE AddEnqueue(g)
    <3>1. made[g] + 1 \in 0 .. Incs
      BY <2>5, SizeAssumption DEF AddEnqueue, TaskOK
    <3>2. [from |-> slot0[g], to |-> slot1[g], nr |-> made[g] + 1]
            \in Increments
      BY <3>1 DEF Increments
    <3>3. queue' \in [Groups -> Seq(Increments)]
      BY <2>5, <3>2 DEF AddEnqueue
    <3>4. made' \in [Groups -> 0 .. Incs]
      BY <2>5, <3>1 DEF AddEnqueue
    <3> QED
      BY <2>5, <3>3, <3>4 DEF AddEnqueue
  <2>6. CASE AddGivesUp(g)
    <3>1. /\ hasData' \in [Groups -> BOOLEAN]
          /\ slot0' \in [Groups -> 0 .. MaxPoints]
          /\ slot1' \in [Groups -> 0 .. MaxPoints]
      BY <2>2, <2>6 DEF AddGivesUp, ZeroPoints
    <3>2. add' \in [Groups -> {"top", "loop", "enqueue", "advance"}]
      BY <2>6 DEF AddGivesUp
    <3>3. UNCHANGED <<modes, fast, early, queue, flags, places, made, robot,
                      counts>>
      BY <2>6 DEF AddGivesUp, ZeroPoints
    <3> QED
      BY <3>1, <3>2, <3>3
  <2>7. CASE AddAdvance(g)
    <3>1. /\ slot0' \in [Groups -> 0 .. MaxPoints]
          /\ slot1' \in [Groups -> 0 .. MaxPoints]
      BY <2>2, <2>7 DEF AddAdvance, MovePoint
    <3>2. made' \in [Groups -> 0 .. Incs]
      BY <2>2, <2>7 DEF AddAdvance
    <3>3. add' \in [Groups -> {"top", "loop", "enqueue", "advance"}]
      BY <2>7 DEF AddAdvance
    <3>4. /\ UNCHANGED <<mode, mustInit, allInit, hasData, fast, early, queue>>
          /\ UNCHANGED <<bStopMotion, bMpIncMoveError, status, possible>>
          /\ UNCHANGED <<want, k, stopped, accepted>>
          /\ UNCHANGED <<job, out, alarm, power, remote, noticed, pos>>
      BY <2>7 DEF AddAdvance
    <3> QED
      BY <3>1, <3>2, <3>3, <3>4
  <2> QED
    BY <2>1, <2>3, <2>4, <2>5, <2>6, <2>7, Zenon DEF AddTo
<1>20. CASE Job
  <2>1. out' \in BOOLEAN
    BY <1>20 DEF Job, JobOff, JobOn
  <2>2. job' \in {"timer", "waiting"}
    BY <1>20 DEF Job, JobOff, JobOn
  <2>3. /\ UNCHANGED <<modes, points, queue, flags, places, tasks, alarm>>
        /\ UNCHANGED <<power, remote, noticed, pos, counts>>
    BY <1>20 DEF Job, JobOff, JobOn
  <2> QED
    BY <2>1, <2>2, <2>3
<1>21. CASE UNCHANGED vars
  BY <1>21 DEF vars
<1> QED
  BY <1>1, <1>2, <1>3, <1>4, <1>5, <1>6, <1>7, <1>8, <1>9, <1>10, <1>11,
     <1>12, <1>13, <1>14, <1>15, <1>16, <1>17, <1>18, <1>19, <1>20, <1>21,
     StepCases DEF Start, QueuePoint

(* Every step keeps the places.                                            *)
LEMMA PlacesKept ==
  ASSUME PlacesOK, [Next]_vars
  PROVE  PlacesOK'
<1> USE DEF PlacesOK, ExecPlaces, IncPlaces, Starts, Prepare, Restart, Stoppers
<1>1. CASE \E m \in {"trajectory", "queue"} : StartRequest(m)
  BY <1>1 DEF StartRequest
<1>2. CASE StopRequest \/ QueueRequest \/ ResetRequest \/ NoRequest
  BY <1>2 DEF StopRequest, QueueRequest, ResetRequest, NoRequest
<1>3. CASE Start
  BY <1>3 DEF Start, StartUpdate, StartTests, StartPower, StartPowered,
              StartClear, StartJob, StartAwait, StartEnd, StartCheck
<1>4. CASE \E t \in Stoppers : Stop(t)
  BY <1>4 DEF Stop, StopRaise, StopPoll, StopTimesOut, StopClear
<1>5. CASE StopReply \/ Validate
  BY <1>5 DEF StopReply, Validate
<1>6. CASE QueuePoint
  BY <1>6 DEF QueuePoint, InitZero, InitGroup, InitFails, InitDone,
              QueueRefused, QueueMark, QueueMarked
<1>7. CASE ResetUpdate \/ IncRejected \/ StatusTask
  BY <1>7 DEF ResetUpdate, IncRejected, StatusTask
<1>8. CASE IncCycle
  BY <1>8 DEF IncCycle
<1>9. CASE \E g \in Groups : AddTo(g)
  BY <1>9 DEF AddTo, AddTop, AddLoop, AddEnqueue, AddGivesUp, AddAdvance
<1>10. CASE Job
  BY <1>10 DEF Job, JobOff, JobOn
<1>11. CASE Loss \/ OperatorRepairs
  BY <1>11 DEF Loss, OperatorRepairs
<1>12. CASE UNCHANGED vars
  BY <1>12 DEF vars
<1> QED
  BY <1>1, <1>2, <1>3, <1>4, <1>5, <1>6, <1>7, <1>8, <1>9, <1>10, <1>11,
     <1>12, StepCases

(* What changes the queues.                                                *)
LEMMA QueueSteps ==
  ASSUME Types, [Next]_vars
  PROVE  \/ queue' = queue
         \/ /\ queue' = [g \in Groups |-> <<>>]
            /\ hasData' = [g \in Groups |-> FALSE]
         \/ IncCycle
         \/ \E g \in Groups : AddEnqueue(g)
<1>1. CASE \E m \in {"trajectory", "queue"} : StartRequest(m)
  BY <1>1 DEF StartRequest
<1>2. CASE StopRequest \/ QueueRequest \/ ResetRequest \/ NoRequest
  BY <1>2 DEF StopRequest, QueueRequest, ResetRequest, NoRequest
<1>3. CASE StartUpdate \/ StartPowered \/ StartAwait \/ StartEnd
  BY <1>3, RefreshFacts
     DEF StartUpdate, StartPowered, StartAwait, StartEnd, Refreshed
<1>4. CASE StartTests \/ StartPower \/ StartClear \/ StartJob \/ StartCheck
  BY <1>4 DEF StartTests, StartPower, StartClear, StartJob, StartCheck,
              ClearQ_All
<1>5. CASE \E t \in Stoppers : Stop(t)
  BY <1>5 DEF Stop, StopRaise, StopPoll, StopTimesOut, StopClear, ClearQ_All
<1>6. CASE StopReply \/ Validate
  BY <1>6 DEF StopReply, Validate
<1>7. CASE QueuePoint
  BY <1>7 DEF QueuePoint, InitZero, InitGroup, InitFails, InitDone,
              QueueRefused, QueueMark, QueueMarked
<1>8. CASE ResetUpdate \/ IncRejected \/ StatusTask
  BY <1>8, RefreshFacts DEF ResetUpdate, IncRejected, StatusTask, Refreshed
<1>9. CASE \E g \in Groups : AddTo(g)
  BY <1>9 DEF AddTo, AddTop, AddLoop, AddGivesUp, AddAdvance
<1>10. CASE Job
  BY <1>10 DEF Job, JobOff, JobOn
<1>11. CASE Loss \/ OperatorRepairs
  BY <1>11 DEF Loss, OperatorRepairs
<1>12. CASE UNCHANGED vars
  BY <1>12 DEF vars
<1> QED
  BY <1>1, <1>2, <1>3, <1>4, <1>5, <1>6, <1>7, <1>8, <1>9, <1>10, <1>11,
     <1>12, StepCases DEF Start

(* What changes the places of the tasks.                                   *)
LEMMA TaskSteps ==
  ASSUME [Next]_vars
  PROVE  UNCHANGED tasks \/ \E g \in Groups : AddTo(g)
<1>1. CASE \E m \in {"trajectory", "queue"} : StartRequest(m)
  BY <1>1 DEF StartRequest
<1>2. CASE StopRequest \/ QueueRequest \/ ResetRequest \/ NoRequest
  BY <1>2 DEF StopRequest, QueueRequest, ResetRequest, NoRequest
<1>3. CASE Start
  BY <1>3 DEF Start, StartUpdate, StartTests, StartPower, StartPowered,
              StartClear, StartJob, StartAwait, StartEnd, StartCheck
<1>4. CASE \E t \in Stoppers : Stop(t)
  BY <1>4 DEF Stop, StopRaise, StopPoll, StopTimesOut, StopClear
<1>5. CASE StopReply \/ Validate
  BY <1>5 DEF StopReply, Validate
<1>6. CASE QueuePoint
  BY <1>6 DEF QueuePoint, InitZero, InitGroup, InitFails, InitDone,
              QueueRefused, QueueMark, QueueMarked
<1>7. CASE ResetUpdate \/ IncRejected \/ StatusTask
  BY <1>7 DEF ResetUpdate, IncRejected, StatusTask
<1>8. CASE IncCycle
  BY <1>8 DEF IncCycle
<1>10. CASE Job
  BY <1>10 DEF Job, JobOff, JobOn
<1>11. CASE Loss \/ OperatorRepairs
  BY <1>11 DEF Loss, OperatorRepairs
<1>12. CASE UNCHANGED vars
  BY <1>12 DEF vars
<1> QED
  BY <1>1, <1>2, <1>3, <1>4, <1>5, <1>6, <1>7, <1>8, <1>10, <1>11,
     <1>12, StepCases

(* What changes hasDataToProcess: only InitPointQueue sets it.             *)
LEMMA DataSteps ==
  ASSUME Types, [Next]_vars
  PROVE  (\A g \in Groups : hasData'[g] => hasData[g]) \/ InitGroup
<1>1. CASE \E m \in {"trajectory", "queue"} : StartRequest(m)
  BY <1>1 DEF StartRequest
<1>2. CASE StopRequest \/ QueueRequest \/ ResetRequest \/ NoRequest
  BY <1>2 DEF StopRequest, QueueRequest, ResetRequest, NoRequest
<1>3. CASE StartUpdate \/ StartPowered \/ StartAwait \/ StartEnd
  BY <1>3, RefreshFacts
     DEF StartUpdate, StartPowered, StartAwait, StartEnd, Refreshed
<1>4. CASE StartTests \/ StartPower \/ StartClear \/ StartJob \/ StartCheck
  BY <1>4 DEF StartTests, StartPower, StartClear, StartJob, StartCheck,
              ClearQ_All
<1>5. CASE \E t \in Stoppers : Stop(t)
  BY <1>5 DEF Stop, StopRaise, StopPoll, StopTimesOut, StopClear, ClearQ_All
<1>6. CASE StopReply \/ Validate
  BY <1>6 DEF StopReply, Validate
<1>7. CASE QueuePoint
  BY <1>7 DEF QueuePoint, InitZero, InitFails, InitDone,
              QueueRefused, QueueMark, QueueMarked
<1>8. CASE ResetUpdate \/ IncRejected \/ StatusTask
  BY <1>8, RefreshFacts DEF ResetUpdate, IncRejected, StatusTask, Refreshed
<1>9. CASE \E g \in Groups : AddTo(g)
  BY <1>9 DEF AddTo, AddTop, AddLoop, AddEnqueue, AddGivesUp, AddAdvance,
              ZeroPoints, Types
<1>10. CASE Job
  BY <1>10 DEF Job, JobOff, JobOn
<1>11. CASE Loss \/ OperatorRepairs
  BY <1>11 DEF Loss, OperatorRepairs
<1>12. CASE UNCHANGED vars
  BY <1>12 DEF vars
<1>13. CASE IncCycle
  BY <1>13 DEF IncCycle
<1> QED
  BY <1>1, <1>2, <1>3, <1>4, <1>5, <1>6, <1>7, <1>8, <1>9, <1>10, <1>11,
     <1>12, <1>13, StepCases DEF Start

(* Every step keeps the bounds of the tasks.                               *)
LEMMA TasksKept ==
  ASSUME Types, PlacesOK, TaskOK, [Next]_vars
  PROVE  TaskOK'
<1>1. Types' /\ PlacesOK'
  BY TypesKept, PlacesKept
<1>2. pc'["exec"] \in {"zero", "group", "mark"} => accepted' < MaxPoints
  <2> USE DEF Stoppers, PlacesOK, TaskOK
  <2>1. CASE \E m \in {"trajectory", "queue"} : StartRequest(m)
    BY <2>1 DEF StartRequest
  <2>2. CASE StopRequest \/ QueueRequest \/ ResetRequest \/ NoRequest
    BY <2>2 DEF StopRequest, QueueRequest, ResetRequest, NoRequest
  <2>3. CASE Start
    BY <2>3 DEF Start, StartUpdate, StartTests, StartPower, StartPowered,
                StartClear, StartJob, StartAwait, StartEnd, StartCheck
  <2>4. CASE \E t \in Stoppers : Stop(t)
    BY <2>4 DEF Stop, StopRaise, StopPoll, StopTimesOut, StopClear
  <2>5. CASE StopReply \/ Validate
    BY <2>5 DEF StopReply, Validate
  <2>6. CASE QueuePoint
    BY <2>6 DEF QueuePoint, InitZero, InitGroup, InitFails, InitDone,
                QueueRefused, QueueMark, QueueMarked
  <2>7. CASE ResetUpdate \/ IncRejected \/ StatusTask
    BY <2>7 DEF ResetUpdate, IncRejected, StatusTask
  <2>8. CASE IncCycle
    BY <2>8 DEF IncCycle
  <2>9. CASE \E g \in Groups : AddTo(g)
    BY <2>9 DEF AddTo, AddTop, AddLoop, AddEnqueue, AddGivesUp, AddAdvance
  <2>10. CASE Job
    BY <2>10 DEF Job, JobOff, JobOn
  <2>11. CASE Loss \/ OperatorRepairs
    BY <2>11 DEF Loss, OperatorRepairs
  <2>12. CASE UNCHANGED vars
    BY <2>12 DEF vars
  <2> QED
    BY <2>1, <2>2, <2>3, <2>4, <2>5, <2>6, <2>7, <2>8, <2>9, <2>10, <2>11,
       <2>12, StepCases
<1>3. ASSUME NEW g \in Groups PROVE Len(queue'[g]) <= QSize
  <2>1. queue[g] \in Seq(Increments) /\ Len(queue[g]) <= QSize
    BY DEF Types, TaskOK
  <2>2. CASE queue' = queue
    BY <2>1, <2>2
  <2>3. CASE queue' = [h \in Groups |-> <<>>]
    BY <2>3, SizeAssumption
  <2>4. CASE IncCycle
    <3>1. queue'[g] = IF queue[g] = <<>> THEN <<>> ELSE Tail(queue[g])
      BY <2>4 DEF IncCycle
    <3>2. CASE queue[g] = <<>>
      BY <3>1, <3>2, SizeAssumption
    <3>3. CASE queue[g] # <<>>
      <4>1. Len(queue'[g]) = Len(queue[g]) - 1
        BY <2>1, <3>1, <3>3
      <4> QED
        BY <2>1, <4>1, SizeAssumption
    <3> QED
      BY <3>2, <3>3
  <2>5. ASSUME NEW h \in Groups, AddEnqueue(h) PROVE Len(queue'[g]) <= QSize
    <3>1. CASE h = g
      <4>1. /\ Len(queue[g]) < QSize
            /\ queue'[g] = Append(queue[g],
                 [from |-> slot0[g], to |-> slot1[g], nr |-> made[g] + 1])
        BY <2>5, <3>1 DEF AddEnqueue, Room, Types
      <4>2. Len(queue'[g]) = Len(queue[g]) + 1
        BY <2>1, <4>1
      <4> QED
        BY <2>1, <4>1, <4>2, SizeAssumption
    <3>2. CASE h # g
      <4>1. queue'[g] = queue[g]
        BY <2>5, <3>2 DEF AddEnqueue, Types
      <4> QED
        BY <2>1, <4>1
    <3> QED
      BY <3>1, <3>2
  <2> QED
    BY <2>2, <2>3, <2>4, <2>5, QueueSteps
<1>4. ASSUME NEW g \in Groups
      PROVE  /\ add'[g] = "enqueue" => made'[g] < Incs
             /\ add'[g] = "top" => made'[g] = 0
  <2>1. /\ add[g] = "enqueue" => made[g] < Incs
        /\ add[g] = "top" => made[g] = 0
    BY DEF TaskOK
  <2>2. CASE UNCHANGED tasks
    BY <2>1, <2>2
  <2>3. ASSUME NEW h \in Groups, AddTo(h)
        PROVE  /\ add'[g] = "enqueue" => made'[g] < Incs
               /\ add'[g] = "top" => made'[g] = 0
    <3>1. CASE h # g
      BY <2>1, <2>3, <3>1
         DEF AddTo, AddTop, AddLoop, AddEnqueue, AddGivesUp, AddAdvance, Types
    <3>2. CASE h = g
      BY <2>1, <2>3, <3>2
         DEF AddTo, AddTop, AddLoop, AddEnqueue, AddGivesUp, AddAdvance, Types
    <3> QED
      BY <3>1, <3>2
  <2> QED
    BY <2>2, <2>3, TaskSteps
<1> QED
  BY <1>2, <1>3, <1>4 DEF TaskOK

(* Every step keeps what is known of the job.                              *)
LEMMA JobKept ==
  ASSUME Types, PlacesOK, JobOK, PossibleOK, ServiceOK, [Next]_vars
  PROVE  JobOK'
<1> USE DEF Types, PlacesOK, Stoppers
<1>1. CASE \E m \in {"trajectory", "queue"} : StartRequest(m)
  BY <1>1 DEF JobOK, StartRequest, Restart
<1>2. CASE StopRequest \/ QueueRequest \/ NoRequest
  BY <1>2 DEF JobOK, StopRequest, QueueRequest, NoRequest, Restart
<1>3. CASE ResetRequest
  BY <1>3 DEF JobOK, ResetRequest, Restart
<1>4. CASE StartUpdate \/ StartPowered \/ StartAwait \/ StartEnd
  <2>1. Refreshed
    BY <1>4, RefreshFacts DEF StartUpdate, StartPowered, StartAwait, StartEnd
  <2> QED
  BY <1>4, <2>1
     DEF JobOK, StartUpdate, StartPowered, StartAwait, StartEnd, Refreshed,
         Restart
<1>5. CASE StartTests
  BY <1>5 DEF JobOK, StartTests, JobStops, Restart
<1>6. CASE StartPower \/ StartClear \/ StartJob
  BY <1>6 DEF JobOK, JobStops, StartPower, StartClear, StartJob, Restart
<1>7. CASE StartCheck
  BY <1>7 DEF JobOK, StartCheck, Slept200, Restart, MotionReady, ReadyIn
<1>8. CASE \E t \in Stoppers : Stop(t)
  BY <1>8 DEF JobOK, Stop, StopRaise, StopPoll, StopTimesOut, StopClear,
              JobStops, Restart
<1>9. CASE StopReply
  BY <1>9 DEF JobOK, StopReply, Restart, Ros_MotionControl_StopTrajMode
<1>10. CASE Validate
  BY <1>10 DEF JobOK, Validate, Restart, Ros_MotionControl_StopTrajMode,
               ModeMustEnd, RealStatus, PossibleOK
<1>11. CASE QueuePoint
  BY <1>11 DEF JobOK, QueuePoint, InitZero, InitGroup, InitFails, InitDone,
              QueueRefused, QueueMark, QueueMarked, Restart
<1>12. CASE ResetUpdate \/ IncRejected \/ StatusTask
  <2>1. Refreshed
    BY <1>12, RefreshFacts DEF ResetUpdate, IncRejected, StatusTask
  <2> QED
    <3>1. CASE ResetUpdate
      BY <2>1, <3>1 DEF JobOK, ResetUpdate, Refreshed, Restart
    <3>2. CASE IncRejected
      BY <2>1, <3>2 DEF JobOK, IncRejected, Refreshed
    <3>3. CASE StatusTask
      BY <2>1, <3>3 DEF JobOK, StatusTask, Refreshed
    <3> QED BY <1>12, <3>1, <3>2, <3>3
<1>13. CASE \E g \in Groups : AddTo(g)
  BY <1>13 DEF JobOK, AddTo, AddTop, AddLoop, AddEnqueue, AddGivesUp,
               AddAdvance
<1>14. CASE Job
  BY <1>14 DEF JobOK, Job, JobOff, JobOn
<1>15. CASE Loss
  BY <1>15 DEF JobOK, Loss, JobStops
<1>16. CASE OperatorRepairs
  BY <1>16 DEF JobOK, OperatorRepairs
<1>17. CASE UNCHANGED vars
  BY <1>17 DEF JobOK, vars
<1>18. CASE IncCycle
  BY <1>18 DEF JobOK, IncCycle
<1> QED
  BY <1>1, <1>2, <1>3, <1>4, <1>5, <1>6, <1>7, <1>8, <1>9, <1>10, <1>11, <1>12,
     <1>13, <1>14, <1>15, <1>16, <1>17, <1>18, StepCases DEF Start

(* Every step keeps what motion_possible says.                             *)
LEMMA PossibleKept ==
  ASSUME Types, PlacesOK, JobOK, PossibleOK, ServiceOK, [Next]_vars
  PROVE  PossibleOK'
<1> USE DEF Types, PlacesOK, Stoppers
<1>1. CASE \E m \in {"trajectory", "queue"} : StartRequest(m)
  BY <1>1 DEF PossibleOK, StartRequest
<1>2. CASE StopRequest \/ QueueRequest \/ NoRequest
  BY <1>2 DEF PossibleOK, StopRequest, QueueRequest, NoRequest
<1>3. CASE ResetRequest
  BY <1>3 DEF PossibleOK, ResetRequest
<1>4. CASE StartUpdate \/ StartPowered \/ StartAwait \/ StartEnd
  <2>1. Refreshed
    BY <1>4, RefreshFacts DEF StartUpdate, StartPowered, StartAwait, StartEnd
  <2> QED
    BY <2>1 DEF PossibleOK, Refreshed
<1>5. CASE ResetUpdate \/ IncRejected \/ StatusTask
  <2>1. Refreshed
    BY <1>5, RefreshFacts DEF ResetUpdate, IncRejected, StatusTask
  <2> QED
    BY <2>1 DEF PossibleOK, Refreshed
<1>6. CASE StartTests
  BY <1>6 DEF PossibleOK, StartTests, JobStops
<1>7. CASE StartPower \/ StartClear \/ StartJob \/ StartCheck
  BY <1>7 DEF PossibleOK, JobStops, StartPower, StartClear, StartJob, StartCheck
<1>8. CASE \E t \in Stoppers : Stop(t)
  BY <1>8 DEF PossibleOK, Stop, StopRaise, StopPoll, StopTimesOut, StopClear,
              JobStops
<1>9. CASE StopReply \/ Validate
  BY <1>9 DEF PossibleOK, StopReply, Validate
<1>10. CASE QueuePoint
  BY <1>10 DEF PossibleOK, QueuePoint, InitZero, InitGroup, InitFails,
               InitDone,
               QueueRefused, QueueMark, QueueMarked
<1>11. CASE IncCycle
  BY <1>11 DEF PossibleOK, IncCycle
<1>12. CASE \E g \in Groups : AddTo(g)
  BY <1>12 DEF PossibleOK, AddTo, AddTop, AddLoop, AddEnqueue, AddGivesUp,
               AddAdvance
<1>13. CASE Job
  BY <1>13 DEF PossibleOK, Job, JobOff, JobOn
<1>14. CASE Loss \/ OperatorRepairs
  BY <1>14 DEF PossibleOK, JobOK, Loss, OperatorRepairs, JobStops
<1>15. CASE UNCHANGED vars
  BY <1>15 DEF PossibleOK, vars
<1> QED
  BY <1>1, <1>2, <1>3, <1>4, <1>5, <1>6, <1>7, <1>8, <1>9, <1>10, <1>11,
     <1>12, <1>13, <1>14, <1>15, StepCases DEF Start

(* Every step keeps what is known of the services under way.               *)
LEMMA ServiceKept ==
  ASSUME Types, PlacesOK, JobOK, ServiceOK, FirstPoint, [Next]_vars
  PROVE  ServiceOK'
<1> USE DEF Types, PlacesOK, Stoppers, ServiceOK, Starts, Prepare, Restart
<1>1. CASE \E m \in {"trajectory", "queue"} : StartRequest(m)
  BY <1>1 DEF StartRequest
<1>2. CASE StopRequest \/ NoRequest \/ ResetRequest
  BY <1>2 DEF StopRequest, NoRequest, ResetRequest
<1>3. CASE QueueRequest
  BY <1>3 DEF QueueRequest, Busy
<1>4. CASE StartUpdate \/ StartPowered \/ StartAwait \/ StartEnd
  BY <1>4 DEF StartUpdate, StartPowered, StartAwait, StartEnd
<1>5. CASE StartTests \/ StartPower \/ StartClear \/ StartJob \/ StartCheck
  BY <1>5 DEF StartTests, StartPower, StartClear, StartJob, StartCheck
<1>6. CASE \E t \in Stoppers : Stop(t)
  BY <1>6 DEF Stop, StopRaise, StopPoll, StopTimesOut, StopClear, JobStops,
              ClearQ_All
<1>7. CASE StopReply \/ Validate
  BY <1>7 DEF StopReply, Validate
<1>8. CASE QueuePoint
  <2>1. CASE InitZero
    <3>1. \A g \in Groups : slot1'[g] = 0 /\ ~hasData[g]
      BY <2>1 DEF InitZero, FirstPoint
    <3> QED
      BY <2>1, <3>1 DEF InitZero
  <2>2. CASE InitGroup
    <3>1. k \in Nat /\ k' = k + 1
      BY <2>2, SizeAssumption DEF InitGroup
    <3>2. ASSUME NEW g \in Groups, g > k' PROVE ~hasData'[g]
      <4>1. g # k + 1 /\ g > k
        BY <3>1, <3>2 DEF Groups
      <4> QED
        BY <2>2, <4>1 DEF InitGroup
    <3> QED
      BY <2>2, <3>2 DEF InitGroup
  <2>3. CASE QueueMark
    <3>1. k \in Nat /\ k' = k + 1
      BY <2>3, SizeAssumption DEF QueueMark
    <3>2. ASSUME NEW g \in Groups, g > k' PROVE slot1'[g] = 0
      <4>1. g # k + 1 /\ g > k
        BY <3>1, <3>2 DEF Groups
      <4> QED
        BY <2>3, <4>1 DEF QueueMark
    <3> QED
      BY <2>3, <3>2 DEF QueueMark
  <2>4. CASE InitFails \/ InitDone \/ QueueRefused \/ QueueMarked
    BY <2>4 DEF InitFails, InitDone, QueueRefused, QueueMarked
  <2> QED
    BY <1>8, <2>1, <2>2, <2>3, <2>4 DEF QueuePoint
<1>9. CASE ResetUpdate \/ IncRejected \/ StatusTask
  <2>1. Refreshed
    BY <1>9, RefreshFacts DEF ResetUpdate, IncRejected, StatusTask
  <2> QED
    BY <1>9, <2>1 DEF Refreshed, ResetUpdate, IncRejected, StatusTask
<1>10. CASE IncCycle
  BY <1>10 DEF IncCycle
<1>11. CASE \E g \in Groups : AddTo(g)
  <2>1. /\ mode' = mode /\ mustInit' = mustInit /\ allInit' = allInit
        /\ pc' = pc /\ want' = want /\ k' = k
        /\ job' = job /\ noticed' = noticed
    BY <1>11 DEF AddTo, AddTop, AddLoop, AddEnqueue, AddGivesUp, AddAdvance
  <2>2. ASSUME NEW g \in Groups
        PROVE  /\ slot1[g] = 0 => slot1'[g] = 0
               /\ ~hasData[g] => ~hasData'[g]
    <3>1. PICK h \in Groups : AddTo(h)
      BY <1>11
    <3>2. CASE AddTop(h) \/ AddGivesUp(h)
      BY <3>2 DEF AddTop, AddGivesUp, ZeroPoints
    <3>3. CASE AddLoop(h) \/ AddEnqueue(h)
      BY <3>3 DEF AddLoop, AddEnqueue
    <3>4. CASE AddAdvance(h)
      BY <3>4 DEF AddAdvance, MovePoint
    <3> QED
      BY <3>1, <3>2, <3>3, <3>4 DEF AddTo
  <2> QED
    BY <2>1, <2>2
<1>12. CASE Job
  BY <1>12 DEF JobOK, Job, JobOff, JobOn
<1>13. CASE Loss \/ OperatorRepairs
  BY <1>13 DEF Loss, OperatorRepairs, JobStops
<1>14. CASE UNCHANGED vars
  BY <1>14 DEF vars
<1> QED
  BY <1>1, <1>2, <1>3, <1>4, <1>5, <1>6, <1>7, <1>8, <1>9, <1>10, <1>11,
     <1>12, <1>13, <1>14, StepCases DEF Start

(* Every step keeps what is known of output 889.                           *)
LEMMA WaitKept ==
  ASSUME Types, PlacesOK, JobOK, PossibleOK, ServiceOK, WaitSeen, [Next]_vars
  PROVE  WaitSeen'
<1> USE DEF Types, PlacesOK, Stoppers
<1>1. CASE \E m \in {"trajectory", "queue"} : StartRequest(m)
  BY <1>1 DEF WaitSeen, StartRequest, Restart
<1>2. CASE StopRequest \/ NoRequest \/ ResetRequest \/ QueueRequest
  BY <1>2 DEF WaitSeen, StopRequest, NoRequest, ResetRequest, QueueRequest,
              Restart
<1>3. CASE \/ StartUpdate \/ StartPowered \/ StartAwait \/ StartEnd
           \/ ResetUpdate \/ IncRejected \/ StatusTask
  <2>1. Refreshed
    BY <1>3, RefreshFacts DEF StartUpdate, StartPowered, StartAwait,
                              StartEnd, ResetUpdate, IncRejected, StatusTask
  <2>2. ASSUME NEW g \in Groups, hasData'[g] PROVE status'.waitingRos
    BY <2>1, <2>2 DEF Refreshed, WaitSeen
  <2>3. UNCHANGED <<mode, out, job>>
    BY <1>3 DEF StartUpdate, StartPowered, StartAwait, StartEnd, ResetUpdate,
                IncRejected, StatusTask
  <2>4. pc["exec"] \in Restart \cup {"validate"} =>
          pc'["exec"] \in Restart \cup {"validate"}
    BY <1>3 DEF StartUpdate, StartPowered, StartAwait, StartEnd, ResetUpdate,
                IncRejected, StatusTask, Restart
  <2>5. (status'.waitingRos <=> out) /\ (possible' => out)
    BY <2>1 DEF Refreshed
  <2> QED
    BY <2>2, <2>3, <2>4, <2>5 DEF WaitSeen
<1>4. CASE StartTests \/ StartPower \/ StartClear \/ StartJob
  BY <1>4 DEF WaitSeen, StartTests, StartPower, StartClear, StartJob,
              Restart, JobStops, ClearQ_All, PossibleOK
<1>5. CASE StartCheck
  BY <1>5 DEF StartCheck, Slept200, WaitSeen, JobOK, PossibleOK, ServiceOK,
              Restart, MotionReady, ReadyIn
<1>6. CASE \E t \in Stoppers : Stop(t)
  BY <1>6 DEF Stop, StopRaise, StopPoll, StopTimesOut, StopClear, JobStops,
              ClearQ_All, WaitSeen, Restart
<1>7. CASE StopReply
  BY <1>7 DEF StopReply, Ros_MotionControl_StopTrajMode, WaitSeen, Restart
<1>8. CASE Validate
  BY <1>8 DEF Validate, ModeMustEnd, Ros_MotionControl_StopTrajMode,
              WaitSeen, PossibleOK, Restart
<1>9. CASE InitGroup
  BY <1>9 DEF InitGroup, WaitSeen, ServiceOK, Restart
<1>10. CASE \/ InitZero \/ InitFails \/ InitDone
            \/ QueueRefused \/ QueueMark \/ QueueMarked
  BY <1>10 DEF InitZero, InitFails, InitDone, QueueRefused, QueueMark,
               QueueMarked, WaitSeen, Restart
<1>11. CASE IncCycle
  BY <1>11 DEF IncCycle, WaitSeen
<1>12. CASE \E g \in Groups : AddTo(g)
  <2>1. UNCHANGED <<mode, pc, out, status, possible, job>>
    BY <1>12 DEF AddTo, AddTop, AddLoop, AddEnqueue, AddGivesUp, AddAdvance
  <2>2. \A g \in Groups : hasData'[g] => hasData[g]
    BY <1>12 DEF AddTo, AddTop, AddLoop, AddEnqueue, AddGivesUp, AddAdvance,
                 ZeroPoints
  <2> QED
    BY <2>1, <2>2 DEF WaitSeen
<1>13. CASE Job
  BY <1>13 DEF JobOK, WaitSeen, Job, JobOff, JobOn, Restart
<1>14. CASE Loss
  BY <1>14 DEF Loss, JobStops, WaitSeen
<1>15. CASE OperatorRepairs
  BY <1>15 DEF OperatorRepairs, WaitSeen, JobOK
<1>16. CASE UNCHANGED vars
  BY <1>16 DEF vars, WaitSeen
<1> QED
  BY <1>1, <1>2, <1>3, <1>4, <1>5, <1>6, <1>7, <1>8, <1>9, <1>10,
     <1>11, <1>12, <1>13, <1>14, <1>15, <1>16, StepCases DEF Start, QueuePoint

(* A start that succeeds finds nothing left of an earlier mode.            *)
LEMMA StartedClean ==
  ASSUME Types, PlacesOK, JobOK, ServiceOK, WaitSeen, RestartOK, OtherModes,
         StartCheck, MotionReady, want = "queue"
  PROVE  NoWork
<1>1. /\ pc["exec"] = "check" /\ job \in {"waiting", "held"}
      /\ status.waitingRos /\ status.power /\ status.operating
  BY DEF StartCheck, Slept200, MotionReady, ReadyIn, Types
<1>2. \A g \in Groups : Idle(g)
  BY <1>1 DEF RestartOK, NeverStarts, Restart
<1>3. CASE mode = "queue"
  <2>1. ~Unclean
    BY <1>1, <1>3 DEF RestartOK, Restart
  <2> QED
    BY <1>2, <2>1 DEF Idle, Unclean, NoWork
<1>4. CASE mode = "off"
  BY <1>1, <1>4 DEF WaitSeen, OtherModes
<1> QED
  BY <1>1, <1>3, <1>4 DEF ServiceOK, Starts, Restart

(* The steps while a start is under way.                                   *)
LEMMA StartingSteps ==
  ASSUME pc["exec"] \in Starts, [Next]_vars
  PROVE  \/ Start \/ Stop("inc")
         \/ IncRejected \/ StatusTask
         \/ IncCycle
         \/ \E g \in Groups : AddTo(g)
         \/ Job
         \/ Loss \/ OperatorRepairs
         \/ UNCHANGED vars
<1> USE DEF Stoppers, Starts, Prepare, Restart
<1>1. ~\E m \in {"trajectory", "queue"} : StartRequest(m)
  BY DEF StartRequest
<1>2. ~(StopRequest \/ QueueRequest \/ ResetRequest \/ NoRequest)
  BY DEF StopRequest, QueueRequest, ResetRequest, NoRequest
<1>3. ~(StopReply \/ Validate \/ ResetUpdate)
  BY DEF StopReply, Validate, ResetUpdate
<1>4. ~QueuePoint
  BY DEF QueuePoint, InitZero, InitGroup, InitFails, InitDone, QueueRefused,
         QueueMark, QueueMarked
<1>5. ~Stop("exec")
  BY DEF Stop, StopRaise, StopPoll, StopTimesOut, StopClear
<1> QED
  BY <1>1, <1>2, <1>3, <1>4, <1>5, StepCases

(* Only a start changes the places of a start, once requested.             *)
LEMMA StartPlaces ==
  ASSUME PlacesOK, [Next]_vars, pc'["exec"] \in Starts
  PROVE  pc'["exec"] = pc["exec"] \/ pc'["exec"] = "start" \/ Start
<1> USE DEF Stoppers, Starts, Prepare, Restart, PlacesOK
<1>1. CASE \E m \in {"trajectory", "queue"} : StartRequest(m)
  BY <1>1 DEF StartRequest
<1>2. CASE StopRequest \/ QueueRequest \/ ResetRequest \/ NoRequest
  BY <1>2 DEF StopRequest, QueueRequest, ResetRequest, NoRequest
<1>3. CASE \E t \in Stoppers : Stop(t)
  BY <1>3 DEF Stop, StopRaise, StopPoll, StopTimesOut, StopClear
<1>4. CASE StopReply \/ Validate
  BY <1>4 DEF StopReply, Validate
<1>5. CASE QueuePoint
  BY <1>5 DEF QueuePoint, InitZero, InitGroup, InitFails, InitDone,
              QueueRefused, QueueMark, QueueMarked
<1>6. CASE ResetUpdate \/ IncRejected \/ StatusTask
  BY <1>6 DEF ResetUpdate, IncRejected, StatusTask
<1>7. CASE IncCycle
  BY <1>7 DEF IncCycle
<1>8. CASE \E g \in Groups : AddTo(g)
  BY <1>8 DEF AddTo, AddTop, AddLoop, AddEnqueue, AddGivesUp, AddAdvance
<1>9. CASE Job
  BY <1>9 DEF Job, JobOff, JobOn
<1>10. CASE Loss \/ OperatorRepairs \/ UNCHANGED vars
  BY <1>10 DEF Loss, OperatorRepairs, vars
<1> QED
  BY <1>1, <1>2, <1>3, <1>4, <1>5, <1>6, <1>7, <1>8, <1>9, <1>10, StepCases

(* Tasks without work stay without while a start is under way.             *)
LEMMA IdleKept ==
  ASSUME Types, pc["exec"] \in Starts, \A g \in Groups : Idle(g), [Next]_vars
  PROVE  \A g \in Groups : Idle(g)'
<1>1. UNCHANGED tasks
  BY TaskSteps
     DEF AddTo, AddTop, AddLoop, AddEnqueue, AddGivesUp, AddAdvance, Idle
<1>2. \A g \in Groups : queue'[g] = <<>>
  BY QueueSteps DEF IncCycle, HasDataInQueue, AddEnqueue, Idle
<1>3. \A g \in Groups : hasData'[g] => hasData[g]
  BY DataSteps DEF InitGroup, Starts, Prepare, Restart
<1>4. UNCHANGED <<allInit, slot1>>
  <2>1. CASE Start
    BY <2>1 DEF Start, StartUpdate, StartTests, StartPower, StartPowered,
                StartClear, StartJob, StartAwait, StartEnd, StartCheck
  <2>2. CASE Stop("inc")
    BY <2>2 DEF Stop, StopRaise, StopPoll, StopTimesOut, StopClear
  <2>3. CASE IncRejected \/ StatusTask \/ IncCycle
    BY <2>3 DEF IncRejected, StatusTask, IncCycle
  <2>4. CASE \E g \in Groups : AddTo(g)
    BY <2>4
       DEF AddTo, AddTop, AddLoop, AddEnqueue, AddGivesUp, AddAdvance, Idle
  <2>5. CASE Job
    BY <2>5 DEF Job, JobOff, JobOn
  <2>6. CASE Loss \/ OperatorRepairs \/ UNCHANGED vars
    BY <2>6 DEF Loss, OperatorRepairs, vars
  <2> QED
    BY <2>1, <2>2, <2>3, <2>4, <2>5, <2>6, StartingSteps
<1> QED
  BY <1>1, <1>2, <1>3, <1>4 DEF Idle, HasPoint

(* StartClear leaves no work.                                              *)
LEMMA ClearedIdle ==
  ASSUME Types, StartClear
  PROVE  \A g \in Groups : Idle(g)'
<1>1. CASE HasDataInQueue
  BY <1>1 DEF StartClear, TasksSettled, Idle, HasPoint, ClearQ_All
<1>2. CASE ~HasDataInQueue
  BY <1>2 DEF StartClear, TasksSettled, Idle, HasPoint, HasDataInQueue
<1> QED
  BY <1>1, <1>2

(* A start that cannot succeed stays so.                                   *)
LEMMA NeverKept ==
  ASSUME Types, PlacesOK, NeverStarts, [Next]_vars, pc'["exec"] \in Restart
  PROVE  NeverStarts'
<1> USE DEF Types, PlacesOK, Stoppers, NeverStarts, Restart
<1>1. pc["exec"] \in Starts
  BY DEF Starts
<1>2. CASE StartEnd
  <2>1. Refreshed
    BY <1>2, RefreshFacts DEF StartEnd
  <2> QED
    BY <1>2, <2>1 DEF StartEnd, Refreshed
<1>3. CASE Start /\ ~StartEnd
  BY <1>3 DEF Start, StartUpdate, StartTests, StartPower, StartPowered,
              StartClear, StartJob, StartAwait, StartCheck
<1>4. CASE Stop("inc")
  BY <1>4 DEF Stop, StopRaise, StopPoll, StopTimesOut, StopClear, JobStops
<1>5. CASE IncRejected \/ StatusTask
  <2>1. Refreshed
    BY <1>5, RefreshFacts DEF IncRejected, StatusTask
  <2> QED
    BY <1>5, <2>1 DEF IncRejected, StatusTask, Refreshed
<1>6. CASE IncCycle
  BY <1>6 DEF IncCycle
<1>7. CASE \E g \in Groups : AddTo(g)
  BY <1>7 DEF AddTo, AddTop, AddLoop, AddEnqueue, AddGivesUp, AddAdvance
<1>8. CASE Job
  BY <1>8 DEF Job, JobOff, JobOn
<1>9. CASE Loss \/ OperatorRepairs \/ UNCHANGED vars
  BY <1>9 DEF Loss, OperatorRepairs, JobStops, vars
<1> QED
  BY <1>1, <1>2, <1>3, <1>4, <1>5, <1>6, <1>7, <1>8, <1>9, StartingSteps

(* The first part of RestartOK.                                            *)
LEMMA QuietKept ==
  ASSUME Types, PlacesOK, JobOK, ServiceOK, RestartOK, [Next]_vars,
         pc'["exec"] \in {"job"} \cup Restart
  PROVE  NeverStarts' \/ \A g \in Groups : Idle(g)'
<1> USE DEF Types, PlacesOK, Stoppers
<1>1. CASE pc["exec"] \in {"job"} \cup Restart
  <2>1. CASE \A g \in Groups : Idle(g)
    BY <1>1, <2>1, IdleKept DEF Starts, Prepare
  <2>2. CASE NeverStarts
    <3>1. ASSUME Start PROVE pc'["exec"] \in Restart
      BY <2>2, <3>1
         DEF NeverStarts, Restart, Start, StartUpdate, StartTests, StartPower,
             StartPowered, StartClear, StartJob, StartAwait, StartEnd,
             StartCheck
    <3>2. pc'["exec"] \in Restart
      BY <2>2, <3>1, StartPlaces DEF NeverStarts, Restart, Starts, Prepare
    <3> QED
      BY <2>2, <3>2, NeverKept
  <2> QED
    BY <1>1, <2>1, <2>2 DEF RestartOK
<1>2. CASE pc["exec"] \notin {"job"} \cup Restart
  <2> USE DEF Restart
  <2>1. CASE StartClear
    BY <2>1, ClearedIdle
  <2>2. CASE StartTests
    BY <1>2, <2>2 DEF StartTests, NeverStarts
  <2>3. CASE StartPower
    BY <1>2, <2>3 DEF StartPower, NeverStarts, JobOK
  <2>4. CASE StartPowered
    <3>1. Refreshed
      BY <2>4, RefreshFacts DEF StartPowered
    <3> QED
      BY <2>4, <3>1 DEF StartPowered, NeverStarts, Refreshed
  <2>5. CASE StartUpdate \/ StartJob \/ StartAwait \/ StartEnd \/ StartCheck
    BY <1>2, <2>5 DEF StartUpdate, StartJob, StartAwait, StartEnd, StartCheck
  <2> QED
    BY <1>2, <2>1, <2>2, <2>3, <2>4, <2>5, StartPlaces
       DEF Start, Starts, Prepare
<1> QED
  BY <1>1, <1>2

(* A start under way keeps mode and request.                               *)
LEMMA StartFrame ==
  ASSUME PlacesOK, pc["exec"] \in Starts, pc'["exec"] \in Starts, [Next]_vars
  PROVE  mode' = mode /\ mustInit' = mustInit /\ want' = want
<1> USE DEF Starts, Prepare, Restart, PlacesOK, Stoppers
<1>1. CASE Start
  BY <1>1 DEF Start, StartUpdate, StartTests, StartPower, StartPowered,
              StartClear, StartJob, StartAwait, StartEnd, StartCheck
<1>2. CASE Stop("inc")
  BY <1>2 DEF Stop, StopRaise, StopPoll, StopTimesOut, StopClear
<1>3. CASE IncRejected \/ StatusTask \/ IncCycle
  BY <1>3 DEF IncRejected, StatusTask, IncCycle
<1>4. CASE \E g \in Groups : AddTo(g)
  BY <1>4 DEF AddTo, AddTop, AddLoop, AddEnqueue, AddGivesUp, AddAdvance
<1>5. CASE Job
  BY <1>5 DEF Job, JobOff, JobOn
<1>6. CASE Loss \/ OperatorRepairs \/ UNCHANGED vars
  BY <1>6 DEF Loss, OperatorRepairs, vars
<1> QED
  BY <1>1, <1>2, <1>3, <1>4, <1>5, <1>6, StartingSteps

(* What lets the robot wait for increments; mpHold leaves the job at its   *)
(* WAIT, to be resumed, only if it was there.                              *)
LEMMA JobSteps ==
  ASSUME Types, JobOK, [Next]_vars
  PROVE  /\ job' = "waiting" => \/ job = "waiting"
                                \/ JobOn /\ pc["exec"] \in Restart
                                \/ OperatorRepairs /\ job = "held" /\ noticed
         /\ job' = "held" => job \in {"held", "waiting"}
<1>1. CASE \E m \in {"trajectory", "queue"} : StartRequest(m)
  BY <1>1 DEF StartRequest
<1>2. CASE StopRequest \/ QueueRequest \/ ResetRequest \/ NoRequest
  BY <1>2 DEF StopRequest, QueueRequest, ResetRequest, NoRequest
<1>3. CASE Start
  BY <1>3 DEF Start, StartUpdate, StartTests, StartPower, StartPowered,
              StartClear, StartJob, StartAwait, StartEnd, StartCheck, JobStops
<1>4. CASE \E t \in Stoppers : Stop(t)
  BY <1>4 DEF Stop, StopRaise, StopPoll, StopTimesOut, StopClear, JobStops
<1>5. CASE StopReply \/ Validate
  BY <1>5 DEF StopReply, Validate
<1>6. CASE QueuePoint
  BY <1>6 DEF QueuePoint, InitZero, InitGroup, InitFails, InitDone,
              QueueRefused, QueueMark, QueueMarked
<1>7. CASE ResetUpdate \/ IncRejected \/ StatusTask
  BY <1>7 DEF ResetUpdate, IncRejected, StatusTask
<1>8. CASE IncCycle
  BY <1>8 DEF IncCycle
<1>9. CASE \E g \in Groups : AddTo(g)
  BY <1>9 DEF AddTo, AddTop, AddLoop, AddEnqueue, AddGivesUp, AddAdvance
<1>10. CASE Job
  BY <1>10 DEF Job, JobOff, JobOn, JobOK
<1>11. CASE Loss \/ OperatorRepairs \/ UNCHANGED vars
  BY <1>11 DEF Loss, OperatorRepairs, JobStops, vars
<1> QED
  BY <1>1, <1>2, <1>3, <1>4, <1>5, <1>6, <1>7, <1>8, <1>9, <1>10, <1>11,
     StepCases

(* The status changes by being refreshed.                                  *)
LEMMA StatusSteps ==
  ASSUME Types, [Next]_vars
  PROVE  \/ UNCHANGED <<status, possible>>
         \/ /\ Refreshed
            /\ UNCHANGED <<mode, job, out, add, made, pos, slot0, slot1>>
<1>1. CASE \E m \in {"trajectory", "queue"} : StartRequest(m)
  BY <1>1 DEF StartRequest
<1>2. CASE StopRequest \/ QueueRequest \/ ResetRequest \/ NoRequest
  BY <1>2 DEF StopRequest, QueueRequest, ResetRequest, NoRequest
<1>3. CASE StartUpdate \/ StartPowered \/ StartAwait \/ StartEnd
  BY <1>3, RefreshFacts DEF StartUpdate, StartPowered, StartAwait, StartEnd
<1>4. CASE StartTests \/ StartPower \/ StartClear \/ StartJob \/ StartCheck
  BY <1>4 DEF StartTests, StartPower, StartClear, StartJob, StartCheck
<1>5. CASE \E t \in Stoppers : Stop(t)
  BY <1>5 DEF Stop, StopRaise, StopPoll, StopTimesOut, StopClear
<1>6. CASE StopReply \/ Validate
  BY <1>6 DEF StopReply, Validate
<1>7. CASE QueuePoint
  BY <1>7 DEF QueuePoint, InitZero, InitGroup, InitFails, InitDone,
              QueueRefused, QueueMark, QueueMarked
<1>8. CASE ResetUpdate \/ IncRejected \/ StatusTask
  BY <1>8, RefreshFacts DEF ResetUpdate, IncRejected, StatusTask
<1>9. CASE IncCycle
  BY <1>9 DEF IncCycle
<1>10. CASE \E g \in Groups : AddTo(g)
  BY <1>10 DEF AddTo, AddTop, AddLoop, AddEnqueue, AddGivesUp, AddAdvance
<1>11. CASE Job
  BY <1>11 DEF Job, JobOff, JobOn
<1>12. CASE Loss \/ OperatorRepairs \/ UNCHANGED vars
  BY <1>12 DEF Loss, OperatorRepairs, vars
<1> QED
  BY <1>1, <1>2, <1>3, <1>4, <1>5, <1>6, <1>7, <1>8, <1>9, <1>10, <1>11,
     <1>12, StepCases DEF Start

(* Every step keeps what is known of a start that prepares or waits.       *)
LEMMA RestartKept ==
  ASSUME Types, PlacesOK, JobOK, PossibleOK, ServiceOK, WaitSeen, RestartOK,
         LiveOK, [Next]_vars
  PROVE  RestartOK'
<1> USE DEF Types, PlacesOK, Stoppers
<1>1. ASSUME pc'["exec"] \in {"job"} \cup Restart
      PROVE  NeverStarts' \/ \A g \in Groups : Idle(g)'
  BY <1>1, QuietKept
<1>2. ASSUME mode' = "queue", pc'["exec"] \in Prepare \cup Restart
      PROVE  /\ pc["exec"] \in {"tests"} \cup Prepare \cup Restart
             /\ mode = "queue"
  <2>1. pc["exec"] \in {"tests"} \cup Prepare \cup Restart
    BY <1>2, StartPlaces
       DEF Start, StartUpdate, StartTests, StartPower, StartPowered,
           StartClear, StartJob, StartAwait, StartEnd, StartCheck, Starts,
           Prepare, Restart
  <2> QED
    BY <1>2, <2>1, StartFrame DEF Starts
<1>3. ASSUME mode' = "queue", pc'["exec"] \in Prepare, job' = "waiting"
      PROVE  FALSE
  <2>1. pc["exec"] \in {"tests"} \cup Prepare
    BY <1>3, StartPlaces
       DEF Start, StartUpdate, StartTests, StartPower, StartPowered,
           StartClear, StartJob, StartAwait, StartEnd, StartCheck, Starts,
           Prepare, Restart
  <2>2. mode = "queue" /\ job = "waiting"
    BY <1>2, <1>3, <2>1, JobSteps DEF JobOK, Prepare, Restart
  <2>3. pc["exec"] = "tests"
    BY <2>1, <2>2 DEF RestartOK
  <2>4. possible
    BY <2>2, <2>3 DEF LiveOK, Live, Restart
  <2>5. MotionReady
    BY <2>2, <2>4 DEF PossibleOK, MotionReady, ReadyIn
  <2>6. StartTests
    BY <1>3, <2>3, StartPlaces
       DEF Start, StartUpdate, StartTests, StartPower, StartPowered,
           StartClear, StartJob, StartAwait, StartEnd, StartCheck, Starts,
           Prepare, Restart
  <2> QED
    BY <1>3, <2>5, <2>6 DEF StartTests, Prepare
<1>4. ASSUME mode' = "queue", pc'["exec"] \in Restart
      PROVE  /\ job' = "waiting" => ~Unclean'
             /\ job' = "held" =>
                  ~Unclean' \/ (pc'["exec"] = "check" => ~status'.operating)
  <2>1. pc["exec"] \in {"tests"} \cup Prepare \cup Restart /\ mode = "queue"
    BY <1>2, <1>4
  <2>2. ~Unclean => ~Unclean'
    BY <2>1, DataSteps DEF InitGroup, Unclean, Restart, Prepare
  <2>3. ASSUME job' = "waiting" PROVE ~Unclean'
    <3>1. CASE job = "waiting"
      <4>1. pc["exec"] \notin Prepare
        BY <2>1, <3>1 DEF RestartOK
      <4>2. CASE pc["exec"] = "tests"
        <5>1. possible
          BY <2>1, <3>1, <4>2 DEF LiveOK, Live, Restart
        <5>2. MotionReady
          BY <3>1, <5>1 DEF PossibleOK, MotionReady, ReadyIn
        <5>3. StartTests
          BY <1>4, <4>2, StartPlaces
             DEF Start, StartUpdate, StartTests, StartPower, StartPowered,
                 StartClear, StartJob, StartAwait, StartEnd, StartCheck,
                 Starts, Prepare, Restart
        <5> QED
          BY <1>4, <5>2, <5>3 DEF StartTests, Restart
      <4>3. CASE pc["exec"] \in Restart
        BY <2>1, <2>2, <3>1, <4>3 DEF RestartOK
      <4> QED
        BY <2>1, <4>1, <4>2, <4>3
    <3>2. CASE JobOn
      BY <2>2, <3>2 DEF JobOn, WaitSeen, Unclean
    <3> QED
      BY <2>1, <2>3, <3>1, <3>2, JobSteps DEF JobOK
  <2>4. ASSUME job' = "held", pc'["exec"] = "check"
        PROVE  ~Unclean' \/ ~status'.operating
    <3>1. pc["exec"] = "check" \/ StartEnd
      BY <2>4, StartPlaces
         DEF Start, StartUpdate, StartTests, StartPower, StartPowered,
             StartClear, StartJob, StartAwait, StartEnd, StartCheck, Starts,
             Prepare, Restart
    <3>2. CASE job = "held"
      <4>1. CASE StartEnd
        <5>1. Refreshed /\ job' = job
          BY <4>1, RefreshFacts DEF StartEnd
        <5> QED
          BY <3>2, <5>1 DEF Refreshed
      <4>2. CASE pc["exec"] = "check" /\ UNCHANGED <<status, possible>>
        BY <2>1, <2>2, <3>2, <4>2 DEF RestartOK, Restart
      <4>3. CASE Refreshed
        BY <3>2, <4>3 DEF Refreshed
      <4> QED
        BY <3>1, <4>1, <4>2, <4>3, StatusSteps
    <3>3. CASE job = "waiting"
      <4>1. pc["exec"] \in Restart
        BY <3>1 DEF StartEnd, Restart
      <4> QED
        BY <2>1, <2>2, <3>3, <4>1 DEF RestartOK
    <3> QED
      BY <2>4, <3>2, <3>3, JobSteps
  <2> QED
    BY <2>3, <2>4
<1> QED
  BY <1>1, <1>3, <1>4 DEF RestartOK

(* What changes the mode, output 889 and MustInitializePointQueue.         *)
LEMMA ModeSteps ==
  ASSUME Types, [Next]_vars
  PROVE  /\ UNCHANGED mode \/ StartCheck \/ StopReply \/ Validate
         /\ out' => out \/ JobOn
         /\ mustInit' => mustInit \/ StartCheck
<1>1. CASE \E m \in {"trajectory", "queue"} : StartRequest(m)
  BY <1>1 DEF StartRequest
<1>2. CASE StopRequest \/ QueueRequest \/ ResetRequest \/ NoRequest
  BY <1>2 DEF StopRequest, QueueRequest, ResetRequest, NoRequest
<1>3. CASE Start
  BY <1>3 DEF Start, StartUpdate, StartTests, StartPower, StartPowered,
              StartClear, StartJob, StartAwait, StartEnd, StartCheck
<1>4. CASE \E t \in Stoppers : Stop(t)
  BY <1>4 DEF Stop, StopRaise, StopPoll, StopTimesOut, StopClear
<1>5. CASE StopReply \/ Validate
  BY <1>5 DEF StopReply, Validate, Ros_MotionControl_StopTrajMode
<1>6. CASE QueuePoint
  BY <1>6 DEF QueuePoint, InitZero, InitGroup, InitFails, InitDone,
              QueueRefused, QueueMark, QueueMarked
<1>7. CASE ResetUpdate \/ IncRejected \/ StatusTask
  BY <1>7 DEF ResetUpdate, IncRejected, StatusTask
<1>8. CASE IncCycle
  BY <1>8 DEF IncCycle
<1>9. CASE \E g \in Groups : AddTo(g)
  BY <1>9 DEF AddTo, AddTop, AddLoop, AddEnqueue, AddGivesUp, AddAdvance
<1>10. CASE Job
  BY <1>10 DEF Job, JobOff, JobOn
<1>11. CASE Loss \/ OperatorRepairs \/ UNCHANGED vars
  BY <1>11 DEF Loss, OperatorRepairs, vars
<1> QED
  BY <1>1, <1>2, <1>3, <1>4, <1>5, <1>6, <1>7, <1>8, <1>9, <1>10, <1>11,
     StepCases

(* Who leaves the groups in InitPointQueue, who ends a turn, and who has   *)
(* IncMoveLoop wait for the tasks in StopMotion.                           *)
LEMMA PlaceSteps ==
  ASSUME PlacesOK, [Next]_vars
  PROVE  /\ pc["exec"] = "group" =>
              pc'["exec"] = "group" \/ InitFails \/ InitDone
         /\ pc["exec"] = "validate" => pc'["exec"] = "validate" \/ Validate
         /\ pc'["inc"] \in {"poll", "clearq"} =>
              pc["inc"] \in {"poll", "clearq"} \/ StopRaise("inc")
<1> USE DEF PlacesOK, Stoppers
<1>1. CASE \E m \in {"trajectory", "queue"} : StartRequest(m)
  BY <1>1 DEF StartRequest
<1>2. CASE StopRequest \/ QueueRequest \/ ResetRequest \/ NoRequest
  BY <1>2 DEF StopRequest, QueueRequest, ResetRequest, NoRequest
<1>3. CASE Start
  BY <1>3 DEF Start, StartUpdate, StartTests, StartPower, StartPowered,
              StartClear, StartJob, StartAwait, StartEnd, StartCheck
<1>4. CASE \E t \in Stoppers : Stop(t)
  BY <1>4 DEF Stop, StopRaise, StopPoll, StopTimesOut, StopClear
<1>5. CASE StopReply \/ Validate
  BY <1>5 DEF StopReply, Validate, Ros_MotionControl_StopTrajMode
<1>6. CASE QueuePoint
  BY <1>6 DEF QueuePoint, InitZero, InitGroup, InitFails, InitDone,
              QueueRefused, QueueMark, QueueMarked
<1>7. CASE ResetUpdate \/ IncRejected \/ StatusTask
  BY <1>7 DEF ResetUpdate, IncRejected, StatusTask
<1>8. CASE IncCycle
  BY <1>8 DEF IncCycle
<1>9. CASE \E g \in Groups : AddTo(g)
  BY <1>9 DEF AddTo, AddTop, AddLoop, AddEnqueue, AddGivesUp, AddAdvance
<1>10. CASE Job
  BY <1>10 DEF Job, JobOff, JobOn
<1>11. CASE Loss \/ OperatorRepairs \/ UNCHANGED vars
  BY <1>11 DEF Loss, OperatorRepairs, vars
<1> QED
  BY <1>1, <1>2, <1>3, <1>4, <1>5, <1>6, <1>7, <1>8, <1>9, <1>10, <1>11,
     StepCases

(* Only a first point makes work for tasks that have none.                 *)
LEMMA NoWorkKept ==
  ASSUME Types, NoWork, [Next]_vars
  PROVE  NoWork' \/ InitGroup
<1>1. UNCHANGED tasks
  BY TaskSteps
     DEF AddTo, AddTop, AddLoop, AddEnqueue, AddGivesUp, AddAdvance, NoWork,
         HasPoint
<1>2. \A g \in Groups : queue'[g] = <<>>
  BY QueueSteps DEF IncCycle, HasDataInQueue, AddEnqueue, NoWork
<1> QED
  BY <1>1, <1>2, DataSteps DEF NoWork

(* Every step keeps what is known of the other modes.                      *)
LEMMA OtherKept ==
  ASSUME Types, PlacesOK, JobOK, PossibleOK, ServiceOK, WaitSeen, RestartOK,
         LiveOK, OtherModes, [Next]_vars
  PROVE  OtherModes'
<1> USE DEF Types, PlacesOK, Stoppers
<1>1. CASE mode # "queue" /\ mode' # "queue"
  <2>1. NoWork => NoWork'
    BY <1>1, NoWorkKept DEF InitGroup, ServiceOK
  <2>2. CASE JobOn
    <3>1. pc["exec"] \in Restart /\ power /\ ~Unclean
      BY <2>2 DEF JobOn, JobOK, WaitSeen, Unclean
    <3>2. \A g \in Groups : Idle(g)
      BY <2>2, <3>1 DEF RestartOK, NeverStarts, JobOn
    <3>3. NoWork
      BY <3>1, <3>2 DEF NoWork, Idle, Unclean
    <3> QED
      BY <2>1, <3>3 DEF OtherModes
  <2>3. CASE ~JobOn
    <3>1. out' => NoWork'
      BY <1>1, <2>1, <2>3, ModeSteps DEF OtherModes
    <3>2. ASSUME ~out', job' = "waiting", status'.waitingRos, ~NoWork'
          PROVE  ~status'.operating
      <4>1. ~out /\ ~NoWork
        BY <1>1, <2>1, <3>2 DEF OtherModes
      <4>2. UNCHANGED <<status, possible>>
        BY <3>2, StatusSteps DEF Refreshed
      <4>3. ~status.operating
        BY <1>1, <2>3, <3>2, <4>1, <4>2, JobSteps DEF OtherModes, JobOK
      <4> QED
        BY <4>2, <4>3
    <3> QED
      BY <3>1, <3>2 DEF OtherModes
  <2> QED
    BY <2>2, <2>3
<1>2. CASE mode = "queue" /\ mode' # "queue"
  <2>1. ~StartCheck
    BY <1>2 DEF StartCheck, ServiceOK, Starts, Restart
  <2>2. CASE StopReply
    BY <1>2, <2>2
       DEF StopReply, Ros_MotionControl_StopTrajMode, ServiceOK, OtherModes
  <2>3. CASE Validate
    <3>1. ~possible /\ ~out' /\ job' = job
      BY <1>2, <2>3
         DEF Validate, ModeMustEnd, Ros_MotionControl_StopTrajMode
    <3>2. job = "waiting" => NoWork
      BY <1>2, <2>3, <3>1 DEF LiveOK, Live, Validate, Restart
    <3>3. NoWork => NoWork'
      BY <2>3, NoWorkKept DEF Validate, InitGroup
    <3> QED
      BY <3>1, <3>2, <3>3 DEF OtherModes
  <2> QED
    BY <1>2, <2>1, <2>2, <2>3, ModeSteps
<1> QED
  BY <1>1, <1>2 DEF OtherModes

(* Every step keeps that nothing precedes a first point.                   *)
LEMMA FirstKept ==
  ASSUME Types, PlacesOK, JobOK, ServiceOK, WaitSeen, RestartOK, OtherModes,
         FirstPoint, [Next]_vars
  PROVE  FirstPoint'
<1> USE DEF Types, PlacesOK, Stoppers
<1>1. CASE StartCheck
  <2>1. CASE MotionReady /\ want = "queue"
    <3>1. NoWork
      BY <1>1, <2>1, StartedClean
    <3>2. NoWork'
      BY <1>1, <3>1, NoWorkKept DEF InitGroup, StartCheck
    <3> QED
      BY <3>2 DEF NoWork, FirstPoint
  <2>2. CASE ~(MotionReady /\ want = "queue")
    BY <1>1, <2>2 DEF StartCheck, FirstPoint
  <2> QED
    BY <2>1, <2>2
<1>2. CASE ~StartCheck
  <2> SUFFICES ASSUME mustInit', mode' = "queue"
               PROVE  \A g \in Groups :
                        /\ add'[g] = "top" /\ queue'[g] = <<>>
                        /\ hasData'[g] => pc'["exec"] = "group"
    BY DEF FirstPoint
  <2>1. mode = "queue"
    BY <1>2, ModeSteps DEF StopReply, Validate, Ros_MotionControl_StopTrajMode
  <2>2. mustInit
    BY <1>2, ModeSteps
  <2>3. ~\E g \in Groups : AddTo(g)
    BY <2>1, <2>2 DEF FirstPoint, AddTo, AddTop, AddLoop, AddEnqueue,
                      AddGivesUp, AddAdvance, HasPoint, ServiceOK
  <2>4. UNCHANGED tasks
    BY <2>3, TaskSteps
  <2>5. \A g \in Groups : queue'[g] = <<>>
    BY <2>1, <2>2, <2>3, QueueSteps DEF FirstPoint, IncCycle, HasDataInQueue,
                                        AddTo
  <2>6. ASSUME NEW g \in Groups, hasData'[g] PROVE pc'["exec"] = "group"
    <3>1. pc["exec"] = "group"
      BY <2>1, <2>2, <2>6, DataSteps DEF FirstPoint, InitGroup
    <3>2. ~InitFails /\ ~InitDone
      BY <2>6 DEF InitFails, InitDone
    <3> QED
      BY <3>1, <3>2, PlaceSteps
  <2> QED
    BY <2>1, <2>2, <2>4, <2>5, <2>6 DEF FirstPoint
<1> QED
  BY <1>1, <1>2

(* A group that has no work is good.                                       *)
LEMMA GoodOfNoWork ==
  ASSUME NoWork', NEW g \in Groups
  PROVE  Good(g)'
<1>1. ~hasData'[g] /\ queue'[g] = <<>> /\ add'[g] = "top"
  BY DEF NoWork
<1>2. Len(<<>>) = 0
  OBVIOUS
<1>3. Queued(g)'
  BY <1>1, <1>2 DEF Queued
<1>4. Ahead(g)'
  BY <1>1 DEF Ahead
<1> QED
  BY <1>1, <1>3, <1>4 DEF Good

(* More early points do no harm to a row of increments already queued.     *)
LEMMA QueuedMore ==
  ASSUME NEW g \in Groups, queue'[g] = queue[g], pos'[g] = pos[g],
         early \subseteq early', Queued(g)
  PROVE  Queued(g)'
  BY DEF Queued, Follows, Leads

(* So is one that stays as it was, or loses the work it has not begun.     *)
LEMMA GoodOfQuiet ==
  ASSUME NEW g \in Groups, Good(g),
         UNCHANGED <<slot0, slot1, early, queue, add, made, pos>>,
         hasData'[g] => hasData[g],
         add[g] \in {"loop", "enqueue"} => hasData'[g],
         hasData[g] => Newest(g)' = Newest(g)
  PROVE  Good(g)'
<1>1. Last(g)' = Last(g)
  BY DEF Last
<1>2. Queued(g)'
  BY QueuedMore DEF Good
<1>3. Ahead(g) => Ahead(g)'
  BY <1>1 DEF Ahead, Leads
<1> QED
  BY <1>2, <1>3 DEF Good

(* A group is not concerned by what happens to another.                    *)
LEMMA GoodOfOther ==
  ASSUME NEW g \in Groups, Good(g),
         slot0'[g] = slot0[g], slot1'[g] = slot1[g], queue'[g] = queue[g],
         add'[g] = add[g], made'[g] = made[g], pos'[g] = pos[g],
         hasData'[g] = hasData[g],
         early \subseteq early', slot1[g] \in early' => slot1[g] \in early,
         hasData[g] => Newest(g)' = Newest(g)
  PROVE  Good(g)'
<1>1. Last(g)' = Last(g)
  BY DEF Last
<1>2. Queued(g)'
  BY QueuedMore DEF Good
<1>3. Ahead(g) => Ahead(g)'
  BY <1>1 DEF Ahead, Leads
<1> QED
  BY <1>2, <1>3 DEF Good

(* An increment for the way to the next point follows what is queued.      *)
LEMMA GoodOfEnqueue ==
  ASSUME Types, TaskOK, NEW g \in Groups, Good(g), AddEnqueue(g)
  PROVE  Good(g)'
<1> DEFINE q == queue[g]
           n == Len(q)
           e == [from |-> slot0[g], to |-> slot1[g], nr |-> made[g] + 1]
<1>1. /\ q \in Seq(Increments) /\ n \in Nat
      /\ slot0[g] \in Nat /\ slot1[g] \in Nat /\ made[g] \in Nat
      /\ Incs \in Nat \ {0}
  BY SizeAssumption DEF Types
<1>2. /\ queue'[g] = Append(q, e) /\ made'[g] = made[g] + 1
      /\ add'[g] = "loop" /\ hasData' = hasData /\ pos' = pos
      /\ UNCHANGED slots /\ add[g] = "enqueue"
      /\ Newest(g)' = Newest(g)
  BY DEF AddEnqueue, Types, Newest
<1>3. hasData[g]
  BY <1>2 DEF Good
<1>4. Queued(g) /\ Ahead(g)
  BY DEF Good
<1>5. Follows(Last(g), e)
  <2>1. CASE made[g] = 0
    <3>1. Leads(Last(g), slot0[g]) /\ slot1[g] = slot0[g] + 1
      BY <1>2, <1>3, <1>4, <2>1 DEF Ahead
    <3> QED
      BY <2>1, <3>1 DEF Follows
  <2>2. CASE made[g] # 0
    <3>1. Last(g) = [to |-> slot1[g], nr |-> made[g]]
      BY <1>3, <1>4, <2>2 DEF Ahead
    <3>2. e.nr # 1 /\ e.nr - 1 = made[g]
      BY <1>1, <2>2
    <3> QED
      BY <3>1, <3>2 DEF Follows
  <2> QED
    BY <2>1, <2>2
<1>6. e \in Increments
  BY <1>2, SizeAssumption DEF Increments, Types, TaskOK
<1> HIDE DEF e, q
<1>7. /\ Len(queue'[g]) = n + 1 /\ queue'[g][n + 1] = e
      /\ \A i \in 1 .. n : queue'[g][i] = q[i]
      /\ queue'[g] # <<>>
  BY <1>1, <1>2, <1>6
<1>8. q = <<>> <=> n = 0
  BY <1>1
<1>9. Queued(g)'
  <2>1. Follows(pos[g], queue'[g][1])
    <3>1. CASE n = 0
      BY <1>5, <1>7, <1>8, <3>1 DEF Last, q
    <3>2. CASE n # 0
      BY <1>1, <1>4, <1>7, <1>8, <3>2 DEF Queued, q
    <3> QED
      BY <3>1, <3>2
  <2>2. ASSUME NEW i \in 1 .. n
        PROVE  Follows([to |-> queue'[g][i].to, nr |-> queue'[g][i].nr],
                       queue'[g][i + 1])
    <3>1. CASE i = n
      <4>1. Last(g) = [to |-> q[n].to, nr |-> q[n].nr]
        BY <1>1, <1>8, <3>1 DEF Last, q
      <4> QED
        BY <1>5, <1>7, <3>1, <4>1
    <3>2. CASE i # n
      <4>1. i \in 1 .. n - 1 /\ i + 1 \in 1 .. n
        BY <1>1, <3>2
      <4>2. Follows([to |-> q[i].to, nr |-> q[i].nr], q[i + 1])
        BY <1>4, <4>1 DEF Queued, q
      <4> QED
        BY <1>7, <4>1, <4>2
    <3> QED
      BY <3>1, <3>2
  <2>3. 1 .. Len(queue'[g]) - 1 = 1 .. n
    BY <1>1, <1>7
  <2> QED
    BY <1>2, <2>1, <2>2, <2>3 DEF Queued, Follows, Leads
<1>10. Last(g)' = [to |-> slot1[g], nr |-> made[g] + 1]
  BY <1>7 DEF Last, e
<1>11. Ahead(g)'
  BY <1>1, <1>2, <1>3, <1>4, <1>10 DEF Ahead
<1> QED
  BY <1>2, <1>3, <1>9, <1>11 DEF Good

(* The robot makes the oldest increment of the queue.                      *)
LEMMA GoodOfCycle ==
  ASSUME Types, NEW g \in Groups, Good(g), IncCycle, job = "waiting"
  PROVE  Good(g)'
<1> DEFINE q == queue[g]
           n == Len(q)
<1>1. q \in Seq(Increments) /\ n \in Nat /\ (q = <<>> <=> n = 0)
  BY DEF Types
<1>2. /\ hasData' = hasData /\ UNCHANGED slots
      /\ add' = add /\ made' = made /\ Newest(g)' = Newest(g)
      /\ queue'[g] = IF q = <<>> THEN <<>> ELSE Tail(q)
      /\ pos'[g] = IF q = <<>> THEN pos[g]
                   ELSE [to |-> Head(q).to, nr |-> Head(q).nr]
  BY DEF IncCycle, Newest
<1>3. CASE q = <<>>
  BY <1>2, <1>3, GoodOfOther
<1>4. CASE q # <<>>
  <2> HIDE DEF q
  <2>1. /\ queue'[g] = Tail(q) /\ Len(queue'[g]) = n - 1
        /\ \A i \in 1 .. n - 1 : queue'[g][i] = q[i + 1]
        /\ Head(q) = q[1] /\ n > 0
        /\ queue'[g] = <<>> <=> n = 1
    <3>1. q # <<>>
      BY <1>4 DEF q
    <3>2. queue'[g] = Tail(q)
      BY <1>2, <3>1 DEF q
    <3>3. n > 0 /\ n \in Nat
      BY <1>1, <3>1
    <3>4. Tail(q) \in Seq(Increments) /\ Len(Tail(q)) = n - 1
      BY <1>1, <3>1 DEF q
    <3>5. \A i \in 1 .. n - 1 : Tail(q)[i] = q[i + 1]
      BY <1>1, <3>1, <3>3
    <3>6. Head(q) = q[1]
      BY <1>1, <3>1
    <3>7. Tail(q) = <<>> <=> n = 1
      <4>1. \A s \in Seq(Increments) : s = <<>> <=> Len(s) = 0
        OBVIOUS
      <4>2. Tail(q) = <<>> <=> Len(Tail(q)) = 0
        BY <3>4, <4>1
      <4> QED
        BY <3>3, <3>4, <4>2
    <3> QED
      BY <3>2, <3>3, <3>4, <3>5, <3>6, <3>7
  <2>2. pos'[g] = [to |-> q[1].to, nr |-> q[1].nr]
    BY <1>2, <1>4, <2>1
  <2>3. Queued(g)'
    <3>1. \A i \in 1 .. n - 1 :
            Follows([to |-> q[i].to, nr |-> q[i].nr], q[i + 1])
      BY DEF Good, Queued, q
    <3>2. queue'[g] # <<>> => Follows(pos'[g], queue'[g][1])
      <4>1. queue'[g] # <<>> => 1 \in 1 .. n - 1
        BY <1>1, <2>1
      <4> QED
        BY <2>1, <2>2, <3>1, <4>1
    <3>3. ASSUME NEW i \in 1 .. Len(queue'[g]) - 1
          PROVE  Follows([to |-> queue'[g][i].to, nr |-> queue'[g][i].nr],
                         queue'[g][i + 1])
      <4>1. i \in 1 .. n - 1 /\ i + 1 \in 1 .. n - 1
        BY <1>1, <2>1, <3>3
      <4> QED
        BY <2>1, <3>1, <4>1
    <3> QED
      BY <1>2, <3>2, <3>3 DEF Queued, Follows, Leads
  <2>4. Last(g)' = Last(g)
    <3>1. Last(g) = [to |-> q[n].to, nr |-> q[n].nr]
      BY <1>4 DEF Last, q
    <3>2. CASE n = 1
      BY <2>1, <2>2, <3>1, <3>2 DEF Last
    <3>3. CASE n # 1
      <4>1. n - 1 \in 1 .. n - 1 /\ (n - 1) + 1 = n
        BY <1>1, <2>1, <3>3
      <4>2. queue'[g][n - 1] = q[n]
        BY <2>1, <4>1
      <4> QED
        BY <2>1, <3>1, <3>3, <4>2 DEF Last
    <3> QED
      BY <3>2, <3>3
  <2>5. Ahead(g) => Ahead(g)'
    BY <1>2, <2>4 DEF Ahead, Leads
  <2> QED
    BY <1>2, <2>3, <2>5 DEF Good
<1> QED
  BY <1>3, <1>4

(* While motion is possible, IsMotionReady answers yes at the WAIT.        *)
LEMMA ReadyAtWait ==
  ASSUME PossibleOK, possible, job = "waiting"
  PROVE  MotionReady
  BY DEF PossibleOK, MotionReady, ReadyIn

(* The robot, or the last increment queued, is on the way to some point.   *)
LEMMA LastTyped ==
  ASSUME Types, NEW g \in Groups
  PROVE  Last(g).to \in Nat
<1>1. pos[g].to \in Nat /\ MaxPoints \in Nat
  BY SizeAssumption DEF Types
<1>2. PICK q \in Seq(Increments) : q = queue[g]
  BY DEF Types
<1>3. CASE q # <<>>
  <2>1. q[Len(q)] \in Increments
    BY <1>3
  <2> QED
    BY <1>1, <1>2, <1>3, <2>1 DEF Last, Increments
<1> QED
  BY <1>1, <1>2, <1>3 DEF Last

(* A step of AddToIncQueueProcess.                                         *)
LEMMA GoodOfTask ==
  ASSUME Types, TaskOK, PossibleOK, Live, possible,
         NEW g \in Groups, Good(g), NEW h \in Groups, AddTo(h)
  PROVE  Good(g)'
<1>1. MotionReady /\ mode = "queue"
  BY ReadyAtWait DEF Live
<1>2. /\ UNCHANGED <<pos, mode, k, pc, accepted, fast, early>>
      /\ Newest(g)' = Newest(g)
  BY DEF AddTo, AddTop, AddLoop, AddEnqueue, AddGivesUp, AddAdvance, Newest,
         ZeroPoints
<1>3. CASE h # g
  <2>1. /\ slot0'[g] = slot0[g] /\ slot1'[g] = slot1[g]
        /\ queue'[g] = queue[g] /\ hasData'[g] = hasData[g]
        /\ add'[g] = add[g] /\ made'[g] = made[g]
    BY <1>3 DEF Types, AddTo, AddTop, AddLoop, AddEnqueue, AddGivesUp,
                AddAdvance,
                ZeroPoints, MovePoint
  <2> QED
    BY <1>2, <2>1, GoodOfOther
<1>4. CASE AddEnqueue(g)
  BY <1>4, GoodOfEnqueue
<1>5. ~AddGivesUp(g)
  BY <1>1 DEF AddGivesUp
<1>6. ASSUME queue' = queue PROVE Queued(g)'
  BY <1>2, <1>6, QueuedMore DEF Good
<1>7. ASSUME queue' = queue PROVE Last(g)' = Last(g)
  BY <1>2, <1>7 DEF Last
<1>8. CASE AddTop(g)
  <2>1. /\ hasData[g] /\ slot1[g] # 0 /\ UNCHANGED <<queue, made>>
    BY <1>8 DEF AddTop, HasPoint
  <2>2. CASE ZeroPoints(g)
    <3>1. hasData'[g] = FALSE
      BY <2>2 DEF Types, ZeroPoints
    <3>2. add'[g] \in {"top", "advance"}
      <4>1. \/ add' = add \/ UNCHANGED points
            \/ add' = [add EXCEPT ![g] = "advance"]
        BY <1>8 DEF AddTop
      <4>2. hasData' # hasData
        BY <2>1, <3>1
      <4> QED
        BY <1>8, <4>1, <4>2 DEF Types, AddTop
    <3>3. Ahead(g)'
      BY <3>1 DEF Ahead
    <3> QED
      BY <1>6, <2>1, <3>1, <3>2, <3>3 DEF Good
  <2>3. CASE UNCHANGED points /\ add'[g] = "loop"
    <3>1. Ahead(g) => Ahead(g)'
      BY <1>2, <1>7, <2>1, <2>3 DEF Ahead, Leads
    <3> QED
      BY <1>6, <2>1, <2>3, <3>1 DEF Good
  <2> QED
    BY <1>8, <2>2, <2>3 DEF AddTop, Types
<1>9. CASE AddLoop(g)
  <2>1. /\ UNCHANGED <<queue, made, slot0, slot1, hasData>>
        /\ add[g] = "loop" /\ hasData[g]
        /\ add'[g] = "enqueue" \/ add'[g] = "advance"
    BY <1>9 DEF AddLoop, Types, Good
  <2>2. /\ add'[g] = "advance" => made[g] = Incs \/ slot1[g] \in early
        /\ add'[g] = "enqueue" => slot1[g] \notin early
    <3>1. made[g] \in Nat /\ made[g] <= Incs /\ Incs \in Nat
      BY SizeAssumption DEF Types
    <3>2. add'[g] = IF slot1[g] \notin early /\ made[g] < Incs
                    THEN "enqueue" ELSE "advance"
      BY <1>1, <1>9 DEF AddLoop, Types
    <3> QED
      BY <3>1, <3>2
  <2>3. Ahead(g) => Ahead(g)'
    BY <1>2, <1>7, <2>1, <2>2 DEF Ahead, Leads
  <2> QED
    BY <1>6, <2>1, <2>3 DEF Good
<1>10. CASE AddAdvance(g)
  <2>1. /\ UNCHANGED <<queue, hasData>> /\ add'[g] = "top" /\ made'[g] = 0
        /\ slot0'[g] = slot1[g] /\ slot1'[g] = 0 /\ add[g] = "advance"
    BY <1>1, <1>10 DEF AddAdvance, Types, MovePoint
  <2>2. /\ Incs # 0 /\ Incs \in Nat /\ made[g] \in Nat
        /\ slot0[g] \in Nat /\ slot1[g] \in Nat
    BY SizeAssumption DEF Types
  <2>3. ASSUME Ahead(g), hasData[g] PROVE Leads(Last(g), slot1[g])
    <3>1. slot1[g] = slot0[g] + 1 /\ slot1[g] # 0
      BY <2>1, <2>3 DEF Ahead
    <3>2. CASE made[g] # 0
      <4>1. Last(g) = [to |-> slot1[g], nr |-> Incs]
        BY <2>1, <2>3, <3>2 DEF Ahead
      <4> QED
        BY <2>2, <4>1 DEF Leads
    <3>3. CASE made[g] = 0
      <4>1. Leads(Last(g), slot0[g]) /\ slot1[g] \in early
        BY <2>1, <2>2, <2>3, <3>3 DEF Ahead
      <4>2. Last(g).to \in Nat
        BY LastTyped
      <4> QED
        BY <2>2, <3>1, <4>1, <4>2 DEF Leads
    <3> QED
      BY <3>2, <3>3
  <2>4. Ahead(g) => Ahead(g)'
    BY <1>2, <1>7, <2>1, <2>3 DEF Ahead, Leads
  <2> QED
    BY <1>6, <2>1, <2>4 DEF Good
<1> QED
  BY <1>3, <1>4, <1>5, <1>8, <1>9, <1>10 DEF AddTo

(* A first point is where the robot is.                                    *)
LEMMA GoodOfInit ==
  ASSUME Types, TaskOK, ServiceOK, FirstPoint,
         NEW g \in Groups, Good(g), InitZero \/ InitGroup \/ InitFails
  PROVE  Good(g)'
<1>1. /\ ~hasData[g] \/ pc["exec"] = "group"
      /\ add[g] = "top" /\ queue[g] = <<>> /\ made[g] = 0
      /\ pc["exec"] \in {"zero", "group"}
      /\ UNCHANGED <<tasks, queue, accepted>>
  BY DEF InitZero, InitGroup, InitFails, ServiceOK, FirstPoint, TaskOK
<1>2. Queued(g)'
  <2>1. Len(<<>>) = 0
    OBVIOUS
  <2> QED
    BY <1>1, <2>1 DEF Queued
<1>3. CASE InitZero
  <2>1. ~hasData'[g]
    BY <1>1, <1>3 DEF InitZero
  <2>2. Ahead(g)'
    BY <2>1 DEF Ahead
  <2> QED
    BY <1>1, <1>2, <2>2 DEF Good
<1>4. CASE InitFails
  <2>1. ~hasData'[g]
    BY <1>4 DEF InitFails
  <2>2. Ahead(g)'
    BY <2>1 DEF Ahead
  <2> QED
    BY <1>1, <1>2, <2>2 DEF Good
<1>5. CASE InitGroup /\ g = k + 1
  <2>1. slot1[g] = 0
    BY <1>5 DEF InitGroup, ServiceOK
  <2>2. /\ slot0'[g] = accepted + 1 /\ slot1'[g] = 0
        /\ pos'[g] = [to |-> accepted + 1, nr |-> Incs]
        /\ pc'["exec"] = "group" /\ k' = g
    BY <1>5, <2>1 DEF InitGroup, Types
  <2>3. Newest(g)' = accepted + 1
    BY <1>1, <2>2 DEF Newest, Groups
  <2>4. Leads(Last(g), slot0[g])'
    BY <1>1, <2>2, <2>3, SizeAssumption DEF Leads, Last, Types
  <2>5. early' \subseteq 1 .. MaxPoints /\ 0 \notin 1 .. MaxPoints
    BY <1>5 DEF InitGroup, Types
  <2>6. Ahead(g)'
    BY <1>1, <2>2, <2>3, <2>4, <2>5 DEF Ahead
  <2> QED
    BY <1>1, <1>2, <2>6 DEF Good
<1>6. CASE InitGroup /\ g # k + 1
  <2>1. /\ slot0'[g] = slot0[g] /\ slot1' = slot1 /\ hasData'[g] = hasData[g]
        /\ pos'[g] = pos[g] /\ pc' = pc /\ k' = k + 1 /\ k \in Nat /\ g \in Nat
        /\ early' = early
    BY <1>6 DEF InitGroup, Types, Groups
  <2>2. Newest(g)' = Newest(g)
    BY <1>1, <1>6, <2>1 DEF Newest
  <2> QED
    BY <1>1, <2>1, <2>2, GoodOfOther
<1> QED
  BY <1>3, <1>4, <1>5, <1>6

(* A point is marked for a group that has none, behind the one it has.     *)
LEMMA GoodOfMark ==
  ASSUME Types, TaskOK, ServiceOK, NEW g \in Groups, Good(g), QueueMark
  PROVE  Good(g)'
<1>1. /\ UNCHANGED <<queue, pos, hasData, slot0, tasks, accepted, pc>>
      /\ k' = k + 1 /\ pc["exec"] = "mark" /\ k \in Nat /\ g \in Nat
      /\ accepted \in Nat
  BY DEF QueueMark, Types, Groups
<1>2. /\ early \subseteq early' /\ (k # 0 => early' = early)
      /\ early' \subseteq early \cup {accepted + 1}
  BY DEF QueueMark, PointIsOfKind
<1>3. CASE g # k + 1
  <2>1. slot1'[g] = slot1[g]
    BY <1>3 DEF QueueMark, Types
  <2>2. Newest(g)' = Newest(g)
    BY <1>1, <1>3 DEF Newest
  <2>3. k = 0 => slot1[g] = 0
    BY <1>1 DEF ServiceOK, Groups
  <2>4. slot1[g] \in early' => slot1[g] \in early
    BY <1>1, <1>2, <2>3
  <2> QED
    BY <1>1, <1>2, <2>1, <2>2, <2>4, GoodOfOther
<1>4. CASE g = k + 1
  <2>1. /\ slot1'[g] = accepted + 1 /\ slot1[g] = 0
        /\ Newest(g) = accepted /\ Newest(g)' = accepted + 1
    BY <1>1, <1>4 DEF QueueMark, Types, ServiceOK, Newest
  <2>2. add[g] = "top" => made[g] = 0
    BY DEF TaskOK
  <2>3. Queued(g)'
    BY <1>1, <1>2, QueuedMore DEF Good
  <2>4. Last(g)' = Last(g)
    BY <1>1 DEF Last
  <2>5. Ahead(g) => Ahead(g)'
    BY <1>1, <1>2, <2>1, <2>2, <2>4 DEF Ahead, Leads
  <2> QED
    BY <1>1, <2>3, <2>5 DEF Good
<1> QED
  BY <1>3, <1>4

(* While the robot can move, a refresh of the status clears nothing.       *)
LEMMA NothingCleared ==
  ASSUME JobOK, WaitSeen, Live, possible, Refreshed
  PROVE  UNCHANGED <<hasData, queue>>
<1>1. ~alarm
  BY DEF Live, JobOK
<1>2. out
  BY DEF Live, WaitSeen
<1> QED
  BY <1>1, <1>2 DEF Refreshed

(* A group stays good as long as the robot can move.                       *)
LEMMA GoodKept ==
  ASSUME Types, PlacesOK, TaskOK, JobOK, PossibleOK, ServiceOK, WaitSeen,
         RestartOK, FirstPoint, LiveOK, [Next]_vars,
         Live, Live', possible, NEW g \in Groups
  PROVE  Good(g)'
<1> USE DEF Types, PlacesOK, Stoppers
<1>1. /\ Good(g) /\ mode = "queue" /\ job = "waiting"
      /\ pc["exec"] \notin Restart /\ pc'["exec"] \notin Restart
      /\ mode' = "queue" /\ job' = "waiting"
      /\ pc["inc"] \notin {"poll", "clearq"}
  BY DEF Live, LiveOK
<1>2. g > 0 /\ g \in Nat /\ ~(g <= 0) /\ accepted \in Nat
  BY DEF Groups
<1>3. ASSUME UNCHANGED <<slot0, slot1, early, queue, add, made, pos, hasData>>,
             Newest(g)' = Newest(g)
      PROVE  Good(g)'
  <2>1. add[g] \in {"loop", "enqueue"} => hasData'[g]
    BY <1>1, <1>3 DEF Good
  <2> QED
    BY <1>1, <1>3, <2>1, GoodOfQuiet
<1>4. ASSUME Refreshed, UNCHANGED <<slots, add, made, pos>>,
             Newest(g)' = Newest(g)
      PROVE  Good(g)'
  <2>1. UNCHANGED <<hasData, queue>>
    BY <1>4, NothingCleared
  <2> QED
    BY <1>3, <1>4, <2>1
<1>5. CASE \E m \in {"trajectory", "queue"} : StartRequest(m)
  <2>1. Newest(g)' = Newest(g)
    BY <1>5 DEF StartRequest, Newest
  <2> QED
    BY <1>3, <1>5, <2>1 DEF StartRequest
<1>6. CASE StopRequest \/ ResetRequest \/ NoRequest
  <2>1. Newest(g)' = Newest(g)
    BY <1>6 DEF StopRequest, ResetRequest, NoRequest, Newest
  <2> QED
    BY <1>3, <1>6, <2>1 DEF StopRequest, ResetRequest, NoRequest
<1>7. CASE QueueRequest
  <2>1. Newest(g)' = Newest(g)
    BY <1>2, <1>7 DEF QueueRequest, Newest
  <2> QED
    BY <1>3, <1>7, <2>1 DEF QueueRequest
<1>8. CASE StartUpdate \/ StartPowered
  <2>1. /\ Refreshed /\ UNCHANGED <<slots, add, made, pos>>
        /\ Newest(g)' = Newest(g)
    BY <1>8, RefreshFacts DEF StartUpdate, StartPowered, Newest
  <2> QED
    BY <1>4, <2>1
<1>9. CASE StartTests \/ StartPower
  <2>1. Newest(g)' = Newest(g)
    BY <1>9 DEF StartTests, StartPower, Newest
  <2> QED
    BY <1>3, <1>9, <2>1 DEF StartTests, StartPower
<1>10. ~(StartClear \/ StartJob \/ StartAwait \/ StartEnd \/ StartCheck)
  BY <1>1 DEF StartClear, StartJob, StartAwait, StartEnd, StartCheck, Restart,
              Prepare, RestartOK
<1>11. ~\E t \in Stoppers : Stop(t)
  BY <1>1 DEF Stop, StopRaise, StopPoll, StopTimesOut, StopClear, JobStops,
              ServiceOK
<1>12. ~StopReply
  BY <1>1 DEF StopReply, ServiceOK
<1>13. CASE Validate
  <2>1. Newest(g)' = Newest(g)
    BY <1>13 DEF Validate, Newest
  <2> QED
    BY <1>3, <1>13, <2>1 DEF Validate
<1>14. CASE InitZero \/ InitGroup \/ InitFails
  BY <1>1, <1>14, GoodOfInit
<1>15. CASE QueueMark
  BY <1>1, <1>15, GoodOfMark
<1>16. CASE InitDone \/ QueueRefused \/ QueueMarked
  <2>1. Newest(g)' = Newest(g)
    <3>1. pc'["exec"] = "validate" /\ Newest(g)' = accepted'
      BY <1>16 DEF InitDone, QueueRefused, QueueMarked, Newest
    <3>2. CASE QueueRefused
      BY <1>2, <3>1, <3>2 DEF QueueRefused, Newest
    <3>3. CASE InitDone \/ QueueMarked
      <4>1. k = NumGroups
        BY <3>3 DEF InitDone, QueueMarked
      <4>2. g <= k
        BY <4>1, SizeAssumption DEF Groups
      <4> QED
        BY <3>1, <3>3, <4>2 DEF InitDone, QueueMarked, Newest
    <3> QED
      BY <1>16, <3>2, <3>3
  <2> QED
    BY <1>3, <1>16, <2>1 DEF InitDone, QueueRefused, QueueMarked
<1>17. CASE ResetUpdate \/ IncRejected \/ StatusTask
  <2>1. /\ Refreshed /\ UNCHANGED <<slots, add, made, pos>>
        /\ Newest(g)' = Newest(g)
    BY <1>17, RefreshFacts DEF ResetUpdate, IncRejected, StatusTask, Newest
  <2> QED
    BY <1>4, <2>1
<1>18. CASE IncCycle
  BY <1>1, <1>18, GoodOfCycle
<1>19. CASE \E h \in Groups : AddTo(h)
  BY <1>1, <1>19, GoodOfTask
<1>20. ~Job /\ ~Loss
  BY <1>1 DEF Job, JobOff, JobOn, Loss, JobStops
<1>21. CASE OperatorRepairs \/ UNCHANGED vars
  <2>1. Newest(g)' = Newest(g)
    BY <1>21 DEF OperatorRepairs, vars, Newest
  <2> QED
    BY <1>3, <1>21, <2>1 DEF OperatorRepairs, vars
<1> QED
  BY <1>5, <1>6, <1>7, <1>8, <1>9, <1>10, <1>11, <1>12, <1>13, <1>14, <1>15,
     <1>16, <1>17, <1>18, <1>19, <1>20, <1>21, StepCases DEF Start, QueuePoint

(* The robot comes to move in point queue mode only through StartCheck.    *)
LEMMA LiveSteps ==
  ASSUME Types, PlacesOK, JobOK, [Next]_vars, ~Live, Live'
  PROVE  StartCheck /\ job = "waiting"
<1> USE DEF Types, PlacesOK, Stoppers
<1>1. /\ mode' = "queue" /\ job' = "waiting" /\ pc'["exec"] \notin Restart
  BY DEF Live
<1>2. mode = "queue" \/ StartCheck
  BY <1>1, ModeSteps DEF StopReply, Validate, Ros_MotionControl_StopTrajMode
<1>3. job = "waiting"
  <2>1. ~(JobOn /\ pc["exec"] \in Restart)
    BY <1>1 DEF JobOn
  <2>2. ~(OperatorRepairs /\ job = "held" /\ noticed)
    BY <1>1 DEF OperatorRepairs, JobOK
  <2> QED
    BY <1>1, <2>1, <2>2, JobSteps
<1>4. CASE mode = "queue"
  <2>1. pc["exec"] \in Restart
    BY <1>3, <1>4 DEF Live
  <2>2. pc["exec"] \in Starts
    BY <2>1 DEF Starts
  <2>3. ~(Stop("inc") \/ IncRejected \/ StatusTask \/ IncCycle)
    BY <1>1, <2>1
       DEF Stop, StopRaise, StopPoll, StopTimesOut, StopClear, IncRejected,
           StatusTask, IncCycle
  <2>4. ~(\/ \E g \in Groups : AddTo(g)
          \/ Job \/ Loss \/ OperatorRepairs \/ UNCHANGED vars)
    BY <1>1, <2>1
       DEF AddTo, AddTop, AddLoop, AddEnqueue, AddGivesUp, AddAdvance, Job,
           JobOff, JobOn, Loss, OperatorRepairs, vars
  <2>5. Start
    BY <2>2, <2>3, <2>4, StartingSteps
  <2> QED
    BY <1>1, <1>3, <2>1, <2>5
       DEF Start, StartUpdate, StartTests, StartPower, StartPowered,
           StartClear, StartJob, StartAwait, StartEnd, Restart
<1> QED
  BY <1>2, <1>3, <1>4

(* Every step keeps what holds while the robot can move.                   *)
LEMMA LiveKept ==
  ASSUME Types, PlacesOK, TaskOK, JobOK, PossibleOK, ServiceOK, WaitSeen,
         RestartOK, FirstPoint, OtherModes, LiveOK, [Next]_vars
  PROVE  LiveOK'
<1> USE DEF Types, PlacesOK, Stoppers
<1> SUFFICES ASSUME Live'
             PROVE  /\ \/ possible'
                       \/ pc'["exec"] = "validate" /\ NoWork'
                    /\ pc'["inc"] \notin {"poll", "clearq"}
                    /\ \A g \in Groups : Good(g)'
  BY DEF LiveOK
<1>1. CASE ~Live
  <2>1. StartCheck /\ job = "waiting"
    BY <1>1, LiveSteps
  <2>2. pc'["exec"] = "validate" /\ pc'["inc"] \notin {"poll", "clearq"}
    BY <2>1 DEF StartCheck, Slept200
  <2>3. NoWork
    <3>1. CASE MotionReady
      <4>1. want = "queue"
        BY <2>1, <3>1 DEF StartCheck, Live
      <4> QED
        BY <2>1, <3>1, <4>1, StartedClean
    <3>2. CASE ~MotionReady
      <4>1. mode = "queue" /\ pc["exec"] = "check" /\ power
        BY <2>1, <3>2 DEF StartCheck, Live, JobOK
      <4>2. ~Unclean /\ \A g \in Groups : Idle(g)
        BY <2>1, <4>1 DEF RestartOK, NeverStarts, Restart
      <4> QED
        BY <4>2 DEF NoWork, Idle, Unclean
    <3> QED
      BY <3>1, <3>2
  <2>4. NoWork'
    BY <2>1, <2>3, NoWorkKept DEF StartCheck, InitGroup
  <2> QED
    BY <2>2, <2>4, GoodOfNoWork
<1>2. CASE Live
  <2>1. pc'["inc"] \notin {"poll", "clearq"}
    BY <1>2, PlaceSteps DEF LiveOK, Live, StopRaise, JobStops
  <2>2. CASE possible
    <3>1. possible'
      <4>1. out /\ ~alarm /\ power /\ remote /\ job = "waiting"
        BY <1>2, <2>2 DEF Live, JobOK, WaitSeen
      <4>2. ~bMpIncMoveError
        BY <2>2, <4>1 DEF PossibleOK
      <4> QED
        BY <2>2, <4>1, <4>2, StatusSteps DEF Refreshed
    <3>2. \A g \in Groups : Good(g)'
      BY <1>2, <2>2, GoodKept
    <3> QED
      BY <2>1, <3>1, <3>2
  <2>3. CASE ~possible
    <3>1. pc["exec"] = "validate" /\ NoWork /\ mode = "queue"
      BY <1>2, <2>3 DEF LiveOK, Live
    <3>2. ~Validate
      BY <2>3, <3>1
         DEF Validate, ModeMustEnd, Ros_MotionControl_StopTrajMode, Live
    <3>3. pc'["exec"] = "validate"
      BY <3>1, <3>2, PlaceSteps
    <3>4. NoWork'
      BY <3>1, NoWorkKept DEF InitGroup
    <3> QED
      BY <2>1, <3>3, <3>4, GoodOfNoWork
  <2> QED
    BY <2>2, <2>3
<1> QED
  BY <1>1, <1>2

(* The initial state.                                                      *)
LEMMA InitIInv ==
  ASSUME Init
  PROVE  IInv
<1> USE DEF Init
<1>1. Types
  <2>1. /\ "good" \in Kinds /\ 0 \in 0 .. MaxPoints /\ 0 \in 0 .. Incs
        /\ 0 \in 0 .. NumGroups
    BY SizeAssumption
  <2>2. status \in Statuses
    <3>1. status =
            [alarm |-> alarm, remote |-> remote, power |-> power,
             waitingRos |-> out,
             operating |-> job \in {"other", "starting", "timer", "waiting"}]
      BY DEF RealStatus
    <3>2. /\ alarm \in BOOLEAN /\ remote \in BOOLEAN /\ power \in BOOLEAN
          /\ out \in BOOLEAN
      OBVIOUS
    <3> QED
      BY <3>1, <3>2 DEF Statuses
  <2>3. queue \in [Groups -> Seq(Increments)]
    OBVIOUS
  <2>4. pos \in [Groups -> [to : 0 .. MaxPoints, nr : 0 .. Incs]]
    BY <2>1
  <2> QED
    BY <2>1, <2>2, <2>3, <2>4 DEF Types
<1>2. PlacesOK
  BY DEF PlacesOK, Stoppers, ExecPlaces, IncPlaces
<1>3. TaskOK
  <2>1. Len(<<>>) = 0
    OBVIOUS
  <2> QED
    BY <2>1, SizeAssumption DEF TaskOK, Stoppers
<1>4. JobOK /\ PossibleOK
  BY DEF JobOK, PossibleOK, RealStatus
<1>5. ServiceOK /\ WaitSeen /\ RestartOK
  BY DEF ServiceOK, WaitSeen, RestartOK, Stoppers, Starts, Prepare, Restart
<1>6. FirstPoint /\ OtherModes /\ LiveOK
  BY DEF FirstPoint, OtherModes, LiveOK, Live
<1> QED
  BY <1>1, <1>2, <1>3, <1>4, <1>5, <1>6 DEF IInv

(* Every step keeps the invariant.                                         *)
LEMMA NextIInv ==
  ASSUME IInv, [Next]_vars
  PROVE  IInv'
<1> USE DEF IInv
<1>1. Types' /\ PlacesOK' /\ TaskOK'
  BY TypesKept, PlacesKept, TasksKept
<1>2. JobOK' /\ PossibleOK' /\ ServiceOK'
  BY JobKept, PossibleKept, ServiceKept
<1>3. WaitSeen' /\ RestartOK'
  BY WaitKept, RestartKept
<1>4. FirstPoint' /\ OtherModes' /\ LiveOK'
  BY FirstKept, OtherKept, LiveKept
<1> QED
  BY <1>1, <1>2, <1>3, <1>4

(* The inductive invariant of the modes.                                   *)
THEOREM Invariance == Spec => []IInv
<1>1. Init => IInv
  BY InitIInv
<1>2. IInv /\ [Next]_vars => IInv'
  BY NextIInv
<1> QED
  BY <1>1, <1>2, PTL DEF Spec

(* Every variable keeps its type: queues hold QSize increments at most.    *)
THEOREM TypeCorrect == Spec => []TypeOK
<1>1. IInv => TypeOK
  BY DEF IInv, Types, TaskOK, TypeOK
<1> QED
  BY <1>1, Invariance, PTL

(* When point queue mode has been started, nothing of an earlier mode is   *)
(* left, whatever was lost on the way: the first point is not refused, and *)
(* no increment waits for the job (Ros_MotionControl_StartMotionMode).     *)
THEOREM StartsAreClean == Spec => []StartsClean
<1>1. IInv => StartsClean
  BY DEF IInv, FirstPoint, StartsClean, HasDataToProcess, HasDataInQueue
<1> QED
  BY <1>1, Invariance, PTL

(* The robot makes an increment only where it stands, and the segments     *)
(* lead through all points accepted in their order; the one way to jump is *)
(* to a point accepted not later than the one before, to which no          *)
(* increment is made (AddToIncQueueProcess).                               *)
THEOREM Continuity == Spec => Continuous
<1>1. ASSUME IInv, IncCycle, job = "waiting", NEW g \in Groups,
             queue[g] # <<>>
      PROVE  Follows(pos[g], Head(queue[g]))
  <2> USE <1>1 DEF IInv
  <2>1. MotionReady /\ ~NoWork
    BY DEF IncCycle, NoWork
  <2>2. mode = "queue"
    BY <2>1 DEF OtherModes, MotionReady, ReadyIn, Types
  <2>3. pc["exec"] \notin Restart
    <3>1. ASSUME pc["exec"] \in Restart PROVE \A h \in Groups : Idle(h)
      BY <3>1 DEF RestartOK, NeverStarts, JobOK
    <3> QED
      BY <3>1 DEF Idle
  <2>4. Queued(g)
    BY <2>2, <2>3 DEF LiveOK, Live, Good
  <2>5. Head(queue[g]) = queue[g][1]
    BY DEF Types
  <2> QED
    BY <2>4, <2>5 DEF Queued
<1>2. IInv /\ [Next]_vars =>
        [IncCycle /\ job = "waiting" =>
           \A g \in Groups :
             queue[g] # <<>> => Follows(pos[g], Head(queue[g]))]_vars
  BY <1>1
<1> QED
  BY <1>2, Invariance, PTL DEF Spec, Continuous
=============================================================================
