-------------------------- MODULE TrajectoryCheck --------------------------
(***************************************************************************)
(* What Ros_MotionControl_Init accepts, and how AddToIncQueueProcess then  *)
(* walks through the accepted points.  A request names its joints in any   *)
(* order; its points are checked and copied into the buffers of the groups *)
(* joint by joint, so a request may be turned down half way; the walk ends *)
(* on a point that is not valid or at the end of the array.                *)
(***************************************************************************)
EXTENDS Integers, Sequences, FiniteSets, SequencesExt

CONSTANTS Joints,      \* joint names of the configuration
          GroupOf,     \* the control group each of them belongs to
          Unknown,     \* a joint name that is not configured
          MaxPoints,   \* MAX_NUMBER_OF_POINTS_PER_TRAJECTORY
          Stamps       \* time_from_start a point may carry (ms)

ASSUME JointAssumption ==
  /\ IsFiniteSet(Joints) /\ Joints # {} /\ Unknown \notin Joints
  /\ GroupOf \in [Joints -> Nat]
ASSUME PointAssumption == MaxPoints \in Nat \ {0, 1} /\ Stamps \subseteq Int

VARIABLES
  mode,      \* Ros_MotionControl_ActiveMotionMode
  names,     \* joint_names of the request
  times,     \* time_from_start of its points
  lacks,     \* what some point has not got for every axis, if anything
  restless,  \* the joints whose velocity at the last point is not zero
  off,       \* the groups away from their start position, or too fast there
  j, i,      \* jointIndexInTraj; point being converted
  buf,       \* trajectoryToProcess: times, and whose position is stored
  ready,     \* the groups with valid points and hasDataToProcess
  iter,      \* trajectoryIterator of each group
  verdict    \* INIT_TRAJ_xxx, or "checking"

request == <<mode, names, times, lacks, restless, off>>
vars == <<request, j, i, buf, ready, iter, verdict>>

Groups == {GroupOf[n] : n \in Joints}
TotalAxes == Cardinality(Joints)
NumPoints == Len(times)
Slots == 0 .. MaxPoints - 1        \* indices of trajectoryToProcess
Zeroed == [time |-> 0, pos |-> [n \in Joints |-> Unknown]]
-----------------------------------------------------------------------------
Reject(v) ==
  /\ verdict' = v
  /\ UNCHANGED <<request, j, i, buf, ready, iter>>

AtSizes == verdict = "checking" /\ j = 0
AtJoint == verdict = "checking" /\ j \in 1 .. Len(names) /\ i = 0
AtPoint == verdict = "checking" /\ j \in 1 .. Len(names) /\ i > 0
AtGroups == verdict = "checking" /\ j > Len(names)

(* A trajectory needs two points (InitTrajectory; the point queue sends    *)
(* one), all joints, and a position and velocity for each at every point.  *)
CheckSizes ==
  /\ AtSizes
  /\ \/ /\ mode = "trajectory" /\ NumPoints < 2 /\ Reject("TOO_SMALL")
     \/ /\ mode = "trajectory" => NumPoints >= 2
        /\ IF Len(names) # TotalAxes THEN Reject("INCOMPLETE_JOINTLIST")
           ELSE IF lacks # "nothing" THEN Reject("WRONG_NUMBER")
           ELSE j' = 1 /\ UNCHANGED <<request, i, buf, ready, iter, verdict>>

RepeatedLater(k) == \E l \in k + 1 .. Len(names) : names[l] = names[k]

CheckJoint ==
  /\ AtJoint
  /\ IF RepeatedLater(j) THEN Reject("DUPLICATE_JOINT_NAME")
     ELSE IF names[j] \notin Joints THEN Reject("INVALID_JOINTNAME")
     ELSE i' = 1 /\ UNCHANGED <<request, j, buf, ready, iter, verdict>>

BackwardAtPoint(g) == i > 2 /\ times[i] < buf[g][i - 2].time

(* Point i of the request (from 1) goes to slot i - 1.                     *)
Backward(g) == i > 1 /\ times[i] < buf[g][i - 2].time

MovingAtEnd ==
  mode = "trajectory" /\ i = NumPoints /\ names[j] \in restless

NextPointStopsEarly ==
  IF i < NumPoints - 1 THEN i' = i + 1 /\ j' = j ELSE i' = 0 /\ j' = j + 1

NextPoint == IF i < NumPoints THEN i' = i + 1 /\ j' = j ELSE i' = 0 /\ j' = j + 1

(* ConvertTrajectoryToJointMotionData: one joint of one point.  The time   *)
(* is stored before it is compared with the point before.                  *)
ConvertPoint ==
  LET g == GroupOf[names[j]]
      timed == [buf EXCEPT ![g][i - 1].time = times[i]]
  IN
  /\ AtPoint
  /\ IF times[i] < 0 \/ (times[i] = 0 /\ i # 1) THEN Reject("INVALID_TIME")
     ELSE /\ IF Backward(g) \/ MovingAtEnd
               THEN /\ verdict' = IF Backward(g) THEN "BACKWARD_TIME"
                                  ELSE "INVALID_ENDING_VELOCITY"
                    /\ buf' = timed
                    /\ UNCHANGED <<i, j>>
               ELSE /\ NextPoint
                    /\ buf' = [timed EXCEPT ![g][i - 1].pos[names[j]] = names[j]]
                    /\ UNCHANGED verdict
          /\ UNCHANGED <<request, ready, iter>>

GroupFailsAlone(g) ==
  /\ ready' = ready \ {g}
  /\ iter' = [iter EXCEPT ![g] = -1]
  /\ buf' = [buf EXCEPT ![g] = [s \in Slots |-> Zeroed]]

(* A group that may not start takes back all those made ready before it.   *)
GroupFails(g) ==
  /\ ready' = {}
  /\ iter' = [h \in Groups |-> -1]                  \* NULL
  /\ buf' = [h \in Groups |-> [s \in Slots |-> Zeroed]]

StartGroup(g) ==
  /\ AtGroups
  /\ g \in Groups \ ready /\ \A h \in Groups \ ready : g <= h
  /\ IF g \in off
       THEN GroupFails(g) /\ verdict' = "INVALID_START"
       ELSE /\ ready' = ready \cup {g}
            /\ iter' = [iter EXCEPT ![g] = 1]
            /\ UNCHANGED <<buf, verdict>>
  /\ UNCHANGED <<request, j, i>>

Accept ==
  /\ AtGroups /\ ready = Groups
  /\ verdict' = "OK"
  /\ UNCHANGED <<request, j, i, buf, ready, iter>>
-----------------------------------------------------------------------------
(* The walk of AddToIncQueueProcess in trajectory mode.  One past the      *)
(* array lies hasDataToProcess of the same CtrlGroup, read as the valid    *)
(* field of a point.                                                       *)
ValidBeforeLast(g) == iter[g] < NumPoints - 1

ValidAt(g) == iter[g] < NumPoints \/ (iter[g] = MaxPoints /\ g \in ready)

Finish(g) ==
  /\ buf' = [buf EXCEPT ![g] = [s \in Slots |-> Zeroed]]
  /\ ready' = ready \ {g}
  /\ UNCHANGED iter

Advance(g) ==
  /\ verdict = "OK" /\ mode = "trajectory"
  /\ g \in ready /\ ValidAt(g)
  /\ IF iter[g] = MaxPoints
       THEN Finish(g)
       ELSE iter' = [iter EXCEPT ![g] = @ + 1] /\ UNCHANGED <<buf, ready>>
  /\ UNCHANGED <<request, j, i, verdict>>

NoMorePoints(g) ==
  /\ verdict = "OK" /\ mode = "trajectory"
  /\ g \in ready /\ ~ValidAt(g)
  /\ Finish(g)
  /\ UNCHANGED <<request, j, i, verdict>>
-----------------------------------------------------------------------------
Init ==
  /\ mode \in {"trajectory", "pointqueue"}
  /\ names \in SeqOf(Joints \cup {Unknown}, TotalAxes)
  /\ times \in SeqOf(Stamps, IF mode = "pointqueue" THEN 1 ELSE MaxPoints)
  /\ mode = "pointqueue" => NumPoints = 1
  /\ lacks \in {"nothing", "positions", "velocities"}
  /\ NumPoints = 0 => lacks = "nothing"
  /\ restless \in SUBSET Joints /\ off \in SUBSET Groups
  /\ j = 0 /\ i = 0
  /\ buf = [g \in Groups |-> [s \in Slots |-> Zeroed]]
  /\ ready = {} /\ iter = [g \in Groups |-> -1]
  /\ verdict = "checking"

Next ==
  \/ CheckSizes \/ CheckJoint \/ ConvertPoint \/ Accept
  \/ \E g \in Groups : StartGroup(g) \/ Advance(g) \/ NoMorePoints(g)

Spec == Init /\ [][Next]_vars
-----------------------------------------------------------------------------
(* Variants carry plausible mistakes: a time compared from the third point *)
(* on, a conversion that leaves the last point out, a failed group that    *)
(* leaves the others ready, a walk that ends one point early or not at the *)
(* end of the array.                                                       *)

TypeOK ==
  /\ mode \in {"trajectory", "pointqueue"}
  /\ names \in Seq(Joints \cup {Unknown}) /\ times \in Seq(Stamps)
  /\ j \in 0 .. Len(names) + 1 /\ i \in 0 .. NumPoints
  /\ buf \in [Groups -> [Slots -> [time : Stamps \cup {0},
                                  pos : [Joints -> Joints \cup {Unknown}]]]]
  /\ ready \subseteq Groups
  /\ iter \in [Groups -> -1 .. MaxPoints]
  /\ verdict \in {"checking", "OK", "TOO_SMALL", "INCOMPLETE_JOINTLIST",
                  "WRONG_NUMBER", "DUPLICATE_JOINT_NAME", "INVALID_JOINTNAME",
                  "INVALID_TIME", "BACKWARD_TIME", "INVALID_ENDING_VELOCITY",
                  "INVALID_START"}

(* What a client has to send, said without the order of the checks: every  *)
(* point later than the one before (MotionControl.c:312 and the message at *)
(* 318, "strictly increasing in time" in the answer, ActionServer_FJT.c:   *)
(* 300), but for the points excused.                                       *)
WellFormedBut(excused) ==
  /\ mode = "trajectory" => NumPoints >= 2 /\ restless = {}
  /\ Len(names) = TotalAxes
  /\ \A n \in Joints : \E k \in 1 .. Len(names) : names[k] = n
  /\ lacks = "nothing"
  /\ \A k \in 1 .. NumPoints : times[k] >= (IF k = 1 THEN 0 ELSE 1)
  /\ \A k \in 2 .. NumPoints : times[k - 1] < times[k] \/ k \in excused
  /\ off = {}

WellFormed == WellFormedBut({})

Repeats == {k \in 2 .. NumPoints : times[k] = times[k - 1]}

(* The checks, spread over three functions and made joint by joint against *)
(* a half filled buffer, amount to that definition and one exception: a    *)
(* point with the time of the one before is let through.  Nothing else is  *)
(* accepted, and no well formed request is turned down.                    *)
VerdictExact ==
  verdict # "checking" => (verdict = "OK" <=> WellFormedBut(Repeats))

(* What the comment, the message and the answer to the client say of that  *)
(* exception: only trajectories strictly increasing in time are accepted.  *)
(* The code breaks it: line 316 compares with < where they say "greater".  *)
OnlyWellFormed == verdict = "OK" => WellFormed

(* A group that may run finds in its buffer, at every point, the time of   *)
(* the request and under each of its joints the value sent for that name,  *)
(* in whatever order the request lists them.                               *)
BufferComplete ==
  verdict = "OK" => \A g \in ready, k \in 1 .. NumPoints :
    /\ buf[g][k - 1].time = times[k]
    /\ \A n \in Joints : GroupOf[n] = g => buf[g][k - 1].pos[n] = n

(* A request turned down at any point, even at its last group, leaves no   *)
(* group with something to do.                                             *)
RejectedMovesNothing ==
  verdict \notin {"checking", "OK"} =>
    ready = {} /\ \A g \in Groups : iter[g] = -1

(* No group ends its trajectory before it has gone through the last point, *)
(* so groups that received the same trajectory all execute all of it.      *)
EveryPointWalked ==
  verdict = "OK" => \A g \in Groups \ ready : iter[g] >= NumPoints
=============================================================================
