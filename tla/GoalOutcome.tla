---------------------------- MODULE GoalOutcome ----------------------------
(***************************************************************************)
(* The verdict of Ros_ActionServer_FJT_Goal_Complete(GOAL_COMPLETE) on a   *)
(* trajectory that came to its end: was every joint brought where the last *)
(* point wants it, and in time?  Positions are in units of the default     *)
(* tolerance's fraction, times in units of which 2^IntWidth make the range *)
(* of an int.                                                              *)
(***************************************************************************)
EXTENDS Integers, Sequences, FiniteSets, SequencesExt, FiniteSetsExt

CONSTANTS Joints,           \* configured joints, by their names
          Unknown,          \* a name no joint has
          Positions,        \* positions a joint may be sent to, or be at
          PosTolerances,    \* JointTolerance.position of a request
          DefaultPosition,  \* DEFAULT_FJT_GOAL_POSITION_TOLERANCE
          Times,            \* durations, planned or taken
          TimeTolerances,   \* goal_time_tolerance of a request
          DefaultTime,      \* DEFAULT_FJT_GOAL_TIME_TOLERANCE
          MaxTolerances,    \* bound on the length of goal_tolerance
          IntWidth          \* width of an int, in bits

ASSUME ToleranceAssumption == DefaultPosition > 0 /\ DefaultTime > 0
ASSUME WidthAssumption == IntWidth \in Nat \ {0} /\ Unknown \notin Joints
ASSUME ValueAssumption ==
  /\ IsFiniteSet(Joints) /\ MaxTolerances \in Nat
  /\ Positions \cup PosTolerances \cup {DefaultPosition} \subseteq Int
  /\ Times \cup TimeTolerances \cup {DefaultTime} \subseteq Int

VARIABLES
  goal_tolerance,        \* JointTolerances of the request, in its order
  goal_time_tolerance,
  names, lastPoint,      \* joint_names; positions of the last point, alike
  desiredTime,           \* time_from_start of the last point
  actual,                \* feedback.actual.positions when motion has ended
  totalTime,             \* time since the goal was received
  outcome                \* fjt_result_response, or "executing"

goal == <<goal_tolerance, goal_time_tolerance, names, lastPoint, desiredTime>>
vars == <<goal, actual, totalTime, outcome>>

Abs(x) == IF x < 0 THEN -x ELSE x

(* The value an int keeps of a wider integer, and abs() of it: abs of the  *)
(* smallest int is that int again.                                         *)
IntHalf == 2 ^ (IntWidth - 1)
AsInt(x) == ((x + IntHalf) % (2 * IntHalf)) - IntHalf
AbsInt(x) == AsInt(Abs(AsInt(x)))
-----------------------------------------------------------------------------

(* Parse_GoalPosTolerances: names no joint has are passed over.            *)
Setting(tol, t) ==
  IF t.name \in Joints THEN [tol EXCEPT ![t.name] = t.position] ELSE tol

PosTolerance ==
  FoldLeft(Setting, [n \in Joints |-> DefaultPosition], goal_tolerance)

(* Reorder_TrajPt_To_Internal_Order.                                       *)
LastTrajPtPosition(n) ==
  lastPoint[CHOOSE k \in DOMAIN names : names[k] = n]

(* 0 is no tolerance given: the default; negative: any position will do.   *)
PositionOk(n) ==
  LET tol == IF PosTolerance[n] = 0 THEN DefaultPosition ELSE PosTolerance[n]
  IN  tol > 0 => Abs(LastTrajPtPosition(n) - actual[n]) <= tol

TimeOkZeroIsExact == AbsInt(desiredTime - totalTime) <= goal_time_tolerance

TimeOk ==
  AbsInt(desiredTime - totalTime)
    <= (IF goal_time_tolerance = 0 THEN DefaultTime ELSE goal_time_tolerance)

(* Parsing and reordering succeed for a trajectory that was accepted.      *)
GoalComplete ==
  /\ outcome = "executing"
  /\ outcome' = IF \E n \in Joints : ~PositionOk(n) THEN "FAIL_TRAJ_POSITION"
                ELSE IF ~TimeOk THEN "FAIL_TRAJ_TIME"
                ELSE "SUCCEEDED"
  /\ UNCHANGED <<goal, actual, totalTime>>

JointOrders == {p \in [1 .. Cardinality(Joints) -> Joints] :
                  \A k, l \in DOMAIN p : p[k] = p[l] => k = l}

Init ==
  /\ goal_tolerance \in SeqOf([name : Joints \cup {Unknown},
                               position : PosTolerances], MaxTolerances)
  /\ goal_time_tolerance \in TimeTolerances
  /\ names \in JointOrders
  /\ lastPoint \in [1 .. Cardinality(Joints) -> Positions]
  /\ desiredTime \in Times
  /\ actual \in [Joints -> Positions]
  /\ totalTime \in Times
  /\ outcome = "executing"

Next == GoalComplete

Spec == Init /\ [][Next]_vars
-----------------------------------------------------------------------------
(* The tolerance a request asks for: that of the last entry with the name  *)
(* of the joint.                                                           *)
Asked(n) ==
  LET entries == {k \in DOMAIN goal_tolerance : goal_tolerance[k].name = n}
  IN  IF entries = {} THEN 0 ELSE goal_tolerance[Max(entries)].position

Reached(n) ==
  \A k \in DOMAIN names : names[k] = n =>
    \/ Asked(n) < 0
    \/ Abs(lastPoint[k] - actual[n]) <= (IF Asked(n) = 0 THEN DefaultPosition
                                         ELSE Asked(n))

InTime ==
  Abs(desiredTime - totalTime)
    <= (IF goal_time_tolerance = 0 THEN DefaultTime ELSE goal_time_tolerance)

(* As long as the two durations are less than half the range of an int     *)
(* apart (2.1 s in nanoseconds), a goal is reported to have succeeded just *)
(* when every joint reached its target and in time; else the report names  *)
(* the failure, a wrong position before a wrong time.                      *)
VerdictExact ==
  outcome # "executing" /\ Abs(desiredTime - totalTime) < IntHalf
    => outcome = IF \E n \in Joints : ~Reached(n) THEN "FAIL_TRAJ_POSITION"
                 ELSE IF InTime THEN "SUCCEEDED" ELSE "FAIL_TRAJ_TIME"
=============================================================================
