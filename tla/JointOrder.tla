----------------------------- MODULE JointOrder -----------------------------
(***************************************************************************)
(* The two orders in which the axes of a control group are counted         *)
(* (CtrlGroup.c:500-716): the moto order of the controller, with a slot    *)
(* for each of MAX_PULSE_AXES axes and gaps where a robot has none, and    *)
(* the sequential order of ROS, which is that of the links of the arm.     *)
(*   6 axes SLURBT   7 axes SLURBTE > SLEURBT   delta SLU--T > SLUT        *)
(* A position in ROS units is the rational <<pulses, pulses per unit>>.    *)
(***************************************************************************)
EXTENDS Integers, FiniteSets

CONSTANTS MAX_PULSE_AXES,      \* slots of a group, MP_GRP_AXES_NUM as well
          PulseToRad, PulseToMeter  \* pulses per radian and per meter, by axis

Axes == 0 .. MAX_PULSE_AXES - 1

ASSUME AxesAssumption == MAX_PULSE_AXES \in Nat /\ MAX_PULSE_AXES >= 7
ASSUME RatioAssumption ==
  PulseToRad \in [Axes -> Nat \ {0}] /\ PulseToMeter \in [Axes -> Nat \ {0}]

(* A group g says whether its id is one of R1..R8 (robot), its number of   *)
(* axes, and the axisType of each of its slots: "rotation", "linear" or    *)
(* "invalid".                                                              *)
IsRobot(g) == g.robot
IsInvalidAxis(g, a) == g.axisType[a] = "invalid"
ValidAxes(g) == {a \in Axes : ~IsInvalidAxis(g, a)}

SevenAxes(g) == g.numAxes = 7 /\ IsRobot(g)
HasGaps(g) == IsRobot(g) /\ g.numAxes < 6

(* A group as a controller describes it: numAxes, which it says apart from *)
(* what each axis can do, counts the valid ones, and only a robot of fewer *)
(* than six has gaps between them.                                         *)
Layout(g) ==
  /\ g.axisType \in [Axes -> {"rotation", "linear", "invalid"}]
  /\ g.robot \in BOOLEAN
  /\ g.numAxes = Cardinality(ValidAxes(g))
  /\ HasGaps(g) \/ ValidAxes(g) = 0 .. g.numAxes - 1

(* The axis after k valid ones: where the scan over a robot with gaps      *)
(* stands in its turn k.                                                   *)
ValidAxis(g, k) ==
  CHOOSE a \in ValidAxes(g) : Cardinality({b \in ValidAxes(g) : b < a}) = k

Joints(g) == 0 .. g.numAxes - 1

(* The axis that place i of the sequential order stands for.               *)
AxisOfJoint(g, i) ==
  IF SevenAxes(g) THEN IF i < 2 THEN i ELSE IF i = 2 THEN 6 ELSE i - 1
  ELSE IF HasGaps(g) THEN ValidAxis(g, i) ELSE i

(* The axes that are given a value; the others keep the 0 of bzero.        *)
JointOfAxis(g, a) == CHOOSE i \in Joints(g) : AxisOfJoint(g, i) = a
HasJoint(g, a) == \E i \in Joints(g) : AxisOfJoint(g, i) = a

MotoToSequential(g, moto) == [i \in Joints(g) |-> moto[AxisOfJoint(g, i)]]
SequentialToMoto(g, ros, zero) ==
  [a \in Axes |-> IF HasJoint(g, a) THEN ros[JointOfAxis(g, a)] ELSE zero]

Conversion(g, a) ==
  IF g.axisType[a] = "rotation" THEN PulseToRad[a] ELSE PulseToMeter[a]

MotoUnitsToRosUnits(g, pulses) ==
  [a \in Axes |-> IF IsInvalidAxis(g, a) THEN <<0, 1>>
                  ELSE <<pulses[a], Conversion(g, a)>>]
(* The cast to int drops the fraction of a positive or negative number.    *)
Truncated(n, d) == IF n >= 0 THEN n \div d ELSE -((-n) \div d)
RosUnitsToMotoUnits(g, pos) ==
  [a \in Axes |-> IF IsInvalidAxis(g, a) THEN 0
                  ELSE Truncated(pos[a][1] * Conversion(g, a), pos[a][2])]

ConvertToRosPos(g, pulses) ==
  MotoToSequential(g, MotoUnitsToRosUnits(g, pulses))
ConvertToMotoPos(g, pos) ==
  RosUnitsToMotoUnits(g, SequentialToMoto(g, pos, <<0, 1>>))

(* The B axis of a slave (SLU-BT) is moved by the controller along with L  *)
(* and U, for which the program makes up: axis 4 in moto order, joint 3 in *)
(* that of ROS, by axes 1 and 2 in both.                                   *)
Plus(x, y) == <<x[1] * y[2] + y[1] * x[2], x[2] * y[2]>>
Minus(x, y) == <<x[1] * y[2] - y[1] * x[2], x[2] * y[2]>>
Compensated(g, pos, b) ==
  IF g.bIsBaxisSlave THEN [pos EXCEPT ![b] = Plus(Minus(@, pos[1]), pos[2])]
  ELSE pos

BAxis == 4
BJoint == 3

(* Ros_CtrlGroup_GetPulsePosCmd, the pulses being the command position.    *)
GetPulsePosCmd(g, pulses) ==
  IF g.bIsBaxisSlave
    THEN ConvertToMotoPos(g, Compensated(g, ConvertToRosPos(g, pulses), BJoint))
    ELSE pulses
=============================================================================
