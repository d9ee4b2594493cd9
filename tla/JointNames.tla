----------------------------- MODULE JointNames -----------------------------
(***************************************************************************)
(* From the names in the configuration file to the axes: control groups    *)
(* are created and named (ControllerStatusIO.c:79-115, CtrlGroup.c:60-233, *)
(* 765-810), the position monitor publishes positions under names          *)
(* (PositionMonitor.c:52-155), and a trajectory finds its axes by name     *)
(* (MotionControl.c:95-135).                                               *)
(***************************************************************************)
EXTENDS ConfigFile, JointOrder, FiniteSetsExt

CONSTANTS Controllers,   \* parameters of the groups a controller may have
          Pulses         \* a position in pulses for each axis

VARIABLES
  controller,              \* its groups by their parameters, <<>> before they are read
  ctrlGroups,              \* indices of the groups created, in order
  jointNames_userDefined,  \* by group and axis
  bShouldSetJointNamesToDefaultValues, bInitOk,
  names                    \* jointStateAllGroups->name, by group

groupVars == <<ctrlGroups, jointNames_userDefined,
               bShouldSetJointNamesToDefaultValues, bInitOk>>
nameVars == <<configVars, controller, groupVars, names>>

(* Ros_CtrlGroup_Create: a group as its parameters have it; an axis that   *)
(* can make no increment is taken for a gap.                               *)
RobotIds == {"R1", "R2", "R3", "R4", "R5", "R6", "R7", "R8"}
Created(p) ==
  [id |-> p.id, robot |-> p.id \in RobotIds, numAxes |-> p.numAxes,
   bIsBaxisSlave |-> p.numAxes = 5 /\ p.slaveAxis,
   base |-> IF p.id \in RobotIds THEN p.baseTrack ELSE {},
   axisType |-> [a \in Axes |-> IF p.maxIncrement[a] = 0 THEN "invalid"
                                ELSE p.motionType[a]]]

(* As many groups as main accepts, each laid out as its parameters say;    *)
(* the slots of a group have room for its axes.  B is a slave on robots    *)
(* with the axes SLU-BT.                                                   *)
ASSUME ControllersAssumption ==
  /\ MAX_PULSE_AXES <= MP_GRP_AXES_NUM
  /\ Pulses \in [Axes -> Int]
  /\ \A c \in Controllers :
       /\ \E n \in 1 .. MAX_CONTROLLABLE_GROUPS : DOMAIN c = 1 .. n
       /\ \A grp \in DOMAIN c : Layout(Created(c[grp]))
       /\ \A grp \in DOMAIN c :
            c[grp].numAxes = 5 /\ c[grp].slaveAxis
              => /\ c[grp].id \in RobotIds
                 /\ ValidAxes(Created(c[grp])) = {0, 1, 2, 4, 5}

GroupNos == 1 .. Len(controller)
DefaultName(grp, k) == <<"group", grp, k + 1>>

(* The slot of joint_names for place k of a group, counted from 1.         *)
Slot(grp, k) == (grp - 1) * MP_GRP_AXES_NUM + k

(* Place of an axis among the valid ones: configIndex.                     *)
ConfigIndex(g, a) == Cardinality({b \in ValidAxes(g) : b < a})

WithDefaults(grp) ==
  IF bShouldSetJointNamesToDefaultValues
    THEN [s \in 0 .. Slots - 1 |->
            IF s - Slot(grp, 0) \in Joints(controller[grp])
              THEN DefaultName(grp, s - Slot(grp, 0)) ELSE joint_names[s]]
    ELSE joint_names

(* Ros_CtrlGroup_UpdateJointNamesInMotoOrder asserts that no name is blank.*)
NamesInMotoOrder(grp, configured) ==
  [a \in Axes |->
     IF IsInvalidAxis(controller[grp], a) THEN Blank
     ELSE configured[Slot(grp, ConfigIndex(controller[grp], a))]]

AllNamed(grp, inMotoOrder) ==
  \A a \in ValidAxes(controller[grp]) : inMotoOrder[a] # Blank
-----------------------------------------------------------------------------
(* Ros_Controller_Initialize, at the start of each session.                *)
InitController ==
  /\ phase = "init"
  /\ phase' = "groups"
  /\ IF controller = <<>>
       THEN \E c \in Controllers :
              controller' = [grp \in DOMAIN c |-> Created(c[grp])]
       ELSE UNCHANGED controller
  /\ bInitOk' \in BOOLEAN  \* a parameter of all groups cannot be read
  /\ jointNames_userDefined' =
       [grp \in DOMAIN controller' |-> [a \in Axes |-> Blank]]
  /\ bShouldSetJointNamesToDefaultValues' = (joint_names[0] = Blank)
  /\ UNCHANGED <<copyVars, alarms, file, parserVars, settingVars, nics,
                 ctrlGroups, names>>

NextGroup == Len(ctrlGroups) + 1

(* Ros_CtrlGroup_Create for one group, and its names.                      *)
CreateGroup ==
  /\ phase = "groups" /\ NextGroup \in GroupNos
  /\ LET configured == WithDefaults(NextGroup)
         inMotoOrder == NamesInMotoOrder(NextGroup, configured) IN
     /\ ctrlGroups' = Append(ctrlGroups, NextGroup)
     /\ joint_names' = configured
     /\ IF AllNamed(NextGroup, inMotoOrder)
          THEN /\ jointNames_userDefined' =
                    [jointNames_userDefined EXCEPT ![NextGroup] = inMotoOrder]
               /\ UNCHANGED <<phase, alarms>>
          ELSE /\ phase' = "asserted"
               /\ alarms' = alarms \cup {"INVALID_CUSTOM_JOINT_NAME"}
               /\ UNCHANGED jointNames_userDefined
  /\ UNCHANGED <<copyVars, file, parserVars, g_nodeConfigSettings, nics,
                 controller, bShouldSetJointNamesToDefaultValues, bInitOk, names>>

(* A parameter of the group cannot be read, or its task not created.       *)
CreateGroupFails ==
  /\ phase = "groups" /\ NextGroup \in GroupNos
  /\ ctrlGroups' = Append(ctrlGroups, NextGroup)
  /\ bInitOk' = FALSE
  /\ UNCHANGED <<phase, copyVars, alarms, file, parserVars, settingVars, nics,
                 controller, jointNames_userDefined,
                 bShouldSetJointNamesToDefaultValues, names>>

(* The task of IncMoveLoop may not be created.                             *)
GroupsCreated ==
  /\ phase = "groups" /\ NextGroup \notin GroupNos
  /\ phase' \in IF bInitOk THEN {"job", "asserted"} ELSE {"asserted"}
  /\ UNCHANGED <<copyVars, alarms, file, parserVars, settingVars, nics,
                 controller, groupVars, names>>

PublishedAsConfigured(grp) ==
  [i \in Joints(controller[grp]) |-> joint_names[Slot(grp, i)]]

(* Ros_PositionMonitor_Initialize: the names of a group in the order of    *)
(* its positions, in the message of the group and in that of all.          *)
PublishedNames(grp) ==
  LET g == controller[grp] IN
  [i \in Joints(g) |->
     joint_names[Slot(grp, IF SevenAxes(g)
                             THEN IF i < 2 THEN i ELSE IF i = 2 THEN i + 4 ELSE i - 1
                             ELSE i)]]

InitMonitor ==
  /\ phase = "monitor"
  /\ phase' = "running"
  /\ names' = [grp \in GroupNos |-> PublishedNames(grp)]
  /\ UNCHANGED <<copyVars, alarms, file, parserVars, settingVars, nics,
                 controller, groupVars>>

(* The session ends: groups and messages go, settings and names stay.      *)
EndSession ==
  /\ phase = "running"
  /\ phase' = "init"
  /\ ctrlGroups' = <<>> /\ names' = <<>> /\ jointNames_userDefined' = <<>>
  /\ UNCHANGED <<copyVars, alarms, file, parserVars, settingVars, nics,
                 controller, bShouldSetJointNamesToDefaultValues, bInitOk>>

NamesInit ==
  /\ ConfigInit
  /\ controller = <<>> /\ ctrlGroups = <<>> /\ names = <<>>
  /\ jointNames_userDefined = <<>>
  /\ bShouldSetJointNamesToDefaultValues = FALSE /\ bInitOk = TRUE

NamesNext ==
  \/ ConfigNext /\ UNCHANGED <<controller, groupVars, names>>
  \/ InitController \/ CreateGroup \/ CreateGroupFails \/ GroupsCreated
  \/ InitMonitor \/ EndSession
-----------------------------------------------------------------------------
(* What the position monitor reports (PositionMonitor.c:432-465): places   *)
(* of the message as group and joint.                                      *)
Places == {p \in GroupNos \X Axes : p[2] \in Joints(controller[p[1]])}
Reported(place) == ConvertToRosPos(controller[place[1]], Pulses)[place[2]]
NameAt(place) == names[place[1]][place[2]]

(* Ros_MotionControl_InitTrajectory: the first group and axis of a name.   *)
Bearers(name) ==
  {p \in GroupNos \X Axes : jointNames_userDefined[p[1]][p[2]] = name}
Resolved(name) ==
  CHOOSE p \in Bearers(name) : \A q \in Bearers(name) :
    p[1] < q[1] \/ (p[1] = q[1] /\ p[2] <= q[2])

(* The positions reported, sent back as the points of a trajectory, joint  *)
(* by joint: what the group finds in a point, in moto order.  The          *)
(* compensation of B is put in once when the trajectory is accepted        *)
(* (MotionControl.c:170-178) and, behind the first point, once more when a *)
(* point is moved to (424-429).                                            *)
SentBack(grp) ==
  LET of(a) == {p \in Places : Bearers(NameAt(p)) # {}
                                 /\ Resolved(NameAt(p)) = <<grp, a>>}
  IN  [a \in Axes |-> IF of(a) = {} THEN <<0, 1>>
                      ELSE Reported(CHOOSE p \in of(a) : TRUE)]
Accepted(grp) == Compensated(controller[grp], SentBack(grp), BAxis)
StartPulses(grp) == RosUnitsToMotoUnits(controller[grp], Accepted(grp))
TargetPulses(grp) ==
  RosUnitsToMotoUnits(controller[grp],
                      Compensated(controller[grp], Accepted(grp), BAxis))

PulsesOf(g) == [a \in Axes |-> IF IsInvalidAxis(g, a) THEN 0 ELSE Pulses[a]]

NamesDistinct == \A p, q \in Places : NameAt(p) = NameAt(q) => p = q

(* Lists of names as the documentation asks for them.                      *)
Listed(f) ==
  /\ f.names = "lists"
  /\ \A l \in Range(f.lists) : Len(l) <= MP_GRP_AXES_NUM /\ Blank \notin Range(l)

(* Behind the names of the last list nothing is cleared.                   *)
WithinArray(f) ==
  \A grp \in DOMAIN f.lists :
    Slot(grp, Len(f.lists[grp])) + NamesPerCopy <= Slots + 1

(* The last text a file gives for a setting, valid for its type.           *)
EntriesOf(f) == f.before \o f.after
Decisive(f, key) ==
  {i \in DOMAIN EntriesOf(f) :
     LET e == EntriesOf(f)[i] IN
     /\ e[1] = key /\ e[2] # Blank
     /\ typeOfValue[key] = "bool" => e[2] \in {<<"true">>, <<"false">>}}
SettingIn(f, key) ==
  IF Decisive(f, key) = {} THEN Defaults[key]
  ELSE Value(key, EntriesOf(f)[Max(Decisive(f, key))][2], Defaults[key])
-----------------------------------------------------------------------------
(* The file a controller comes up with is never half a file without an     *)
(* alarm having been raised, as long as the stick is neither pulled nor    *)
(* unreadable: a loss of power while copying is made good.                 *)
PartialFileIsKnown ==
  phase \in {"open", "parse"} /\ sram = "partial"
    => told \/ unread \/ usb = "none"

(* A setting has the value the file gives it last, wherever it stands, as  *)
(* long as joint_names has lists or is absent and the last of eight groups *)
(* leaves room behind its names.                                           *)
SettingsAsFiled ==
  phase \in {"groups", "running"} /\ file.names # "blank" /\ WithinArray(file) =>
    \A key \in {"log_to_stdout", "robot_status", "publish_tf", "ros_domain_id",
                "executor_sleep_period"} :
      \/ g_nodeConfigSettings[key] = SettingIn(file, key)
      \/ key = "executor_sleep_period" /\ SettingIn(file, key) \notin 1 .. 100
         /\ g_nodeConfigSettings[key] = 10

(* In every session all axes of all groups bear their default names; or,   *)
(* if the lists are as documented (at most MP_GRP_AXES_NUM names in each,  *)
(* none of them blank), the valid axes of each group those of its list, in *)
(* moto order.  Of names from other lists nothing is said.                 *)
NamesAsConfigured ==
  phase = "running" =>
    \/ \A grp \in GroupNos : \A a \in ValidAxes(controller[grp]) :
         jointNames_userDefined[grp][a]
           = DefaultName(grp, ConfigIndex(controller[grp], a))
    \/ Listed(file) => \A grp \in GroupNos : \A a \in ValidAxes(controller[grp]) :
         LET k == ConfigIndex(controller[grp], a) + 1 IN
         /\ grp \in DOMAIN file.lists /\ k <= Len(file.lists[grp])
         /\ jointNames_userDefined[grp][a] = file.lists[grp][k]

(* A client that sends the positions it is told back under the names it is *)
(* told has its start accepted as the position the group is commanded to,  *)
(* on groups of every kind, and commands every axis to where it is but for *)
(* the B axis of a slave, which it moves by the second compensation.       *)
SentBackIsStill ==
  phase = "running" /\ NamesDistinct =>
    \A grp \in GroupNos :
      LET g == controller[grp] IN
      /\ StartPulses(grp) = GetPulsePosCmd(g, PulsesOf(g))
      /\ \A a \in Axes : a # BAxis \/ ~g.bIsBaxisSlave
                           => TargetPulses(grp)[a] = PulsesOf(g)[a]
=============================================================================
