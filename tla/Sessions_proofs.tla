--------------------------- MODULE Sessions_proofs ---------------------------
(***************************************************************************)
(* From power on to a session with the Agent, for any file, any controller *)
(* and any number of sessions: what the configuration file says is what    *)
(* the program uses, and the tasks of a session outlive nothing they use.  *)
(*                                                                         *)
(* Three inductive invariants carry the theorems.  StartupInv follows the  *)
(* copy of the file, the creation of the groups, the published names and   *)
(* the INFORM job.  FileInv follows the parser through the events of the   *)
(* file: it needs to know at each event how far the parser has come        *)
(* (ParseInv), before it can say what has been set (SettingsInv) and which *)
(* names lie in which slots (SlotsInv).  SessionInv says which of the      *)
(* three tasks may be where, given the semaphores that keep them in step.  *)
(*                                                                         *)
(* The order of the axes comes first: the two orders name the same axes,   *)
(* whatever gaps a robot has, so a position converted to ROS and back is   *)
(* the position it was.  The induction over the lists of a file is over    *)
(* the set of their numbers, as in IncMove_proofs.                         *)
(***************************************************************************)
EXTENDS InformJob, AgentLink, FiniteSetTheorems, SequenceTheorems,
        WellFoundedInduction, TLAPS

(* How many valid axes lie below one.                                      *)
Rank(g, a) == Cardinality({b \in ValidAxes(g) : b < a})
-----------------------------------------------------------------------------
(* There are finitely many valid axes, at most MAX_PULSE_AXES.             *)
LEMMA AxesCounted ==
  ASSUME NEW g
  PROVE  /\ ValidAxes(g) \subseteq Axes /\ Axes \subseteq Nat
         /\ IsFiniteSet(ValidAxes(g)) /\ Cardinality(ValidAxes(g)) \in Nat
         /\ Cardinality(ValidAxes(g)) <= MAX_PULSE_AXES
<1>1. Axes \subseteq Nat /\ ValidAxes(g) \subseteq Axes
  BY AxesAssumption DEF Axes, ValidAxes
<1>2. IsFiniteSet(Axes) /\ Cardinality(Axes) = MAX_PULSE_AXES
  BY FS_Interval, AxesAssumption DEF Axes
<1>3. IsFiniteSet(ValidAxes(g))
      /\ Cardinality(ValidAxes(g)) <= Cardinality(Axes)
  BY <1>1, <1>2, FS_Subset
<1> QED
  BY <1>1, <1>2, <1>3, FS_CardinalityType

(* An axis further up has a higher rank, and no rank reaches the number of *)
(* axes.                                                                   *)
LEMMA RankRises ==
  ASSUME NEW g, NEW a \in ValidAxes(g)
  PROVE  /\ Rank(g, a) \in 0 .. Cardinality(ValidAxes(g)) - 1
         /\ \A c \in ValidAxes(g) : a < c => Rank(g, a) < Rank(g, c)
<1> DEFINE Below(c) == {b \in ValidAxes(g) : b < c}
<1>1. \A c : IsFiniteSet(Below(c)) /\ Cardinality(Below(c)) \in Nat
  <2> TAKE c
  <2>1. Below(c) \in SUBSET ValidAxes(g)
    OBVIOUS
  <2>2. IsFiniteSet(Below(c))
    BY <2>1, AxesCounted, FS_Subset
  <2> QED
    BY <2>2, FS_CardinalityType
<1>2. a \in Nat /\ a \notin Below(a)
  BY AxesCounted
<1>3. IsFiniteSet(Below(a) \cup {a})
      /\ Cardinality(Below(a) \cup {a}) = Cardinality(Below(a)) + 1
  BY <1>1, <1>2, FS_AddElement
<1>4. Cardinality(Below(a) \cup {a}) <= Cardinality(ValidAxes(g))
  <2>1. Below(a) \cup {a} \in SUBSET ValidAxes(g)
    OBVIOUS
  <2> QED
    BY <2>1, AxesCounted, FS_Subset
<1>5. ASSUME NEW c \in ValidAxes(g), a < c
      PROVE  Cardinality(Below(a) \cup {a}) <= Cardinality(Below(c))
  <2>1. Below(a) \cup {a} \in SUBSET Below(c)
    BY <1>2, <1>5, AxesCounted
  <2> QED
    BY <2>1, <1>1, FS_Subset
<1>6. \A c : Rank(g, c) = Cardinality(Below(c))
  BY DEF Rank
<1> HIDE DEF Below
<1>7. Cardinality(Below(a)) \in 0 .. Cardinality(ValidAxes(g)) - 1
  BY <1>1, <1>3, <1>4, AxesCounted
<1>8. ASSUME NEW c \in ValidAxes(g), a < c
      PROVE  Cardinality(Below(a)) < Cardinality(Below(c))
  <2>1. Cardinality(Below(a)) + 1 <= Cardinality(Below(c))
    BY <1>3, <1>5, <1>8
  <2>2. Cardinality(Below(a)) \in Nat /\ Cardinality(Below(c)) \in Nat
    BY <1>1
  <2> QED
    BY <2>1, <2>2
<1> QED
  BY <1>6, <1>7, <1>8

(* As many different ranks as there are axes are all the ranks there are.  *)
LEMMA EveryRankTaken ==
  ASSUME NEW g, NEW k \in 0 .. Cardinality(ValidAxes(g)) - 1
  PROVE  \E a \in ValidAxes(g) : Rank(g, a) = k
<1> DEFINE n == Cardinality(ValidAxes(g))
           f == [a \in ValidAxes(g) |-> Rank(g, a)]
<1>1. f \in [ValidAxes(g) -> 0 .. n - 1]
  BY RankRises
<1>2. ASSUME NEW a \in ValidAxes(g), NEW b \in ValidAxes(g), f[a] = f[b]
      PROVE  a = b
  <2>1. a \in Nat /\ b \in Nat
    BY AxesCounted
  <2>2. Rank(g, a) = Rank(g, b) /\ Rank(g, a) \in Int
    BY <1>2, RankRises
  <2>3. ~(a < b) /\ ~(b < a)
    BY <2>2, RankRises
  <2> QED
    BY <2>1, <2>3
<1>3. f \in Injection(ValidAxes(g), 0 .. n - 1)
  BY <1>1, <1>2 DEF Injection, IsInjective
<1>4. IsFiniteSet(0 .. n - 1) /\ Cardinality(0 .. n - 1) = n
  BY FS_Interval, AxesCounted
<1>5. f \in Surjection(ValidAxes(g), 0 .. n - 1)
  BY <1>3, <1>4, FS_Injection
<1> QED
  BY <1>5 DEF Surjection

(* The scan over the gaps stops at the axis of the rank it has counted to. *)
LEMMA ScanFinds ==
  ASSUME NEW g, NEW k \in 0 .. Cardinality(ValidAxes(g)) - 1
  PROVE  ValidAxis(g, k) \in ValidAxes(g) /\ Rank(g, ValidAxis(g, k)) = k
  BY EveryRankTaken DEF ValidAxis, Rank

(* Each joint of ROS stands for one valid axis, each valid axis for one    *)
(* joint, in groups with gaps, of seven axes and of others: the order of   *)
(* the loops in ConvertMotoJointOrderToSequentialJointOrder loses no axis  *)
(* and takes none twice.                                                   *)
THEOREM OrdersAgree ==
  ASSUME NEW g, Layout(g)
  PROVE  /\ \A i \in Joints(g) : AxisOfJoint(g, i) \in ValidAxes(g)
         /\ \A i, k \in Joints(g) : AxisOfJoint(g, i) = AxisOfJoint(g, k) => i = k
         /\ \A a \in ValidAxes(g) : \E i \in Joints(g) : AxisOfJoint(g, i) = a
<1>1. g.numAxes \in Nat /\ g.numAxes = Cardinality(ValidAxes(g))
      /\ Joints(g) = 0 .. g.numAxes - 1
  BY AxesCounted DEF Layout, Joints
<1>2. CASE HasGaps(g)
  <2>1. ~SevenAxes(g)
    BY <1>1, <1>2 DEF HasGaps, SevenAxes
  <2>2. \A i \in Joints(g) : /\ AxisOfJoint(g, i) \in ValidAxes(g)
                             /\ Rank(g, AxisOfJoint(g, i)) = i
    BY <1>1, <1>2, <2>1, ScanFinds DEF AxisOfJoint
  <2>3. ASSUME NEW a \in ValidAxes(g)
        PROVE  \E i \in Joints(g) : AxisOfJoint(g, i) = a
    <3>1. Rank(g, a) \in Joints(g)
      BY <1>1, RankRises
    <3> DEFINE b == AxisOfJoint(g, Rank(g, a))
    <3>2. b \in ValidAxes(g) /\ Rank(g, b) = Rank(g, a)
      BY <2>2, <3>1
    <3> HIDE DEF b
    <3>3. ~(a < b) /\ ~(b < a) /\ a \in Nat /\ b \in Nat
      BY <3>1, <3>2, <1>1, RankRises, AxesCounted
    <3>4. a = b
      BY <3>3
    <3> QED
      BY <3>1, <3>4 DEF b
  <2> QED
    BY <2>2, <2>3
<1>3. CASE ~HasGaps(g) /\ SevenAxes(g)
  <2>1. g.numAxes = 7 /\ ValidAxes(g) = 0 .. 6 /\ Joints(g) = 0 .. 6
    BY <1>1, <1>3 DEF Layout, SevenAxes
  <2>2. \A i \in Joints(g) :
          AxisOfJoint(g, i) = IF i < 2 THEN i ELSE IF i = 2 THEN 6 ELSE i - 1
    BY <1>3 DEF AxisOfJoint
  <2>3. \A a \in 0 .. 6 :
          LET i == IF a < 2 THEN a ELSE IF a = 6 THEN 2 ELSE a + 1
          IN  i \in Joints(g) /\ AxisOfJoint(g, i) = a
    BY <2>1, <2>2
  <2> QED
    BY <2>1, <2>2, <2>3
<1>4. CASE ~HasGaps(g) /\ ~SevenAxes(g)
  <2>1. ValidAxes(g) = Joints(g)
    BY <1>1, <1>4 DEF Layout
  <2>2. \A i \in Joints(g) : AxisOfJoint(g, i) = i
    BY <1>4 DEF AxisOfJoint
  <2> QED
    BY <2>1, <2>2
<1> QED
  BY <1>2, <1>3, <1>4

(* Scaling by a number of pulses per unit and back is exact for rationals. *)
LEMMA ScaleBack ==
  ASSUME NEW p \in Int, NEW c \in Nat \ {0}
  PROVE  Truncated(p * c, c) = p
<1>1. (p * c) \div c = p /\ ((-p) * c) \div c = -p
  OBVIOUS
<1>2. -(p * c) = (-p) * c
  OBVIOUS
<1> QED
  BY <1>1, <1>2 DEF Truncated

(* A position in pulses, converted to ROS units and joint order and back,  *)
(* is the same position with 0 on every axis the group does not have: what *)
(* the three pairs of loops in CtrlGroup.c do undoes itself.               *)
THEOREM ConversionsInverse ==
  ASSUME NEW g, Layout(g), NEW pulses \in [Axes -> Int]
  PROVE  ConvertToMotoPos(g, ConvertToRosPos(g, pulses))
           = [a \in Axes |-> IF IsInvalidAxis(g, a) THEN 0 ELSE pulses[a]]
<1> DEFINE units == MotoUnitsToRosUnits(g, pulses)
           ros == ConvertToRosPos(g, pulses)
           back == SequentialToMoto(g, ros, <<0, 1>>)
<1>1. ASSUME NEW a \in ValidAxes(g)
      PROVE  back[a] = units[a]
  <2>1. HasJoint(g, a)
    BY OrdersAgree DEF HasJoint
  <2>2. JointOfAxis(g, a) \in Joints(g)
        /\ AxisOfJoint(g, JointOfAxis(g, a)) = a
    BY <2>1 DEF HasJoint, JointOfAxis
  <2>3. a \in Axes
    BY AxesCounted
  <2>4. back[a] = ros[JointOfAxis(g, a)]
    BY <2>1, <2>3 DEF SequentialToMoto
  <2>5. ros[JointOfAxis(g, a)] = units[a]
    BY <2>2 DEF ConvertToRosPos, MotoToSequential
  <2> QED
    BY <2>4, <2>5
<1>2. ASSUME NEW a \in ValidAxes(g)
      PROVE  Truncated(back[a][1] * Conversion(g, a), back[a][2]) = pulses[a]
  <2>1. a \in Axes /\ ~IsInvalidAxis(g, a)
    BY AxesCounted DEF ValidAxes
  <2>2. Conversion(g, a) \in Nat \ {0} /\ pulses[a] \in Int
    BY <2>1, RatioAssumption DEF Conversion
  <2>3. units[a] = <<pulses[a], Conversion(g, a)>>
    BY <2>1 DEF MotoUnitsToRosUnits
  <2>4. back[a][1] = pulses[a] /\ back[a][2] = Conversion(g, a)
    BY <1>1, <2>3
  <2> QED
    BY <2>2, <2>4, ScaleBack
<1>3. RosUnitsToMotoUnits(g, back)
        = [a \in Axes |-> IF IsInvalidAxis(g, a) THEN 0 ELSE pulses[a]]
  <2> HIDE DEF back
  <2>1. \A a \in Axes : IsInvalidAxis(g, a) \/ a \in ValidAxes(g)
    BY DEF ValidAxes
  <2> QED
    BY <1>2, <2>1 DEF RosUnitsToMotoUnits
<1> QED
  BY <1>3 DEF ConvertToMotoPos
-----------------------------------------------------------------------------
(***************************************************************************)
(* From power on to a running session: the file is copied and read, the    *)
(* groups are created and named, the job is checked, positions are         *)
(* published under names.                                                  *)
(***************************************************************************)
ConfigPhases == {"usb", "copy", "rename", "open", "parse", "validate"}
GroupPhases == {"groups", "job", "monitor", "running"}
Phases == ConfigPhases \cup {"init", "asserted"} \cup GroupPhases

(* A file half copied: the stick it is copied from is still there, or      *)
(* somebody has been told, or could not read it.                           *)
CopyInv ==
  /\ told \in BOOLEAN /\ unread \in BOOLEAN
  /\ phase \in {"copy", "rename"} => usb = "new"
  /\ sram = "partial" =>
       \/ told = TRUE \/ unread = TRUE \/ usb = "none"
       \/ usb = "new" /\ phase \in {"usb", "copy"}

Layouts == {[grp \in DOMAIN c |-> Created(c[grp])] : c \in Controllers}

(* The axes of a group bear the names in the slots of its places.          *)
Named(grp) ==
  /\ jointNames_userDefined[grp] = NamesInMotoOrder(grp, joint_names)
  /\ AllNamed(grp, jointNames_userDefined[grp])

(* The groups created so far are numbered and named, unless one of them    *)
(* failed; none is left over from the session before.                      *)
GroupsInv ==
  /\ phase \in Phases /\ bInitOk \in BOOLEAN
  /\ controller = <<>> \/ controller \in Layouts
  /\ phase \in ConfigPhases \cup {"init"} => ctrlGroups = <<>>
  /\ phase \in GroupPhases =>
       /\ controller # <<>>
       /\ ctrlGroups \in Seq(Nat) /\ Len(ctrlGroups) <= Len(controller)
       /\ DOMAIN jointNames_userDefined = GroupNos
       /\ bInitOk = TRUE =>
            \A grp \in 1 .. Len(ctrlGroups) : Named(grp)
  /\ phase \in {"job", "monitor", "running"} =>
       bInitOk = TRUE /\ Len(ctrlGroups) = Len(controller)

PublishedInv ==
  phase = "running" => names = [grp \in GroupNos |-> PublishedNames(grp)]

(* The job the program made is the one it would make again; one that has   *)
(* passed names every group.                                               *)
JobInv ==
  /\ madeHere \in BOOLEAN
  /\ madeHere = TRUE =>
       /\ job = CreatedJob /\ controller # <<>>
       /\ HeaderFits => verdict \notin {"invalid", "failed"}
  /\ verdict = "ok" /\ HeaderFits =>
       controller # <<>> /\ HeaderNamesAll /\ LinesOk

StartupInv == CopyInv /\ GroupsInv /\ PublishedInv /\ JobInv
-----------------------------------------------------------------------------
(* The layouts of a controller: at most MAX_CONTROLLABLE_GROUPS groups,    *)
(* each a layout of JointOrder.                                            *)
LEMMA ControllerShape ==
  ASSUME NEW c \in Layouts
  PROVE  /\ Len(c) \in 1 .. MAX_CONTROLLABLE_GROUPS
         /\ DOMAIN c = 1 .. Len(c) /\ c # <<>>
         /\ \A grp \in 1 .. Len(c) : Layout(c[grp])
<1>1. PICK p \in Controllers : c = [grp \in DOMAIN p |-> Created(p[grp])]
  BY DEF Layouts
<1>2. PICK n \in 1 .. MAX_CONTROLLABLE_GROUPS : DOMAIN p = 1 .. n
  BY ControllersAssumption
<1>3. \A grp \in 1 .. n : Layout(Created(p[grp]))
  BY <1>2, ControllersAssumption
<1> DEFINE S == {c[grp] : grp \in 1 .. n}
<1>4. n \in Nat /\ c \in [1 .. n -> S]
  BY <1>1, <1>2, FileAssumption
<1>5. c \in Seq(S)
  BY <1>4, SeqDef
<1>6. DOMAIN c = 1 .. Len(c) /\ Len(c) \in Nat
  BY <1>5, LenProperties
<1>7. Len(c) = n
  <2>1. 1 .. Len(c) = 1 .. n
    BY <1>4, <1>6
  <2> QED
    BY <2>1, <1>2, <1>4, <1>6
<1> QED
  BY <1>1, <1>2, <1>3, <1>6, <1>7

(* While the file is brought, read and checked no session is on.           *)
LEMMA ConfigStays ==
  ASSUME ConfigNext
  PROVE  /\ phase \in ConfigPhases
         /\ phase' \in ConfigPhases \cup {"init", "asserted"}
<1> USE DEF ConfigPhases
<1>1. CASE CheckUsb
  BY <1>1 DEF CheckUsb
<1>2. CASE CopyChunk \/ CopyFails \/ ReadFails \/ CopyDone
  BY <1>2 DEF CopyChunk, CopyFails, ReadFails, CopyDone
<1>3. CASE Rename \/ PowerLoss \/ StickPulled
  BY <1>3 DEF Rename, PowerLoss, StickPulled
<1>4. CASE Missing \/ PendantLoad \/ Open
  BY <1>4 DEF Missing, PendantLoad, Open
<1>5. CASE CheckYamlEvent
  BY <1>5 DEF CheckYamlEvent, Reads, ReadValue, ReadJointName, FindKey,
     SequenceStart, SequenceEnd, OtherEvent
<1>6. CASE ReadNics
  BY <1>6 DEF ReadNics
<1>7. CASE Validate
  BY <1>7 DEF Validate
<1> QED
  BY <1>1, <1>2, <1>3, <1>4, <1>5, <1>6, <1>7 DEF ConfigNext

(* A file left half copied by a pulled stick or a power loss is found      *)
(* again or reported, whatever happens between.                            *)
LEMMA CopyStep ==
  ASSUME CopyInv, GroupsInv, [JobNext]_<<nameVars, jobVars>>
  PROVE  CopyInv'
<1> USE DEF CopyInv
<1>1. CASE ConfigNext
  <2>1. CASE CheckUsb
    <3>1. told' \in BOOLEAN /\ unread' \in BOOLEAN
      BY Zenon, <2>1 DEF CheckUsb
    <3> QED
      BY <2>1, <3>1 DEF CheckUsb
  <2>2. CASE CopyChunk
    BY <2>2 DEF CopyChunk
  <2>3. CASE CopyFails
    <3>1. told' \in BOOLEAN /\ unread' \in BOOLEAN
      BY Zenon, <2>3 DEF CopyFails
    <3> QED
      BY <2>3, <3>1 DEF CopyFails
  <2>4. CASE ReadFails
    <3>1. told' \in BOOLEAN /\ unread' \in BOOLEAN
      BY Zenon, <2>4 DEF ReadFails
    <3> QED
      BY <2>4, <3>1 DEF ReadFails
  <2>5. CASE CopyDone
    BY <2>5 DEF CopyDone
  <2>6. CASE Rename
    BY <2>6 DEF Rename
  <2>7. CASE PowerLoss
    BY <2>7 DEF PowerLoss
  <2>8. CASE StickPulled
    BY <2>8 DEF StickPulled
  <2>9. CASE Missing
    BY <2>9 DEF Missing, copyVars
  <2>10. CASE PendantLoad
    BY <2>10 DEF PendantLoad
  <2>11. CASE Open
    <3>1. told' \in BOOLEAN /\ unread' \in BOOLEAN
      BY Zenon, <2>11 DEF Open
    <3> QED
      BY <2>11, <3>1 DEF Open
  <2>12. CASE CheckYamlEvent
    BY <2>12 DEF CheckYamlEvent, Reads, ReadValue, ReadJointName, FindKey,
       SequenceStart, SequenceEnd, OtherEvent, copyVars
  <2>13. CASE ReadNics
    BY <2>13 DEF ReadNics, copyVars
  <2>14. CASE Validate
    BY <2>14 DEF Validate, copyVars
  <2> QED
    BY <1>1, <2>1, <2>2, <2>3, <2>4, <2>5, <2>6, <2>7, <2>8, <2>9, <2>10,
       <2>11, <2>12, <2>13, <2>14 DEF ConfigNext
<1>2. CASE phase \notin ConfigPhases /\ phase' \notin ConfigPhases
           /\ UNCHANGED copyVars
  BY <1>2 DEF ConfigPhases, copyVars
<1>3. CASE UNCHANGED nameVars
  BY <1>3 DEF nameVars, configVars, copyVars
<1>4. ASSUME InitController \/ CreateGroup \/ CreateGroupFails
             \/ GroupsCreated \/ InitMonitor \/ EndSession \/ ValidateJob
      PROVE  phase \notin ConfigPhases /\ phase' \notin ConfigPhases
             /\ UNCHANGED copyVars
  BY <1>4 DEF ConfigPhases, InitController, CreateGroup, CreateGroupFails,
     GroupsCreated, InitMonitor, EndSession, ValidateJob, CreateJob,
     CreateJobFails, CheckJob, CheckJobOverruns, CheckJobUnopened, Checked
<1> QED
  BY <1>1, <1>2, <1>3, <1>4 DEF JobNext, NamesNext, EditJob
-----------------------------------------------------------------------------

(* The slots of one group are not those of another.                        *)
LEMMA SlotsApart ==
  ASSUME NEW n \in Nat, NEW grp \in 1 .. n - 1, NEW k \in Axes,
         NEW j \in Nat
  PROVE  Slot(grp, k) # Slot(n, 0) + j
<1>1. MP_GRP_AXES_NUM \in Nat /\ k \in Nat /\ k < MP_GRP_AXES_NUM
  BY FileAssumption, ControllersAssumption, AxesAssumption DEF Axes
<1>2. grp - 1 \in Nat /\ n - 1 \in Nat /\ n - 1 - grp \in Nat
  OBVIOUS
<1>3. (grp - 1) * MP_GRP_AXES_NUM \in Nat
      /\ (n - 1 - grp) * MP_GRP_AXES_NUM \in Nat
  BY <1>1, <1>2
<1>4. (n - 1) * MP_GRP_AXES_NUM
        = (grp - 1) * MP_GRP_AXES_NUM + MP_GRP_AXES_NUM
            + (n - 1 - grp) * MP_GRP_AXES_NUM
  BY <1>1, <1>2
<1> DEFINE x == (grp - 1) * MP_GRP_AXES_NUM
           y == (n - 1 - grp) * MP_GRP_AXES_NUM
           z == (n - 1) * MP_GRP_AXES_NUM
<1>5. Slot(grp, k) = x + k /\ Slot(n, 0) = z + 0
  BY DEF Slot
<1> HIDE DEF x, y, z
<1>6. x \in Nat /\ y \in Nat /\ z = x + MP_GRP_AXES_NUM + y
  BY <1>3, <1>4 DEF x, y, z
<1> QED
  BY <1>1, <1>5, <1>6

(* Every slot of an axis is one of the array.                              *)
LEMMA SlotInArray ==
  ASSUME NEW grp \in 1 .. MAX_CONTROLLABLE_GROUPS, NEW k \in Axes
  PROVE  Slot(grp, k) \in 0 .. Slots - 1
<1>1. MP_GRP_AXES_NUM \in Nat /\ k \in Nat /\ k < MP_GRP_AXES_NUM
      /\ MAX_CONTROLLABLE_GROUPS \in Nat
  BY FileAssumption, ControllersAssumption, AxesAssumption DEF Axes
<1>2. grp - 1 \in Nat /\ MAX_CONTROLLABLE_GROUPS - grp \in Nat
  BY <1>1
<1> DEFINE x == (grp - 1) * MP_GRP_AXES_NUM
           y == (MAX_CONTROLLABLE_GROUPS - grp) * MP_GRP_AXES_NUM
<1>3. x \in Nat /\ y \in Nat
  BY <1>1, <1>2
<1>4. MAX_CONTROLLABLE_GROUPS * MP_GRP_AXES_NUM = x + MP_GRP_AXES_NUM + y
  BY <1>1, <1>2
<1>5. Slot(grp, k) = x + k /\ Slots = MAX_CONTROLLABLE_GROUPS * MP_GRP_AXES_NUM
  BY DEF Slot, Slots
<1> HIDE DEF x, y
<1> QED
  BY <1>1, <1>3, <1>4, <1>5

(* The place of an axis among the valid ones is one of the group's places. *)
LEMMA ConfigIndexInGroup ==
  ASSUME NEW g, Layout(g), NEW a \in ValidAxes(g)
  PROVE  ConfigIndex(g, a) \in Joints(g) /\ ConfigIndex(g, a) \in Axes
<1>1. ConfigIndex(g, a) = Rank(g, a)
  BY DEF ConfigIndex, Rank
<1>2. Rank(g, a) \in 0 .. g.numAxes - 1 /\ g.numAxes \in Nat
      /\ g.numAxes <= MAX_PULSE_AXES
  BY RankRises, AxesCounted DEF Layout
<1> QED
  BY <1>1, <1>2, AxesAssumption DEF Joints, Axes

(* Default names for one group leave the names of those before it alone.   *)
LEMMA DefaultsStay ==
  ASSUME controller \in Layouts, NEW n \in GroupNos, NEW grp \in 1 .. n - 1
  PROVE  NamesInMotoOrder(grp, WithDefaults(n))
           = NamesInMotoOrder(grp, joint_names)
<1>1. n \in Nat /\ n \in 1 .. MAX_CONTROLLABLE_GROUPS
      /\ grp \in 1 .. MAX_CONTROLLABLE_GROUPS
      /\ Layout(controller[grp]) /\ Layout(controller[n])
  BY ControllerShape, FileAssumption DEF GroupNos
<1>2. \A a \in ValidAxes(controller[grp]) :
        LET s == Slot(grp, ConfigIndex(controller[grp], a)) IN
        WithDefaults(n)[s] = joint_names[s]
  <2> TAKE a \in ValidAxes(controller[grp])
  <2> DEFINE s == Slot(grp, ConfigIndex(controller[grp], a))
  <2>1. ConfigIndex(controller[grp], a) \in Axes
    BY <1>1, ConfigIndexInGroup
  <2>2. s \in 0 .. Slots - 1
    BY <1>1, <2>1, SlotInArray
  <2>3. s - Slot(n, 0) \notin Joints(controller[n])
    <3>1. Joints(controller[n]) \subseteq Nat
      BY <1>1, AxesCounted DEF Joints, Layout
    <3>2. \A j \in Nat : s # Slot(n, 0) + j
      BY <1>1, <2>1, SlotsApart
    <3>3. s \in Int /\ Slot(n, 0) \in Int
      <4>1. 0 \in Axes
        BY AxesAssumption DEF Axes
      <4>2. Slot(n, 0) \in 0 .. Slots - 1
        BY <1>1, <4>1, SlotInArray
      <4> QED
        BY <2>2, <4>2
    <3> HIDE DEF s
    <3>4. ASSUME s - Slot(n, 0) \in Nat PROVE FALSE
      <4>1. s = Slot(n, 0) + (s - Slot(n, 0))
        BY <3>3
      <4> QED
        BY <4>1, <3>2, <3>4
    <3> QED
      BY <3>1, <3>4
  <2> HIDE DEF s
  <2>4. WithDefaults(n)[s] = joint_names[s]
    BY <2>2, <2>3 DEF WithDefaults
  <2> QED
    BY <2>4 DEF s
<1> QED
  BY <1>2 DEF NamesInMotoOrder, ValidAxes

(* No action of a session disturbs the numbering and naming of the groups. *)
LEMMA GroupsStep ==
  ASSUME GroupsInv, [JobNext]_<<nameVars, jobVars>>
  PROVE  GroupsInv'
<1>1. ASSUME UNCHANGED <<controller, groupVars, joint_names>>,
             phase' = phase
      PROVE  GroupsInv'
  <2>1. UNCHANGED <<controller, ctrlGroups, jointNames_userDefined, bInitOk,
                    joint_names>>
    BY <1>1 DEF groupVars
  <2>2. \A grp : Named(grp)' <=> Named(grp)
    BY <2>1 DEF Named, NamesInMotoOrder, AllNamed
  <2>3. GroupNos' = GroupNos
    BY <2>1 DEF GroupNos
  <2> QED
    BY <1>1, <2>1, <2>2, <2>3 DEF GroupsInv
<1>2. CASE ConfigNext /\ UNCHANGED <<controller, groupVars, names>>
  BY <1>2, ConfigStays DEF GroupsInv, Phases, ConfigPhases, GroupPhases,
     groupVars
<1>3. CASE InitController
  <2>1. phase = "init" /\ phase' = "groups" /\ ctrlGroups' = <<>>
    BY <1>3 DEF InitController, GroupsInv
  <2>2. controller' \in Layouts
    <3>1. CASE controller = <<>>
      BY <1>3, <3>1 DEF InitController, Layouts
    <3>2. CASE controller # <<>>
      BY <1>3, <3>2 DEF InitController, GroupsInv
    <3> QED
      BY <3>1, <3>2
  <2>3. controller' # <<>> /\ Len(controller') \in Nat
        /\ DOMAIN controller' = 1 .. Len(controller')
    BY <2>2, ControllerShape, FileAssumption
  <2>4. DOMAIN jointNames_userDefined' = GroupNos'
    BY <1>3, <2>3 DEF InitController, GroupNos
  <2>5. ctrlGroups' \in Seq(Nat) /\ Len(ctrlGroups') = 0
    BY <2>1, EmptySeq
  <2>6. bInitOk' \in BOOLEAN
    BY <1>3 DEF InitController
  <2> QED
    BY <2>1, <2>2, <2>3, <2>4, <2>5, <2>6
    DEF GroupsInv, Phases, ConfigPhases, GroupPhases
<1>4. CASE CreateGroup
  <2> PICK n : n = NextGroup
    OBVIOUS
  <2> DEFINE moto == NamesInMotoOrder(n, WithDefaults(n))
  <2>1. phase = "groups" /\ n \in GroupNos /\ ctrlGroups \in Seq(Nat)
        /\ n = Len(ctrlGroups) + 1 /\ controller # <<>>
        /\ controller \in Layouts
        /\ UNCHANGED <<controller, bInitOk>>
        /\ ctrlGroups' = Append(ctrlGroups, n)
        /\ joint_names' = WithDefaults(n)
    BY <1>4 DEF CreateGroup, GroupsInv, NextGroup, GroupPhases
  <2>2. n \in Nat /\ Len(ctrlGroups) \in Nat /\ Len(controller) \in Nat
        /\ n <= Len(controller)
    BY <2>1, LenProperties, ControllerShape, FileAssumption DEF GroupNos
  <2>3. ctrlGroups' \in Seq(Nat) /\ Len(ctrlGroups') = n
    BY <2>1, <2>2, AppendProperties
  <2>4. CASE AllNamed(n, moto)
    <3>1. /\ jointNames_userDefined'
               = [jointNames_userDefined EXCEPT ![n] = moto]
          /\ phase' = "groups"
      BY <1>4, <2>1, <2>4 DEF CreateGroup
    <3>2. DOMAIN jointNames_userDefined = GroupNos
      BY <2>1 DEF GroupsInv, GroupPhases
    <3>3. Named(n)'
      BY <2>1, <2>4, <3>1, <3>2 DEF Named, NamesInMotoOrder, AllNamed
    <3>4. ASSUME bInitOk = TRUE, NEW grp \in 1 .. n - 1
          PROVE  Named(grp)'
      <4>1. Named(grp)
        BY <2>1, <2>2, <3>4 DEF GroupsInv, GroupPhases
      <4>2. NamesInMotoOrder(grp, WithDefaults(n))
              = NamesInMotoOrder(grp, joint_names)
        BY <2>1, DefaultsStay
      <4>3. grp # n
        BY <2>2
      <4>4. jointNames_userDefined'[grp] = jointNames_userDefined[grp]
        BY <3>1, <3>2, <2>1, <2>2, <4>3 DEF GroupNos
      <4>5. NamesInMotoOrder(grp, joint_names)'
              = NamesInMotoOrder(grp, WithDefaults(n))
        BY <2>1 DEF NamesInMotoOrder
      <4> QED
        BY <2>1, <4>1, <4>2, <4>4, <4>5 DEF Named, AllNamed
    <3>5. bInitOk' = TRUE => \A grp \in 1 .. Len(ctrlGroups') : Named(grp)'
      <4> SUFFICES ASSUME bInitOk' = TRUE, NEW grp \in 1 .. n
                   PROVE  Named(grp)'
        BY <2>3
      <4>1. grp = n \/ grp \in 1 .. n - 1
        BY <2>2
      <4> QED
        BY <4>1, <3>3, <3>4, <2>1
    <3>6. DOMAIN jointNames_userDefined' = GroupNos'
      BY <2>1, <3>1, <3>2 DEF GroupNos
    <3> QED
      BY <2>1, <2>2, <2>3, <3>1, <3>5, <3>6
      DEF GroupsInv, Phases, ConfigPhases, GroupPhases
  <2>5. CASE ~AllNamed(n, moto)
    <3>1. phase' = "asserted"
      BY <1>4, <2>5 DEF CreateGroup
    <3> QED
      BY <3>1, <2>1 DEF GroupsInv, Phases, ConfigPhases, GroupPhases
  <2> QED
    BY <2>4, <2>5
<1>5. CASE CreateGroupFails
  <2>1. phase = "groups" /\ phase' = phase /\ NextGroup \in GroupNos
        /\ ctrlGroups \in Seq(Nat) /\ controller \in Layouts
        /\ controller # <<>> /\ bInitOk' = FALSE
        /\ UNCHANGED <<controller, jointNames_userDefined>>
        /\ ctrlGroups' = Append(ctrlGroups, NextGroup)
        /\ DOMAIN jointNames_userDefined = GroupNos
    BY <1>5 DEF CreateGroupFails, GroupsInv, GroupPhases
  <2>2. NextGroup \in Nat /\ Len(ctrlGroups) + 1 <= Len(controller)
        /\ Len(ctrlGroups) \in Nat
    BY <2>1, LenProperties, ControllerShape, FileAssumption
    DEF NextGroup, GroupNos
  <2>3. ctrlGroups' \in Seq(Nat) /\ Len(ctrlGroups') = Len(ctrlGroups) + 1
    BY <2>1, <2>2, AppendProperties
  <2>4. bInitOk' \in BOOLEAN
    BY Zenon, <2>1
  <2> QED
    BY <2>1, <2>2, <2>3, <2>4
    DEF GroupsInv, Phases, ConfigPhases, GroupPhases, GroupNos
<1>6. CASE GroupsCreated
  <2>1. phase = "groups" /\ NextGroup \notin GroupNos
        /\ phase' \in {"job", "asserted"}
        /\ UNCHANGED <<controller, ctrlGroups, jointNames_userDefined, bInitOk,
                       joint_names>>
    BY <1>6 DEF GroupsCreated, groupVars, settingVars
  <2>2. phase' = "job" => bInitOk = TRUE
    BY <1>6 DEF GroupsCreated, GroupsInv
  <2>3. controller # <<>> /\ controller \in Layouts
        /\ ctrlGroups \in Seq(Nat) /\ Len(ctrlGroups) <= Len(controller)
    BY <2>1 DEF GroupsInv, GroupPhases
  <2>4. Len(ctrlGroups) \in Nat /\ Len(controller) \in Nat
    BY <2>3, LenProperties, ControllerShape, FileAssumption
  <2>5. Len(ctrlGroups) = Len(controller)
    BY <2>1, <2>3, <2>4 DEF NextGroup, GroupNos
  <2>6. CASE phase' = "asserted"
    BY <2>1, <2>3, <2>6 DEF GroupsInv, Phases, ConfigPhases, GroupPhases
  <2>7. CASE phase' = "job"
    <3>1. \A grp : Named(grp)' <=> Named(grp)
      BY <2>1 DEF Named, NamesInMotoOrder, AllNamed
    <3>2. GroupNos' = GroupNos
      BY <2>1 DEF GroupNos
    <3> QED
      BY <2>1, <2>2, <2>3, <2>5, <2>7, <3>1, <3>2
      DEF GroupsInv, Phases, ConfigPhases, GroupPhases
  <2> QED
    BY <2>1, <2>6, <2>7
<1>7. CASE InitMonitor \/ ValidateJob
  <2>1. \/ phase = "job" /\ phase' = "monitor"
        \/ phase = "monitor" /\ phase' = "running"
        \/ phase' = "asserted"
    BY <1>7 DEF InitMonitor, ValidateJob, CreateJob, CreateJobFails, CheckJob,
       CheckJobOverruns, CheckJobUnopened, Checked
  <2>2. UNCHANGED <<controller, ctrlGroups, jointNames_userDefined, bInitOk,
                    joint_names>>
    BY <1>7 DEF InitMonitor, ValidateJob, groupVars, settingVars
  <2>3. \A grp : Named(grp)' <=> Named(grp)
    BY <2>2 DEF Named, NamesInMotoOrder, AllNamed
  <2>4. GroupNos' = GroupNos
    BY <2>2 DEF GroupNos
  <2> QED
    BY <2>1, <2>2, <2>3, <2>4
    DEF GroupsInv, Phases, ConfigPhases, GroupPhases
<1>8. CASE EndSession
  BY <1>8 DEF EndSession, GroupsInv, Phases, ConfigPhases, GroupPhases
<1>9. CASE UNCHANGED nameVars
  BY <1>1, <1>9 DEF nameVars, configVars, settingVars
<1> QED
  BY <1>2, <1>3, <1>4, <1>5, <1>6, <1>7, <1>8, <1>9
  DEF JobNext, NamesNext, EditJob
-----------------------------------------------------------------------------

(* The names that are published are those of the session that runs.        *)
LEMMA PublishedStep ==
  ASSUME PublishedInv, GroupsInv, [JobNext]_<<nameVars, jobVars>>
  PROVE  PublishedInv'
<1> SUFFICES ASSUME phase' = "running"
             PROVE  names' = [grp \in GroupNos |-> PublishedNames(grp)]'
  BY DEF PublishedInv
<1>1. CASE InitMonitor
  <2>1. UNCHANGED <<controller, joint_names>>
    BY <1>1 DEF InitMonitor, settingVars
  <2>2. \A grp : PublishedNames(grp)' = PublishedNames(grp)
    BY <2>1 DEF PublishedNames
  <2> QED
    BY <1>1, <2>1, <2>2 DEF InitMonitor, GroupNos
<1>2. CASE UNCHANGED nameVars
  <2>1. UNCHANGED <<controller, joint_names, phase, names>>
    BY <1>2 DEF nameVars, configVars, settingVars
  <2>2. \A grp : PublishedNames(grp)' = PublishedNames(grp)
    BY <2>1 DEF PublishedNames
  <2> QED
    BY <2>1, <2>2 DEF PublishedInv, GroupNos
<1>3. CASE ConfigNext
  BY <1>3, ConfigStays DEF ConfigPhases
<1>4. CASE InitController \/ CreateGroup \/ CreateGroupFails
           \/ GroupsCreated \/ EndSession \/ ValidateJob
  BY <1>4 DEF InitController, CreateGroup, CreateGroupFails, GroupsCreated,
     EndSession, ValidateJob, CreateJob, CreateJobFails, CheckJob,
     CheckJobOverruns, CheckJobUnopened, Checked
<1> QED
  BY <1>1, <1>2, <1>3, <1>4 DEF JobNext, NamesNext, EditJob

(* The header of the job the program makes names every group, and its      *)
(* lines are those it looks for.                                           *)
LEMMA CreatedJobIsOk ==
  ASSUME controller \in Layouts, job = CreatedJob
  PROVE  HeaderNamesAll /\ LinesOk /\ job # NoJob
<1>1. HeaderNamesAll
  <2> SUFFICES ASSUME NEW grp \in GroupNos
               PROVE  \E line \in job.header : controller[grp].id \in line[2]
    BY DEF HeaderNamesAll, Ids
  <2>1. PICK p \in Controllers :
          controller = [k \in DOMAIN p |-> Created(p[k])]
    BY DEF Layouts
  <2>2. DOMAIN p = GroupNos
    BY <2>1, ControllerShape DEF GroupNos
  <2>3. \A k \in GroupNos : /\ controller[k].id = p[k].id
                            /\ IsRobot(controller[k]) <=> p[k].id \in RobotIds
    BY <2>1, <2>2 DEF Created, IsRobot
  <2>4. \A k \in GroupNos :
          p[k].id \in RobotIds => controller[k].base = p[k].baseTrack
    BY <2>1, <2>2 DEF Created
  <2>5. \E r \in GroupNos : controller[grp].id \in GroupLine(controller[r])
    <3>1. CASE p[grp].id \in RobotIds \cup StationIds
      BY <2>3, <3>1 DEF GroupLine, IsStation
    <3>2. CASE \E r \in DOMAIN p :
                 p[r].id \in RobotIds /\ p[grp].id \in p[r].baseTrack
      BY <2>2, <2>3, <2>4, <3>2 DEF GroupLine
    <3> QED
      BY <2>2, <3>1, <3>2, GroupsAssumption
  <2>6. PICK r \in GroupNos : controller[grp].id \in GroupLine(controller[r])
    BY <2>5
  <2>7. r \in Lined
    BY <2>6 DEF Lined
  <2>8. <<LineNo(r), GroupLine(controller[r])>> \in job.header
    BY <2>7 DEF CreatedJob
  <2> QED
    BY <2>6, <2>8
<1>2. LinesOk /\ job # NoJob
  <2>1. job.lines = rosInitJobLines
    BY DEF CreatedJob
  <2>2. Len(rosInitJobLines) = 8 /\ rosInitJobLines[1] # "none"
    BY DEF rosInitJobLines
  <2>3. NoJob.lines[1] = "none"
    BY DEF NoJob
  <2> QED
    BY <2>1, <2>2, <2>3 DEF LinesOk
<1> QED
  BY <1>1, <1>2

(* The job the program made stays the one it would make: the operator's    *)
(* edit clears madeHere, and the layout stays for the session.             *)
LEMMA JobStep ==
  ASSUME JobInv, GroupsInv, [JobNext]_<<nameVars, jobVars>>
  PROVE  JobInv'
<1>1. ASSUME UNCHANGED jobVars, controller # <<>> => UNCHANGED controller
      PROVE  JobInv'
  <2>1. HeaderFits' = HeaderFits /\ LinesOk' = LinesOk
    BY <1>1 DEF HeaderFits, LinesOk, jobVars
  <2>2. controller # <<>> =>
          HeaderNamesAll' = HeaderNamesAll /\ CreatedJob' = CreatedJob
    BY <1>1 DEF HeaderNamesAll, Ids, jobVars, CreatedJob, GroupNos, Lined, LineNo
  <2> QED
    BY <1>1, <2>1, <2>2 DEF JobInv, jobVars
<1>2. CASE NamesNext /\ UNCHANGED jobVars
  <2>1. controller # <<>> => UNCHANGED controller
    BY <1>2 DEF NamesNext, InitController, CreateGroup, CreateGroupFails,
       GroupsCreated, InitMonitor, EndSession
  <2> QED
    BY <1>1, <1>2, <2>1
<1>3. CASE ValidateJob
  <2>1. UNCHANGED controller /\ controller # <<>> /\ controller \in Layouts
    BY <1>3 DEF ValidateJob, CreateJob, CreateJobFails, CheckJob,
       CheckJobOverruns, CheckJobUnopened, Checked, GroupsInv, GroupPhases
  <2>2. CreatedJob' = CreatedJob
    BY <2>1 DEF CreatedJob, GroupNos, Lined, LineNo
  <2>3. madeHere = TRUE => HeaderNamesAll /\ LinesOk /\ job # NoJob
    BY <2>1, CreatedJobIsOk DEF JobInv
  <2>4. CASE CreateJob
    <3>1. madeHere' \in BOOLEAN
      BY Zenon, <2>4 DEF CreateJob
    <3> QED
      BY <3>1, <2>1, <2>2, <2>4 DEF CreateJob, JobInv
  <2>5. CASE CreateJobFails
    BY <2>1, <2>2, <2>3, <2>5 DEF CreateJobFails, JobInv
  <2>6. CASE CheckJob
    <3>1. UNCHANGED <<job, madeHere>> /\ madeHere' \in BOOLEAN
      <4>1. UNCHANGED <<job, madeHere>>
        BY <2>6 DEF CheckJob
      <4>2. madeHere \in BOOLEAN
        BY DEF JobInv
      <4> QED
        BY Zenon, <4>1, <4>2
    <3>2. /\ HeaderFits' = HeaderFits /\ LinesOk' = LinesOk
          /\ HeaderNamesAll' = HeaderNamesAll
      BY <3>1, <2>1 DEF HeaderFits, LinesOk, HeaderNamesAll, Ids, GroupNos
    <3>3. PICK headerOk \in HeaderOk :
            verdict' = IF g_nodeConfigSettings.allow_custom_inform_job
                         THEN "custom"
                       ELSE IF headerOk /\ LinesOk THEN "ok" ELSE "invalid"
      BY Zenon, <2>6 DEF CheckJob
    <3>4. HeaderFits => (headerOk <=> HeaderNamesAll)
      BY <3>3 DEF HeaderOk
    <3>5. madeHere' = TRUE /\ HeaderFits' => verdict' \notin {"invalid", "failed"}
      BY <3>1, <3>2, <3>3, <3>4, <2>3
    <3>6. verdict' = "ok" /\ HeaderFits' => HeaderNamesAll' /\ LinesOk'
      BY <3>2, <3>3, <3>4
    <3>7. madeHere' = TRUE => job' = CreatedJob' /\ controller' # <<>>
      BY <3>1, <2>1, <2>2 DEF JobInv
    <3> QED
      BY <3>1, <3>5, <3>6, <3>7, <2>1 DEF JobInv
  <2>7. CASE CheckJobUnopened
    BY <2>1, <2>2, <2>7 DEF CheckJobUnopened, JobInv
  <2>8. CASE CheckJobOverruns
    BY <1>1, <2>1, <2>8 DEF CheckJobOverruns
  <2> QED
    BY <1>3, <2>4, <2>5, <2>6, <2>7, <2>8 DEF ValidateJob
<1>4. CASE EditJob
  <2>1. madeHere' = FALSE /\ madeHere' \in BOOLEAN /\ verdict' = "unknown"
    BY Zenon, <1>4 DEF EditJob
  <2> QED
    BY <2>1 DEF JobInv
<1>5. CASE UNCHANGED <<nameVars, jobVars>>
  BY <1>1, <1>5 DEF nameVars
<1> QED
  BY <1>2, <1>3, <1>4, <1>5 DEF JobNext

(* At power on nothing is copied, created or published.                    *)
LEMMA StartupInvInit == JobInit => StartupInv
<1> SUFFICES ASSUME JobInit PROVE StartupInv
  OBVIOUS
<1> USE DEF JobInit, NamesInit, ConfigInit
<1>1. CopyInv
  <2>1. told \in BOOLEAN /\ unread \in BOOLEAN
    BY Zenon
  <2> QED
    BY <2>1 DEF CopyInv
<1>2. GroupsInv
  <2>1. bInitOk \in BOOLEAN
    BY Zenon
  <2> QED
    BY <2>1 DEF GroupsInv, Phases, ConfigPhases, GroupPhases
<1>3. PublishedInv
  BY DEF PublishedInv
<1>4. JobInv
  <2>1. madeHere = FALSE /\ madeHere \in BOOLEAN /\ verdict = "unknown"
    BY Zenon
  <2> QED
    BY <2>1 DEF JobInv
<1> QED
  BY <1>1, <1>2, <1>3, <1>4 DEF StartupInv

(* Step by step, and so always.                                            *)
LEMMA StartupInvHolds == JobSpec => []StartupInv
<1>1. StartupInv /\ [JobNext]_<<nameVars, jobVars>> => StartupInv'
  BY CopyStep, GroupsStep, PublishedStep, JobStep DEF StartupInv
<1> QED
  BY StartupInvInit, <1>1, PTL DEF JobSpec

(* PartialFileIsKnown: wherever power is lost while the file is copied,    *)
(* the controller does not come up with half of it in silence.             *)
THEOREM NoHalfFile == JobSpec => []PartialFileIsKnown
<1>1. StartupInv => PartialFileIsKnown
  BY DEF StartupInv, CopyInv, PartialFileIsKnown
<1> QED
  BY <1>1, StartupInvHolds, PTL

(* JobJudgedRightly: where the lines of its header fit the array of the    *)
(* check, the job the program made passes as long as nobody edits it, and  *)
(* a job for other groups does not pass, whatever robots, stations and     *)
(* bases the controller has.                                               *)
THEOREM JobsJudged == JobSpec => []JobJudgedRightly
<1>1. StartupInv => JobJudgedRightly
  BY DEF StartupInv, JobInv, JobJudgedRightly
<1> QED
  BY <1>1, StartupInvHolds, PTL
-----------------------------------------------------------------------------

(* Place i of the published names is that of the axis it stands for: the   *)
(* monitor, which reorders the names of seven axes only, and the groups,   *)
(* which count the valid axes, mean the same slot.                         *)
LEMMA PlaceOfAxis ==
  ASSUME NEW g, Layout(g), NEW i \in Joints(g)
  PROVE  ConfigIndex(g, AxisOfJoint(g, i)) =
           IF SevenAxes(g)
             THEN IF i < 2 THEN i ELSE IF i = 2 THEN i + 4 ELSE i - 1
           ELSE i
<1>1. g.numAxes \in Nat /\ g.numAxes = Cardinality(ValidAxes(g))
      /\ Joints(g) = 0 .. g.numAxes - 1
  BY AxesCounted DEF Layout, Joints
<1>2. AxisOfJoint(g, i) \in ValidAxes(g)
  BY OrdersAgree
<1>3. CASE HasGaps(g)
  <2>1. ~SevenAxes(g)
    BY <1>1, <1>3 DEF HasGaps, SevenAxes
  <2>2. Rank(g, ValidAxis(g, i)) = i
    BY <1>1, ScanFinds
  <2> QED
    BY <1>3, <2>1, <2>2 DEF AxisOfJoint, ConfigIndex, Rank
<1>4. CASE ~HasGaps(g)
  <2>1. ValidAxes(g) = 0 .. g.numAxes - 1
    BY <1>4 DEF Layout
  <2>2. \A a \in ValidAxes(g) : ConfigIndex(g, a) = a
    <3> TAKE a \in ValidAxes(g)
    <3>0. a \in 0 .. g.numAxes - 1 /\ g.numAxes \in Nat
      BY Zenon, <1>1, <2>1
    <3>1. a \in Nat /\ a < g.numAxes /\ g.numAxes \in Nat
      BY <3>0
    <3>2. \A b \in 0 .. g.numAxes - 1 : b < a <=> b \in 0 .. a - 1
      BY <3>1
    <3>3. 0 .. a - 1 \subseteq 0 .. g.numAxes - 1
      BY <3>1
    <3>4. {b \in ValidAxes(g) : b < a} = 0 .. a - 1
      BY <2>1, <3>2, <3>3
    <3>5. Cardinality(0 .. a - 1) = a
      BY <3>1, FS_Interval
    <3> QED
      BY <3>4, <3>5 DEF ConfigIndex
  <2>3. AxisOfJoint(g, i) =
          IF SevenAxes(g) THEN IF i < 2 THEN i ELSE IF i = 2 THEN 6 ELSE i - 1
          ELSE i
    BY <1>4 DEF AxisOfJoint
  <2> QED
    BY <1>1, <1>2, <2>2, <2>3
<1> QED
  BY <1>3, <1>4

(* What a running session has: groups that are laid out and named, and     *)
(* their names published.                                                  *)
LEMMA Running ==
  ASSUME StartupInv, phase = "running"
  PROVE  /\ \A k \in GroupNos : /\ Layout(controller[k]) /\ Named(k)
                                /\ names[k] = PublishedNames(k)
         /\ GroupNos = DOMAIN controller /\ controller \in Layouts
<1>1. controller \in Layouts /\ bInitOk = TRUE
      /\ Len(ctrlGroups) = Len(controller)
      /\ \A k \in 1 .. Len(ctrlGroups) : Named(k)
  BY DEF StartupInv, GroupsInv, GroupPhases
<1>2. names = [k \in GroupNos |-> PublishedNames(k)]
  BY DEF StartupInv, PublishedInv
<1> QED
  BY <1>1, <1>2, ControllerShape DEF GroupNos

(* A name is published for the axis that bears it.                         *)
LEMMA NameOfPlace ==
  ASSUME StartupInv, phase = "running",
         NEW k \in GroupNos, NEW i \in Joints(controller[k])
  PROVE  LET a == AxisOfJoint(controller[k], i) IN
         /\ a \in ValidAxes(controller[k]) /\ a \in Axes
         /\ jointNames_userDefined[k][a] = NameAt(<<k, i>>)
         /\ NameAt(<<k, i>>) # Blank
<1> DEFINE g == controller[k]
           a == AxisOfJoint(g, i)
<1>1. Layout(g) /\ Named(k) /\ names[k] = PublishedNames(k)
  BY Running
<1>2. a \in ValidAxes(g) /\ a \in Axes
  BY <1>1, OrdersAgree DEF ValidAxes
<1>3. NameAt(<<k, i>>) = joint_names[Slot(k, ConfigIndex(g, a))]
  BY <1>1, PlaceOfAxis DEF NameAt, PublishedNames
<1> HIDE DEF a
<1>4. jointNames_userDefined[k][a] = joint_names[Slot(k, ConfigIndex(g, a))]
  BY <1>1, <1>2 DEF Named, NamesInMotoOrder, ValidAxes
<1>5. jointNames_userDefined[k][a] # Blank
  BY <1>1, <1>2 DEF Named, AllNamed
<1> QED
  BY <1>2, <1>3, <1>4, <1>5 DEF a

(* Where all published names differ, a trajectory finds the axis a place   *)
(* stands for by the name of the place.                                    *)
LEMMA NameResolved ==
  ASSUME StartupInv, phase = "running", NamesDistinct,
         NEW k \in GroupNos, NEW i \in Joints(controller[k])
  PROVE  /\ Bearers(NameAt(<<k, i>>)) # {}
         /\ Resolved(NameAt(<<k, i>>)) = <<k, AxisOfJoint(controller[k], i)>>
<1> DEFINE a == AxisOfJoint(controller[k], i)
           name == NameAt(<<k, i>>)
<1>1. a \in Axes /\ jointNames_userDefined[k][a] = name /\ name # Blank
  BY NameOfPlace
<1>2. i \in Axes /\ k \in Int /\ a \in Int
  <2>1. /\ controller[k].numAxes \in Nat
        /\ controller[k].numAxes <= MAX_PULSE_AXES
    BY Running, AxesCounted DEF Layout
  <2>2. k \in Int /\ a \in Int
    BY <1>1, AxesCounted DEF GroupNos
  <2> QED
    BY <2>1, <2>2, AxesAssumption DEF Joints, Axes
<1>3. ASSUME NEW q \in GroupNos \X Axes,
             jointNames_userDefined[q[1]][q[2]] = name
      PROVE  q = <<k, a>>
  <2>1. PICK h \in GroupNos, b \in Axes : q = <<h, b>>
    BY SMT
  <2>2. jointNames_userDefined[h][b] = name
    BY <1>3, <2>1
  <2>3. Layout(controller[h]) /\ Named(h)
    BY Running
  <2>4. b \in ValidAxes(controller[h])
    BY <1>1, <2>2, <2>3 DEF Named, NamesInMotoOrder, ValidAxes
  <2>5. PICK j \in Joints(controller[h]) : AxisOfJoint(controller[h], j) = b
    BY <2>3, <2>4, OrdersAgree
  <2>6. NameAt(<<h, j>>) = name /\ j \in Axes
    <3>1. controller[h].numAxes \in Nat
          /\ controller[h].numAxes <= MAX_PULSE_AXES
      BY <2>3, AxesCounted DEF Layout
    <3>2. j \in Axes
      BY <3>1, AxesAssumption DEF Joints, Axes
    <3> QED
      BY <2>2, <2>5, <3>2, NameOfPlace
  <2>7. <<h, j>> \in Places /\ <<k, i>> \in Places
    BY <1>2, <2>6 DEF Places
  <2>8. <<h, j>> = <<k, i>>
    BY <2>6, <2>7 DEF NamesDistinct
  <2>9. h = k /\ j = i
    BY <2>8
  <2> QED
    BY <2>1, <2>5, <2>9
<1> HIDE DEF a, name
<1>4. Bearers(name) = {<<k, a>>}
  BY <1>1, <1>3 DEF Bearers
<1>5. Resolved(name) = <<k, a>>
  BY <1>2, <1>4 DEF Resolved
<1> QED
  BY <1>4, <1>5 DEF a, name

(* Each axis of a group is given its position by the one place that stands *)
(* for it.                                                                 *)
LEMMA PositionsSent ==
  ASSUME StartupInv, phase = "running", NamesDistinct, NEW grp \in GroupNos,
         NEW a \in ValidAxes(controller[grp])
  PROVE  SentBack(grp)[a] = <<Pulses[a], Conversion(controller[grp], a)>>
<1> DEFINE g == controller[grp]
           of(b) == {p \in Places : Bearers(NameAt(p)) # {}
                                      /\ Resolved(NameAt(p)) = <<grp, b>>}
           pos == [b \in Axes |-> IF of(b) = {} THEN <<0, 1>>
                                  ELSE Reported(CHOOSE p \in of(b) : TRUE)]
<1>1. Layout(g)
  BY Running
<1>2. pos[a] = <<Pulses[a], Conversion(g, a)>>
  <2>1. PICK i \in Joints(g) : AxisOfJoint(g, i) = a
    BY <1>1, OrdersAgree
  <2>2. a \in Axes /\ i \in Axes
    <3>1. g.numAxes \in Nat /\ g.numAxes <= MAX_PULSE_AXES
      BY <1>1, AxesCounted DEF Layout
    <3> QED
      BY <3>1, AxesAssumption DEF Joints, Axes, ValidAxes
  <2>3. <<grp, i>> \in of(a)
    BY <2>1, <2>2, NameResolved DEF Places
  <2>4. ASSUME NEW p \in of(a)
        PROVE  p = <<grp, i>>
    <3>1. p \in Places /\ Resolved(NameAt(p)) = <<grp, a>>
      OBVIOUS
    <3>2. PICK k \in GroupNos, j \in Axes :
            p = <<k, j>> /\ j \in Joints(controller[k])
      BY <3>1 DEF Places
    <3>3. <<k, AxisOfJoint(controller[k], j)>> = <<grp, a>>
      BY <3>1, <3>2, NameResolved
    <3>4. k = grp /\ j = i
      BY <3>2, <3>3, <2>1, <1>1, OrdersAgree
    <3> QED
      BY <3>2, <3>4
  <2> HIDE DEF of
  <2>5. (CHOOSE p \in of(a) : TRUE) = <<grp, i>>
    BY <2>3, <2>4
  <2>6. pos[a] = Reported(<<grp, i>>)
    BY <2>2, <2>3, <2>5
  <2>7. Reported(<<grp, i>>) = MotoUnitsToRosUnits(g, Pulses)[a]
    BY <2>1 DEF Reported, ConvertToRosPos, MotoToSequential
  <2> QED
    BY <2>2, <2>6, <2>7 DEF MotoUnitsToRosUnits, ValidAxes
<1> QED
  BY <1>2 DEF SentBack

(* Where B is a slave, the joints it is compensated by, and B itself, are  *)
(* those of the axes the compensation in moto order takes.                 *)
LEMMA SlaveJoints ==
  ASSUME NEW c \in Layouts, NEW grp \in DOMAIN c, c[grp].bIsBaxisSlave
  PROVE  LET g == c[grp] IN
         /\ ValidAxes(g) = {0, 1, 2, 4, 5} /\ Joints(g) = 0 .. 4
         /\ AxisOfJoint(g, 1) = 1 /\ AxisOfJoint(g, 2) = 2
         /\ AxisOfJoint(g, BJoint) = BAxis
<1> DEFINE g == c[grp]
<1>1. PICK p \in Controllers : c = [k \in DOMAIN p |-> Created(p[k])]
  BY DEF Layouts
<1>2. grp \in DOMAIN p /\ g = Created(p[grp])
  BY <1>1
<1>3. p[grp].numAxes = 5 /\ p[grp].slaveAxis
  <2>1. Created(p[grp]).bIsBaxisSlave = (p[grp].numAxes = 5 /\ p[grp].slaveAxis)
    BY SMT DEF Created
  <2>2. Created(p[grp]).bIsBaxisSlave
    BY Zenon, <1>2
  <2> QED
    BY Zenon, <2>1, <2>2
<1>4. p[grp].id \in RobotIds /\ ValidAxes(g) = {0, 1, 2, 4, 5}
  BY <1>2, <1>3, ControllersAssumption
<1>5. g.numAxes = 5 /\ g.robot = TRUE
  <2>1. g.numAxes = p[grp].numAxes /\ g.robot = (p[grp].id \in RobotIds)
    BY <1>2 DEF Created
  <2> QED
    BY <2>1, <1>3, <1>4
<1>6. HasGaps(g) /\ ~SevenAxes(g) /\ Joints(g) = 0 .. 4
  BY <1>5 DEF HasGaps, SevenAxes, IsRobot, Joints
<1>7. g.numAxes = Cardinality(ValidAxes(g))
  BY <1>2, ControllersAssumption DEF Layout
<1>a. Cardinality(ValidAxes(g)) = 5
  BY <1>5, <1>7
<1> HIDE DEF g
<1>8. Rank(g, 1) = 1 /\ Rank(g, 2) = 2 /\ Rank(g, 4) = 3
  <2>1. {b \in ValidAxes(g) : b < 1} = 0 .. 0 /\ {b \in ValidAxes(g) : b < 2} = 0 .. 1
        /\ {b \in ValidAxes(g) : b < 4} = 0 .. 2
    BY <1>4
  <2>2. \A n, m \in Nat : m = n + 1 => Cardinality(0 .. n) = m
    BY FS_Interval
  <2>3. Cardinality(0 .. 0) = 1 /\ Cardinality(0 .. 1) = 2
        /\ Cardinality(0 .. 2) = 3
    <3>1. {0, 1, 2, 3} \subseteq Nat /\ 1 = 0 + 1 /\ 2 = 1 + 1 /\ 3 = 2 + 1
      OBVIOUS
    <3> QED
      BY Zenon, <2>2, <3>1
  <2>4. Rank(g, 1) = Cardinality(0 .. 0) /\ Rank(g, 2) = Cardinality(0 .. 1)
        /\ Rank(g, 4) = Cardinality(0 .. 2)
    BY Zenon, <2>1 DEF Rank
  <2> QED
    BY <2>3, <2>4
<1>9. ASSUME NEW i \in Joints(g), NEW a \in ValidAxes(g), Rank(g, a) = i
      PROVE  AxisOfJoint(g, i) = a
  <2> DEFINE b == ValidAxis(g, i)
  <2>1. b \in ValidAxes(g) /\ Rank(g, b) = i
    BY <1>6, <1>a, ScanFinds
  <2>2. AxisOfJoint(g, i) = b
    BY <1>6 DEF AxisOfJoint
  <2> HIDE DEF b
  <2>3. ~(a < b) /\ ~(b < a) /\ a \in Nat /\ b \in Nat
    BY <2>1, <1>9, <1>5, <1>7, RankRises, AxesCounted
  <2> QED
    BY <2>2, <2>3
<1>10. AxisOfJoint(g, 1) = 1 /\ AxisOfJoint(g, 2) = 2 /\ AxisOfJoint(g, 3) = 4
  BY <1>4, <1>6, <1>8, <1>9
<1> QED
  BY <1>4, <1>6, <1>10 DEF BAxis, BJoint, g

(* The start of what is sent back is the command position, compensated in  *)
(* moto order on the one side and in the order of ROS on the other.        *)
LEMMA StartMatches ==
  ASSUME StartupInv, phase = "running", NamesDistinct, NEW grp \in GroupNos,
         controller[grp].bIsBaxisSlave
  PROVE  StartPulses(grp)
           = GetPulsePosCmd(controller[grp], PulsesOf(controller[grp]))
<1> DEFINE g == controller[grp]
           sent == SentBack(grp)
           ros == ConvertToRosPos(g, PulsesOf(g))
           offset(p, b) == Plus(Minus(p[b], p[1]), p[2])
           moved == [ros EXCEPT ![BJoint] = offset(ros, BJoint)]
           accepted == [sent EXCEPT ![BAxis] = offset(sent, BAxis)]
           back == SequentialToMoto(g, moved, <<0, 1>>)
<1>1. Layout(g) /\ controller \in Layouts /\ grp \in DOMAIN controller
  BY Running
<1>2. /\ ValidAxes(g) = {0, 1, 2, 4, 5} /\ Joints(g) = 0 .. 4
      /\ AxisOfJoint(g, 1) = 1 /\ AxisOfJoint(g, 2) = 2
      /\ AxisOfJoint(g, 3) = 4
  BY <1>1, SlaveJoints DEF BAxis, BJoint
<1>3. \A a \in ValidAxes(g) : a \in Axes
                              /\ sent[a] = <<Pulses[a], Conversion(g, a)>>
  BY PositionsSent, AxesCounted
<1>4. DOMAIN sent = Axes /\ DOMAIN ros = Joints(g)
  BY DEF SentBack, ConvertToRosPos, MotoToSequential
<1>5. ASSUME NEW i \in Joints(g)
      PROVE  ros[i] = sent[AxisOfJoint(g, i)]
  <2>1. AxisOfJoint(g, i) \in ValidAxes(g)
    BY <1>1, OrdersAgree
  <2> HIDE DEF sent
  <2> QED
    BY <2>1, <1>3
       DEF ConvertToRosPos, MotoToSequential, MotoUnitsToRosUnits, PulsesOf,
           ValidAxes
<1> HIDE DEF sent, ros
<1>6. offset(ros, BJoint) = offset(sent, BAxis)
  BY <1>2, <1>5 DEF BAxis, BJoint
<1>7. ASSUME NEW a \in ValidAxes(g)
      PROVE  back[a] = accepted[a]
  <2>1. HasJoint(g, a)
    BY <1>1, OrdersAgree DEF HasJoint
  <2> DEFINE j == JointOfAxis(g, a)
  <2>2. j \in Joints(g) /\ AxisOfJoint(g, j) = a
    BY <2>1 DEF HasJoint, JointOfAxis
  <2>3. back[a] = moved[j]
    BY <2>1, <1>3 DEF SequentialToMoto
  <2> HIDE DEF j, back, offset
  <2>4. CASE j = BJoint
    <3>1. a = BAxis
      BY <2>2, <2>4, <1>2 DEF BJoint, BAxis
    <3> QED
      BY <2>2, <2>3, <2>4, <3>1, <1>3, <1>4, <1>6
  <2>5. CASE j # BJoint
    <3>1. a # BAxis
      BY <2>2, <2>5, <1>1, <1>2, OrdersAgree DEF BJoint, BAxis
    <3> QED
      BY <2>2, <2>3, <2>5, <3>1, <1>3, <1>4, <1>5
  <2> QED
    BY <2>4, <2>5
<1>8. StartPulses(grp) = RosUnitsToMotoUnits(g, accepted)
  BY DEF StartPulses, Accepted, Compensated, sent
<1>9. GetPulsePosCmd(g, PulsesOf(g)) = RosUnitsToMotoUnits(g, back)
  BY DEF GetPulsePosCmd, Compensated, ConvertToMotoPos, ros
<1> HIDE DEF back, accepted
<1>10. RosUnitsToMotoUnits(g, back) = RosUnitsToMotoUnits(g, accepted)
  <2>1. \A a \in Axes : IsInvalidAxis(g, a) \/ a \in ValidAxes(g)
    BY DEF ValidAxes
  <2> QED
    BY <1>7, <2>1 DEF RosUnitsToMotoUnits
<1> QED
  BY <1>8, <1>9, <1>10

(* An axis whose position is not compensated is commanded to where it is.  *)
LEMMA PulsesKept ==
  ASSUME StartupInv, phase = "running", NamesDistinct, NEW grp \in GroupNos,
         NEW pos, NEW a \in Axes,
         a \in ValidAxes(controller[grp]) => pos[a] = SentBack(grp)[a]
  PROVE  RosUnitsToMotoUnits(controller[grp], pos)[a]
           = PulsesOf(controller[grp])[a]
<1> DEFINE g == controller[grp]
<1>1. CASE IsInvalidAxis(g, a)
  BY <1>1 DEF RosUnitsToMotoUnits, PulsesOf
<1>2. CASE ~IsInvalidAxis(g, a)
  <2>1. a \in ValidAxes(g)
    BY <1>2 DEF ValidAxes
  <2>2. Conversion(g, a) \in Nat \ {0} /\ Pulses[a] \in Int
    BY RatioAssumption, ControllersAssumption DEF Conversion
  <2>3. pos[a][1] = Pulses[a] /\ pos[a][2] = Conversion(g, a)
    <3>1. pos[a] = <<Pulses[a], Conversion(g, a)>>
      BY <2>1, PositionsSent
    <3> QED
      BY <3>1
  <2>4. Truncated(pos[a][1] * Conversion(g, a), pos[a][2]) = Pulses[a]
    BY <2>2, <2>3, ScaleBack
  <2> QED
    BY <1>2, <2>4 DEF RosUnitsToMotoUnits, PulsesOf
<1> QED
  BY <1>1, <1>2

(* Both together, for a group of any kind.                                 *)
LEMMA StillWhenSentBack ==
  ASSUME StartupInv, phase = "running", NamesDistinct, NEW grp \in GroupNos
  PROVE  LET g == controller[grp] IN
         /\ StartPulses(grp) = GetPulsePosCmd(g, PulsesOf(g))
         /\ \A a \in Axes : a # BAxis \/ ~g.bIsBaxisSlave
                              => TargetPulses(grp)[a] = PulsesOf(g)[a]
<1> DEFINE g == controller[grp]
<1>1. ASSUME NEW a \in Axes, a # BAxis \/ ~g.bIsBaxisSlave
      PROVE  TargetPulses(grp)[a] = PulsesOf(g)[a]
  <2>1. Compensated(g, Accepted(grp), BAxis)[a] = SentBack(grp)[a]
    <3>1. \A pos : Compensated(g, pos, BAxis)[a] = pos[a]
      BY <1>1 DEF Compensated
    <3> QED
      BY <3>1 DEF Accepted
  <2> QED
    BY <2>1, PulsesKept DEF TargetPulses
<1>2. CASE g.bIsBaxisSlave
  BY <1>1, <1>2, StartMatches
<1>3. CASE ~g.bIsBaxisSlave
  <2>1. Accepted(grp) = SentBack(grp)
    BY <1>3 DEF Accepted, Compensated
  <2>2. \A a \in Axes : StartPulses(grp)[a] = PulsesOf(g)[a]
    BY <2>1, PulsesKept DEF StartPulses
  <2>3. StartPulses(grp) = PulsesOf(g)
    BY <2>2 DEF StartPulses, RosUnitsToMotoUnits, PulsesOf
  <2>4. GetPulsePosCmd(g, PulsesOf(g)) = PulsesOf(g)
    BY <1>3 DEF GetPulsePosCmd
  <2> QED
    BY <1>1, <2>3, <2>4
<1> QED
  BY <1>2, <1>3

(* SentBackIsStill: in every session, a client that sends back the         *)
(* positions it is told under the names it is told starts where the group  *)
(* is commanded to be, and commands each axis to where it is, but for the  *)
(* B axis of a slave, which the code compensates twice.                    *)
THEOREM PositionsAgree == JobSpec => []SentBackIsStill
<1>1. StartupInv => SentBackIsStill
  BY StillWhenSentBack DEF SentBackIsStill
<1> QED
  BY <1>1, StartupInvHolds, PTL
-----------------------------------------------------------------------------
(***************************************************************************)
(* How the parser stands to the file: which event comes next, and what the *)
(* events before it have set.  The lists of joint_names follow each other  *)
(* in the events, each with a mark at either end.                          *)
(***************************************************************************)
ListsOf(f) == [k \in DOMAIN f.lists |-> NameList(f.lists[k])]
Flat(f) ==
  LET flatten[i \in 1 .. Len(ListsOf(f))] ==
        IF i = 1 THEN ListsOf(f)[i] ELSE flatten[i - 1] \o ListsOf(f)[i]
  IN  flatten
Offset(f, j) == IF j = 0 THEN 0 ELSE Len(Flat(f)[j])

(* p events are read, the others still to come.                            *)
Read(p) ==
  /\ IsSequence(events) /\ p + Len(events) = Len(EventsOf(file))
  /\ \A k \in 1 .. Len(events) : events[k] = EventsOf(file)[p + k]

(* The item the parser takes a word for.                                   *)
ItemOf(word) == IF word \in DOMAIN typeOfValue THEN word ELSE NoItem

(* A setting after the first n entries.                                    *)
SettingAfter(f, key, n) ==
  LET D == {i \in Decisive(f, key) : i <= n} IN
  IF D = {} THEN Defaults[key]
  ELSE Value(key, EntriesOf(f)[Max(D)][2], Defaults[key])
SetUpTo(n) ==
  /\ DOMAIN g_nodeConfigSettings = Keys
  /\ WithinArray(file) => \A key \in Keys :
       g_nodeConfigSettings[key] = SettingAfter(file, key, n)

(* The names of the first j lists, and c of the next, are in their slots,  *)
(* and none in any other.                                                  *)
FiledName(grp, q, j, c) ==
  IF /\ grp <= j \/ (grp = j + 1 /\ q < c)
     /\ grp \in DOMAIN file.lists /\ q < Len(file.lists[grp])
    THEN file.lists[grp][q + 1] ELSE Blank
Places8 == 0 .. MP_GRP_AXES_NUM - 1
FiledUpTo(j, c) ==
  Listed(file) =>
    \A grp \in 1 .. MAX_CONTROLLABLE_GROUPS : \A q \in Places8 :
      joint_names[Slot(grp, q)] = FiledName(grp, q, j, c)
Filed == FiledUpTo(Len(file.lists), 0)
Fresh == /\ nestedListCounter = 0 /\ joint_names_iterator = 0
         /\ joint_names = [s \in 0 .. Slots - 1 |-> Blank]

Entered(p, n, last) ==
  /\ SetUpTo(n)
  /\ \/ Read(p) /\ activeItem = NoItem
     \/ /\ n < last /\ Read(p + 1)
        /\ activeItem = ItemOf(EntriesOf(file)[n + 1][1])

AtStart == Read(0) /\ activeItem = NoItem /\ Fresh /\ SetUpTo(0)
BeforeNames ==
  /\ Fresh
  /\ \E n \in 0 .. Len(file.before) : Entered(1 + 2 * n, n, Len(file.before))
BehindNames ==
  /\ Filed
  /\ \E n \in Len(file.before) .. Len(file.before) + Len(file.after) :
       Entered(1 + Len(NamesEvents(file)) + 2 * n, n,
               Len(file.before) + Len(file.after))
AtEnd == /\ events = <<>> /\ Filed
         /\ SetUpTo(Len(file.before) + Len(file.after))

BetweenLists(j) ==
  /\ Read(3 + 2 * Len(file.before) + Offset(file, j))
  /\ nestedListCounter = 1
  /\ joint_names_iterator = j * MP_GRP_AXES_NUM
  /\ FiledUpTo(j, 0)
InList(j, k, c) ==
  /\ Read(4 + 2 * Len(file.before) + Offset(file, j) + k)
  /\ nestedListCounter = 2
  /\ joint_names_iterator = j * MP_GRP_AXES_NUM + c
  /\ jointIteratorCountdownPerGroup = MP_GRP_AXES_NUM - c
  /\ FiledUpTo(j, c)
  /\ Listed(file) => c = k
InNames ==
  /\ file.names = "lists" /\ activeItem = "joint_names"
  /\ SetUpTo(Len(file.before))
  /\ \/ Read(2 + 2 * Len(file.before)) /\ Fresh
     \/ \E j \in 0 .. Len(file.lists) : BetweenLists(j)
     \/ \E j \in 0 .. Len(file.lists) - 1 :
          \E k \in 0 .. Len(file.lists[j + 1]) : \E c \in 0 .. k :
            InList(j, k, c)

ParseInv ==
  /\ phase \in {"usb", "copy", "rename", "open"} =>
       /\ activeItem = NoItem /\ Fresh
       /\ g_nodeConfigSettings = Defaults
  /\ phase \notin {"usb", "copy", "rename", "open", "asserted"} =>
       file \in Files
  /\ phase = "parse" /\ file.names # "blank" =>
       AtStart \/ BeforeNames \/ InNames \/ BehindNames \/ AtEnd

FiledKeys == {"log_to_stdout", "robot_status", "publish_tf", "ros_domain_id",
              "executor_sleep_period"}
FinalSetting(key) ==
  \/ g_nodeConfigSettings[key] = SettingIn(file, key)
  \/ key = "executor_sleep_period" /\ SettingIn(file, key) \notin 1 .. 100
     /\ g_nodeConfigSettings[key] = 10
SettingsInv ==
  /\ phase \in {"validate", "init"} \cup GroupPhases
  /\ file.names # "blank" /\ WithinArray(file)
  => /\ DOMAIN g_nodeConfigSettings = Keys
     /\ phase = "validate" =>
          \A key \in Keys : g_nodeConfigSettings[key] = SettingIn(file, key)
     /\ phase # "validate" => \A key \in FiledKeys : FinalSetting(key)

(* Default names in all places of a group.                                 *)
Defaulted(grp) ==
  \A k \in Joints(controller[grp]) :
    joint_names[Slot(grp, k)] = DefaultName(grp, k)
AllDefaulted == controller # <<>> /\ \A grp \in GroupNos : Defaulted(grp)

(* The slots hold the names of the file, or the default names.             *)
SlotsInv ==
  phase \notin {"usb", "copy", "rename", "open", "asserted"} =>
    /\ phase \in {"validate", "init"} => Filed \/ AllDefaulted
    /\ phase \in GroupPhases /\ bInitOk = TRUE =>
         \/ /\ bShouldSetJointNamesToDefaultValues = FALSE
            /\ Filed \/ AllDefaulted
         \/ /\ bShouldSetJointNamesToDefaultValues = TRUE
            /\ \A grp \in 1 .. Len(ctrlGroups) : Defaulted(grp)
-----------------------------------------------------------------------------
(* A nonempty set of natural numbers has a least one.                      *)
LEMMA LeastNat ==
  ASSUME NEW T, T \subseteq Nat, T # {}
  PROVE  \E x \in T : \A y \in T : x <= y
<1> DEFINE R == {ss \in Nat \X Nat : ss[1] < ss[2]}
<1>1. OpToRel(<, Nat) = R
  BY Zenon DEF OpToRel
<1>4. IsWellFoundedOn(R, Nat)
  BY <1>1, NatLessThanWellFounded, Zenon
<1>2. PICK x \in T : \A y \in T : ~ (<<y, x>> \in R)
  <2> HIDE DEF R
  <2> QED
    BY <1>4, WFMin, Zenon
<1>3. ASSUME NEW y \in T PROVE x <= y
  <2>1. <<y, x>> \in Nat \X Nat /\ <<y, x>> \notin R
    BY <1>2
  <2>2. ~(y < x)
    BY <2>1
  <2> QED
    BY <2>2
<1> QED
  BY <1>3

(* Induction, over a set.                                                  *)
LEMMA NatInd ==
  ASSUME NEW T, 0 \in T, \A n \in Nat : n \in T => n + 1 \in T
  PROVE  Nat \subseteq T
<1> SUFFICES ASSUME Nat \ T # {} PROVE FALSE
  OBVIOUS
<1>1. PICK x \in Nat \ T : \A y \in Nat \ T : x <= y
  BY LeastNat
<1>2. x # 0 /\ x - 1 \in Nat /\ x - 1 \in T
  BY <1>1
<1> QED
  BY <1>1, <1>2

-----------------------------------------------------------------------------
(* Sequences, whatever their elements.                                     *)
LEMMA SequenceShape ==
  ASSUME NEW s, IsSequence(s)
  PROVE  Len(s) \in Nat /\ DOMAIN s = 1 .. Len(s)
         /\ s = [i \in 1 .. Len(s) |-> s[i]]
<1>1. Len(s) \in Nat /\ s \in [1 .. Len(s) -> Range(s)]
  BY LenProperties DEF IsSequence
<1> QED
  BY <1>1

(* A function of 1 .. n is a sequence of length n.                         *)
LEMMA ASequence ==
  ASSUME NEW s, NEW n \in Nat, s = [i \in 1 .. n |-> s[i]]
  PROVE  IsSequence(s) /\ Len(s) = n
<1>1. s \in [1 .. n -> Range(s)]
  BY DEF Range
<1>2. IsSequence(s)
  BY <1>1, SeqDef DEF IsSequence
<1>3. Len(s) \in Nat /\ 1 .. Len(s) = 1 .. n
  BY <1>2, SequenceShape
<1> QED
  BY <1>2, <1>3

(* Concatenation, element by element.                                      *)
LEMMA Joined ==
  ASSUME NEW s, NEW t, IsSequence(s), IsSequence(t)
  PROVE  /\ IsSequence(s \o t) /\ Len(s \o t) = Len(s) + Len(t)
         /\ \A i \in 1 .. Len(s) : (s \o t)[i] = s[i]
         /\ \A i \in 1 .. Len(t) : (s \o t)[Len(s) + i] = t[i]
<1> DEFINE S == Range(s) \cup Range(t)
<1>1. s \in Seq(S) /\ t \in Seq(S)
  BY SeqMonotonic DEF IsSequence
<1>2. Len(s) \in Nat /\ Len(t) \in Nat
  BY SequenceShape
<1>3. s \o t \in Seq(S) /\ Len(s \o t) = Len(s) + Len(t)
      /\ \A i \in 1 .. Len(s) + Len(t) :
           (s \o t)[i] = IF i <= Len(s) THEN s[i] ELSE t[i - Len(s)]
  BY <1>1, ConcatProperties
<1>4. IsSequence(s \o t)
  <2> DEFINE u == s \o t
  <2>1. u \in Seq(S)
    BY <1>3
  <2> HIDE DEF u
  <2>2. Len(u) \in Nat /\ u = [i \in 1 .. Len(u) |-> u[i]]
    BY <2>1, LenProperties
  <2>3. IsSequence(u)
    BY <2>2, ASequence
  <2> QED
    BY <2>3 DEF u
<1>5. ASSUME NEW i \in 1 .. Len(s) PROVE (s \o t)[i] = s[i]
  BY <1>2, <1>3
<1>6. ASSUME NEW i \in 1 .. Len(t) PROVE (s \o t)[Len(s) + i] = t[i]
  <2>1. Len(s) + i \in 1 .. Len(s) + Len(t) /\ ~(Len(s) + i <= Len(s))
        /\ Len(s) + i - Len(s) = i
    BY <1>2
  <2> QED
    BY <2>1, <1>3
<1> QED
  BY <1>3, <1>4, <1>5, <1>6

(* Tail, element by element.                                               *)
LEMMA TailShape ==
  ASSUME NEW s, IsSequence(s), s # <<>>
  PROVE  /\ Len(s) \in Nat \ {0} /\ IsSequence(Tail(s))
         /\ Len(Tail(s)) = Len(s) - 1
         /\ \A i \in 1 .. Len(s) - 1 : Tail(s)[i] = s[i + 1]
<1> DEFINE S == Range(s)
<1>1. s \in Seq(S)
  BY DEF IsSequence
<1>2. Len(s) \in Nat \ {0}
  BY <1>1, EmptySeq
<1>3. Tail(s) \in Seq(S) /\ Len(Tail(s)) = Len(s) - 1
      /\ \A i \in 1 .. Len(s) - 1 : Tail(s)[i] = s[i + 1]
  BY <1>1, HeadTailProperties
<1>4. Tail(s) = [i \in 1 .. Len(s) - 1 |-> Tail(s)[i]]
  BY <1>3, LenProperties
<1>5. Len(s) - 1 \in Nat
  BY <1>2
<1>6. IsSequence(Tail(s))
  BY <1>4, <1>5, ASequence
<1> QED
  BY <1>2, <1>3, <1>6

(* Sequences of no, one and two elements.                                  *)
LEMMA SmallSequences ==
  /\ IsSequence(<<>>) /\ Len(<<>>) = 0
  /\ \A x : IsSequence(<<x>>) /\ Len(<<x>>) = 1 /\ <<x>>[1] = x
  /\ \A x, y : /\ IsSequence(<<x, y>>) /\ Len(<<x, y>>) = 2
               /\ <<x, y>>[1] = x /\ <<x, y>>[2] = y
<1>1. IsSequence(<<>>) /\ Len(<<>>) = 0
  BY EmptySeq DEF IsSequence
<1>2. ASSUME NEW x PROVE IsSequence(<<x>>) /\ Len(<<x>>) = 1 /\ <<x>>[1] = x
  <2>1. <<x>> = [i \in 1 .. 1 |-> <<x>>[i]]
    OBVIOUS
  <2> QED
    BY <2>1, ASequence
<1>3. ASSUME NEW x, NEW y
      PROVE  /\ IsSequence(<<x, y>>) /\ Len(<<x, y>>) = 2
             /\ <<x, y>>[1] = x /\ <<x, y>>[2] = y
  <2>1. <<x, y>> = [i \in 1 .. 2 |-> <<x, y>>[i]]
    OBVIOUS
  <2> QED
    BY <2>1, ASequence
<1> QED
  BY <1>1, <1>2, <1>3
-----------------------------------------------------------------------------

(* Joining a list of sequences one after another can be done.              *)
LEMMA FlatExists ==
  ASSUME NEW q, NEW n \in Nat
  PROVE  \E h : h = [i \in 1 .. n |-> IF i = 1 THEN q[i] ELSE h[i - 1] \o q[i]]
<1> DEFINE J(h, m) == h = [i \in 1 .. m |-> IF i = 1 THEN q[i]
                                            ELSE h[i - 1] \o q[i]]
           T == {m \in Nat : \E h : J(h, m)}
<1>1. 0 \in T
  <2>1. J([i \in 1 .. 0 |-> q[i]], 0)
    OBVIOUS
  <2> QED
    BY <2>1
<1>2. ASSUME NEW m \in Nat, m \in T PROVE m + 1 \in T
  <2>1. PICK h : J(h, m)
    BY <1>2
  <2> DEFINE g == [i \in 1 .. m + 1 |-> IF i = 1 THEN q[i]
                                        ELSE h[i - 1] \o q[i]]
  <2>2. ASSUME NEW i \in 1 .. m + 1, i # 1
        PROVE  g[i - 1] = h[i - 1]
    <3>1. i - 1 \in 1 .. m /\ i - 1 \in 1 .. m + 1
      BY <2>2
    <3> QED
      BY <3>1, <2>1
  <2>3. g = [i \in 1 .. m + 1 |-> IF i = 1 THEN q[i] ELSE g[i - 1] \o q[i]]
    BY <2>2
  <2> HIDE DEF g
  <2>4. \E h1 : h1 = [i \in 1 .. m + 1 |-> IF i = 1 THEN q[i]
                                             ELSE h1[i - 1] \o q[i]]
    BY <2>3, Zenon
  <2>5. m + 1 \in Nat
    OBVIOUS
  <2> QED
    BY <2>4, <2>5, Zenon
<1> HIDE DEF T
<1>3. n \in T
  BY <1>1, <1>2, NatInd
<1> QED
  BY <1>3 DEF T

(* FlattenSeq of the name lists is what the partial sums of Flat end in.   *)
LEMMA FlatOfLists ==
  ASSUME NEW f, Len(ListsOf(f)) \in Nat
  PROVE  /\ Flat(f) = [i \in 1 .. Len(ListsOf(f)) |->
                         IF i = 1 THEN ListsOf(f)[i]
                         ELSE Flat(f)[i - 1] \o ListsOf(f)[i]]
         /\ FlattenSeq(ListsOf(f)) = IF Len(ListsOf(f)) = 0 THEN ListsOf(f)
                                     ELSE Flat(f)[Len(ListsOf(f))]
<1> DEFINE q == ListsOf(f)
<1>1. Flat(f) = [i \in 1 .. Len(q) |-> IF i = 1 THEN q[i]
                                       ELSE Flat(f)[i - 1] \o q[i]]
  BY FlatExists, Zenon DEF Flat
<1>2. FlattenSeq(q) = IF Len(q) = 0 THEN q ELSE Flat(f)[Len(q)]
  BY Zenon DEF FlattenSeq, Flat
<1> QED
  BY <1>1, <1>2

(* A list of names with its marks.                                         *)
LEMMA NameListShape ==
  ASSUME NEW l, IsSequence(l)
  PROVE  /\ IsSequence(NameList(l)) /\ Len(NameList(l)) = Len(l) + 2
         /\ NameList(l)[1] = Mark("start")
         /\ \A k \in 1 .. Len(l) : NameList(l)[1 + k] = Scalar(l[k])
         /\ NameList(l)[Len(l) + 2] = Mark("end")
<1> DEFINE t == [k \in DOMAIN l |-> Scalar(l[k])]
           a == <<Mark("start")>>
           z == <<Mark("end")>>
<1>1. Len(l) \in Nat /\ DOMAIN l = 1 .. Len(l)
  BY SequenceShape
<1>2. IsSequence(t) /\ Len(t) = Len(l)
      /\ \A k \in 1 .. Len(l) : t[k] = Scalar(l[k])
  <2>1. t = [k \in 1 .. Len(l) |-> t[k]]
    BY <1>1
  <2>2. \A k \in 1 .. Len(l) : t[k] = Scalar(l[k])
    BY <1>1
  <2> HIDE DEF t
  <2> QED
    BY <2>1, <2>2, <1>1, ASequence
<1>3. IsSequence(a) /\ Len(a) = 1 /\ a[1] = Mark("start")
      /\ IsSequence(z) /\ Len(z) = 1 /\ z[1] = Mark("end")
  BY SmallSequences, Zenon
<1>4. NameList(l) = (a \o t) \o z
  BY DEF NameList
<1> HIDE DEF t, a, z
<1>5. IsSequence(a \o t) /\ Len(a \o t) = 1 + Len(l)
      /\ (a \o t)[1] = Mark("start")
      /\ \A k \in 1 .. Len(l) : (a \o t)[1 + k] = Scalar(l[k])
  <2>1. IsSequence(a \o t) /\ Len(a \o t) = Len(a) + Len(t)
        /\ (\A i \in 1 .. Len(a) : (a \o t)[i] = a[i])
        /\ \A i \in 1 .. Len(t) : (a \o t)[Len(a) + i] = t[i]
    <3>1. IsSequence(a) /\ IsSequence(t)
      BY <1>2, <1>3
    <3> QED
      BY <3>1, Joined
  <2> QED
    BY <2>1, <1>1, <1>2, <1>3
<1> DEFINE u == a \o t
<1>6. IsSequence(u \o z) /\ Len(u \o z) = Len(u) + 1
      /\ (\A i \in 1 .. Len(u) : (u \o z)[i] = u[i])
      /\ (u \o z)[Len(u) + 1] = Mark("end")
  <2>1. 1 \in 1 .. Len(z)
    BY <1>3
  <2> HIDE DEF u
  <2>2. IsSequence(u)
    BY <1>5 DEF u
  <2>3. IsSequence(u \o z) /\ Len(u \o z) = Len(u) + Len(z)
        /\ (\A i \in 1 .. Len(u) : (u \o z)[i] = u[i])
        /\ \A i \in 1 .. Len(z) : (u \o z)[Len(u) + i] = z[i]
    <3>1. IsSequence(u) /\ IsSequence(z)
      BY <2>2, <1>3
    <3> QED
      BY <3>1, Joined
  <2> QED
    BY <2>1, <2>3, <1>3
<1> HIDE DEF u
<1>7. Len(u) = 1 + Len(l) /\ u[1] = Mark("start")
      /\ \A k \in 1 .. Len(l) : u[1 + k] = Scalar(l[k])
  BY <1>5 DEF u
<1>8. NameList(l) = u \o z
  BY <1>4 DEF u
<1>9. \A k \in 1 .. Len(l) : (u \o z)[1 + k] = Scalar(l[k])
  <2> TAKE k \in 1 .. Len(l)
  <2>1. 1 + k \in 1 .. Len(u)
    BY <1>1, <1>7
  <2> QED
    BY <2>1, <1>6, <1>7
<1>10. (u \o z)[1] = Mark("start")
  <2>1. 1 \in 1 .. Len(u)
    BY <1>1, <1>7
  <2> QED
    BY <2>1, <1>6, <1>7
<1> QED
  BY <1>1, <1>6, <1>7, <1>8, <1>9, <1>10

(* The parts of a file are sequences.                                      *)
LEMMA FileShape ==
  ASSUME NEW f \in Files
  PROVE  /\ IsSequence(f.before) /\ IsSequence(f.after)
         /\ IsSequence(f.lists) /\ Len(f.lists) \in Nat
         /\ DOMAIN f.lists = 1 .. Len(f.lists)
         /\ \A j \in 1 .. Len(f.lists) : IsSequence(f.lists[j])
         /\ Len(f.before) \in Nat /\ Len(f.after) \in Nat
<1>1. IsSequence(f.before) /\ IsSequence(f.after) /\ IsSequence(f.lists)
      /\ \A l \in Range(f.lists) : IsSequence(l)
  BY FilesAssumption
<1>2. Len(f.lists) \in Nat /\ DOMAIN f.lists = 1 .. Len(f.lists)
      /\ Len(f.before) \in Nat /\ Len(f.after) \in Nat
  BY <1>1, SequenceShape
<1> QED
  BY <1>1, <1>2 DEF Range

(* The events of the lists, one sequence for each list.                    *)
LEMMA ListsShape ==
  ASSUME NEW f \in Files
  PROVE  /\ IsSequence(ListsOf(f)) /\ Len(ListsOf(f)) = Len(f.lists)
         /\ \A j \in 1 .. Len(f.lists) : ListsOf(f)[j] = NameList(f.lists[j])
<1> DEFINE q == ListsOf(f)
<1>1. q = [j \in 1 .. Len(f.lists) |-> NameList(f.lists[j])]
  BY FileShape DEF ListsOf
<1> HIDE DEF q
<1>2. q = [j \in 1 .. Len(f.lists) |-> q[j]]
  BY <1>1
<1> QED
  BY <1>1, <1>2, FileShape, ASequence DEF q

(* Each list follows the one before it.                                    *)
LEMMA FlatStep ==
  ASSUME NEW f \in Files, NEW j \in 1 .. Len(f.lists)
  PROVE  /\ IsSequence(Flat(f)[j])
         /\ Flat(f)[j] = IF j = 1 THEN NameList(f.lists[j])
                         ELSE Flat(f)[j - 1] \o NameList(f.lists[j])
<1> DEFINE n == Len(f.lists)
           T == {m \in Nat : m \in 1 .. n => IsSequence(Flat(f)[m])}
<1>1. n \in Nat
  BY FileShape
<1>2. \A i \in 1 .. n :
        Flat(f)[i] = IF i = 1 THEN NameList(f.lists[i])
                     ELSE Flat(f)[i - 1] \o NameList(f.lists[i])
  <2>1. Len(ListsOf(f)) = n
        /\ \A i \in 1 .. n : ListsOf(f)[i] = NameList(f.lists[i])
    BY ListsShape
  <2>2. Flat(f) = [i \in 1 .. Len(ListsOf(f)) |->
                     IF i = 1 THEN ListsOf(f)[i]
                     ELSE Flat(f)[i - 1] \o ListsOf(f)[i]]
    BY <2>1, <1>1, FlatOfLists
  <2> QED
    BY <2>1, <2>2
<1>3. \A i \in 1 .. n : IsSequence(NameList(f.lists[i]))
  BY FileShape, NameListShape
<1>4. 0 \in T
  OBVIOUS
<1>5. ASSUME NEW m \in Nat, m \in T PROVE m + 1 \in T
  <2> SUFFICES ASSUME m + 1 \in 1 .. n PROVE IsSequence(Flat(f)[m + 1])
    OBVIOUS
  <2>1. CASE m = 0
    BY <2>1, <1>2, <1>3
  <2>2. CASE m # 0
    <3>1. m \in 1 .. n /\ IsSequence(Flat(f)[m]) /\ m + 1 # 1 /\ m + 1 - 1 = m
      BY <1>5, <2>2
    <3>2. Flat(f)[m + 1] = Flat(f)[m] \o NameList(f.lists[m + 1])
      <4>1. PICK i \in 1 .. n : i = m + 1 /\ i # 1 /\ i - 1 = m
        BY <3>1
      <4>2. Flat(f)[i] = Flat(f)[i - 1] \o NameList(f.lists[i])
        BY <4>1, <1>2
      <4> QED
        BY <4>1, <4>2
    <3>3. IsSequence(NameList(f.lists[m + 1]))
      BY <1>3
    <3> QED
      BY <3>1, <3>2, <3>3, Joined
  <2> QED
    BY <2>1, <2>2
<1>6. j \in Nat /\ j \in 1 .. n
  BY <1>1
<1> HIDE DEF T
<1>7. j \in T
  BY <1>4, <1>5, <1>6, NatInd
<1> QED
  BY <1>2, <1>6, <1>7 DEF T
-----------------------------------------------------------------------------

(* A list takes up one event for each name and one for either end.         *)
LEMMA OffsetStep ==
  ASSUME NEW f \in Files, NEW j \in 0 .. Len(f.lists) - 1
  PROVE  /\ Offset(f, j) \in Nat
         /\ Offset(f, j + 1) = Offset(f, j) + Len(f.lists[j + 1]) + 2
<1> DEFINE n == Len(f.lists)
<1>1. n \in Nat /\ j \in Nat /\ j + 1 \in 1 .. n /\ j + 1 - 1 = j
  BY FileShape
<1>2. IsSequence(f.lists[j + 1]) /\ Len(f.lists[j + 1]) \in Nat
  BY <1>1, FileShape, SequenceShape
<1>3. IsSequence(NameList(f.lists[j + 1]))
      /\ Len(NameList(f.lists[j + 1])) = Len(f.lists[j + 1]) + 2
  BY <1>2, NameListShape
<1>4. PICK i \in 1 .. n : i = j + 1
  BY <1>1
<1>5. CASE j = 0
  <2>1. Flat(f)[i] = NameList(f.lists[i])
    BY <1>4, <1>5, FlatStep
  <2> QED
    BY <2>1, <1>1, <1>2, <1>3, <1>4, <1>5 DEF Offset
<1>6. CASE j # 0
  <2>1. j \in 1 .. n /\ i # 1 /\ i - 1 = j
    BY <1>1, <1>4, <1>6
  <2>2. Flat(f)[i] = Flat(f)[j] \o NameList(f.lists[i])
    BY <2>1, FlatStep
  <2>3. IsSequence(Flat(f)[j])
    BY <2>1, FlatStep
  <2>4. Len(Flat(f)[i]) = Len(Flat(f)[j]) + Len(NameList(f.lists[i]))
    BY <2>2, <2>3, <1>3, <1>4, Joined
  <2>5. Len(Flat(f)[j]) \in Nat
    BY <2>3, SequenceShape
  <2>6. Offset(f, j) = Len(Flat(f)[j])
    BY <1>6 DEF Offset
  <2>7. Offset(f, i) = Len(Flat(f)[i])
    BY <1>1, <1>4 DEF Offset
  <2>8. Len(NameList(f.lists[i])) = Len(f.lists[j + 1]) + 2
    BY <1>3, <1>4
  <2>9. Offset(f, i) = Offset(f, j) + (Len(f.lists[j + 1]) + 2)
    BY <2>4, <2>6, <2>7, <2>8, Zenon
  <2>10. PICK x \in Nat, y \in Nat :
            x = Offset(f, j) /\ y = Len(f.lists[j + 1])
    BY <2>5, <2>6, <1>2, Zenon
  <2>11. Offset(f, j + 1) = x + (y + 2)
    BY <2>9, <2>10, <1>4, Zenon
  <2>12. Offset(f, j + 1) = x + y + 2
    BY <2>11
  <2> QED
    BY <2>10, <2>12, Zenon
<1> QED
  BY <1>5, <1>6

(* What the first lists have put there stays as further lists follow.      *)
LEMMA FlatPrefix ==
  ASSUME NEW f \in Files, NEW j \in 1 .. Len(f.lists),
         NEW m \in j .. Len(f.lists)
  PROVE  /\ Offset(f, j) \in Nat /\ Offset(f, m) \in Nat
         /\ Offset(f, j) <= Offset(f, m)
         /\ \A i \in 1 .. Offset(f, j) : Flat(f)[m][i] = Flat(f)[j][i]
<1> DEFINE n == Len(f.lists)
           P(e) == /\ Offset(f, j) <= Offset(f, e)
                   /\ \A i \in 1 .. Offset(f, j) :
                        Flat(f)[e][i] = Flat(f)[j][i]
           T == {d \in Nat : j + d <= n => P(j + d)}
<1>1. n \in Nat /\ j \in Nat /\ m \in Nat /\ m - j \in Nat /\ m <= n
  BY FileShape
<1>2. ASSUME NEW e \in 1 .. n
      PROVE  /\ IsSequence(Flat(f)[e]) /\ Offset(f, e) = Len(Flat(f)[e])
             /\ Offset(f, e) \in Nat
  <2>1. IsSequence(Flat(f)[e]) /\ Len(Flat(f)[e]) \in Nat
    BY FlatStep, SequenceShape
  <2> QED
    BY <1>1, <2>1 DEF Offset
<1>3. 0 \in T
  BY <1>1, <1>2
<1>4. ASSUME NEW d \in Nat, d \in T PROVE d + 1 \in T
  <2> SUFFICES ASSUME j + (d + 1) <= n PROVE P(j + (d + 1))
    OBVIOUS
  <2>1. PICK e \in 1 .. n : e = j + d /\ P(e)
    BY <1>1, <1>4
  <2>2. PICK c \in 1 .. n : c = j + (d + 1) /\ c # 1 /\ c - 1 = e
    BY <1>1, <2>1
  <2>3. Flat(f)[c] = Flat(f)[e] \o NameList(f.lists[c])
    BY <2>2, FlatStep
  <2>4. Offset(f, e) <= Offset(f, c)
    <3>1. e \in 0 .. n - 1 /\ c = e + 1
      BY <1>1, <2>1, <2>2
    <3>2. PICK y : y = Len(f.lists[e + 1])
      OBVIOUS
    <3>3. y \in Nat
      BY <3>1, <3>2, FileShape, SequenceShape
    <3>4. Offset(f, c) = Offset(f, e) + y + 2
      BY <3>1, <3>2, OffsetStep
    <3> QED
      BY <3>3, <3>4, <1>2, SMTT(30)
  <2>5. ASSUME NEW i \in 1 .. Offset(f, e)
        PROVE  Flat(f)[c][i] = Flat(f)[e][i]
    <3>1. IsSequence(Flat(f)[e]) /\ i \in 1 .. Len(Flat(f)[e])
      BY <1>2
    <3>2. IsSequence(NameList(f.lists[c]))
      BY FileShape, NameListShape
    <3>3. \A s, t : IsSequence(s) /\ IsSequence(t) =>
            \A k \in 1 .. Len(s) : (s \o t)[k] = s[k]
      BY Joined
    <3>4. (Flat(f)[e] \o NameList(f.lists[c]))[i] = Flat(f)[e][i]
      BY <3>1, <3>2, <3>3, Zenon
    <3> QED
      BY <2>3, <3>4, Zenon
  <2>6. P(c)
    <3>1. Offset(f, j) <= Offset(f, c)
      BY <2>1, <2>4, <1>2
    <3>2. ASSUME NEW i \in 1 .. Offset(f, j)
          PROVE  Flat(f)[c][i] = Flat(f)[j][i]
      <4>1. i \in 1 .. Offset(f, e) /\ Flat(f)[e][i] = Flat(f)[j][i]
        BY <2>1, <1>2
      <4> QED
        BY <4>1, <2>5
    <3> QED
      BY <3>1, <3>2
  <2> QED
    BY <2>2, <2>6
<1> HIDE DEF T, P
<1>5. m - j \in T
  BY <1>1, <1>3, <1>4, NatInd
<1>6. P(m)
  <2>1. j + (m - j) = m
    BY <1>1
  <2> QED
    BY <1>1, <1>5, <2>1 DEF T
<1>7. m \in 1 .. n
  BY <1>1
<1> QED
  BY <1>2, <1>6, <1>7 DEF P

(* The events of joint_names: key, mark, lists, mark.                      *)
LEMMA NamesEventsShape ==
  ASSUME NEW f \in Files, f.names = "lists"
  PROVE  LET n == Len(f.lists)  N == NamesEvents(f) IN
         /\ IsSequence(N) /\ Len(N) = 3 + Offset(f, n) /\ Offset(f, n) \in Nat
         /\ N[1] = Scalar(<<"joint_names">>) /\ N[2] = Mark("start")
         /\ N[3 + Offset(f, n)] = Mark("end")
         /\ \A i \in 1 .. Offset(f, n) : N[2 + i] = Flat(f)[n][i]
<1> DEFINE n == Len(f.lists)
           q == ListsOf(f)
           F == FlattenSeq(q)
           h == <<Scalar(<<"joint_names">>), Mark("start")>>
           z == <<Mark("end")>>
<1>1. n \in Nat /\ IsSequence(q) /\ Len(q) = n
  BY ListsShape, FileShape
<1>2. F = IF n = 0 THEN q ELSE Flat(f)[n]
  BY <1>1, FlatOfLists
<1>3. IsSequence(F) /\ Len(F) = Offset(f, n) /\ Offset(f, n) \in Nat
  <2>1. CASE n = 0
    BY <2>1, <1>1, <1>2 DEF Offset
  <2>2. CASE n # 0
    <3>1. n \in 1 .. n
      BY <1>1, <2>2
    <3>2. IsSequence(Flat(f)[n]) /\ Len(Flat(f)[n]) \in Nat
      BY <3>1, FlatStep, SequenceShape
    <3> QED
      BY <1>2, <2>2, <3>2 DEF Offset
  <2> QED
    BY <2>1, <2>2
<1>4. \A i \in 1 .. Offset(f, n) : F[i] = Flat(f)[n][i]
  BY <1>1, <1>2, <1>3 DEF Offset
<1>5. IsSequence(h) /\ Len(h) = 2 /\ h[1] = Scalar(<<"joint_names">>)
      /\ h[2] = Mark("start")
  BY SmallSequences, Zenon
<1>6. IsSequence(z) /\ Len(z) = 1 /\ z[1] = Mark("end")
  BY SmallSequences, Zenon
<1>7. NamesEvents(f) = (h \o F) \o z
  BY Zenon DEF NamesEvents, ListsOf
<1> HIDE DEF F, h, z, q
<1> DEFINE u == h \o F
<1>8. IsSequence(u) /\ Len(u) = Len(h) + Len(F)
      /\ (\A i \in 1 .. Len(h) : u[i] = h[i])
      /\ \A i \in 1 .. Len(F) : u[Len(h) + i] = F[i]
  <2>1. IsSequence(h) /\ IsSequence(F)
    BY <1>3, <1>5
  <2> QED
    BY <2>1, Joined
<1> HIDE DEF u
<1> DEFINE w == u \o z
<1>9. IsSequence(w) /\ Len(w) = Len(u) + Len(z)
      /\ (\A i \in 1 .. Len(u) : w[i] = u[i])
      /\ \A i \in 1 .. Len(z) : w[Len(u) + i] = z[i]
  <2>1. IsSequence(u) /\ IsSequence(z)
    BY <1>6, <1>8
  <2> QED
    BY <2>1, Joined
<1> HIDE DEF w
<1>10. Len(u) = 2 + Offset(f, n) /\ u[1] = h[1] /\ u[2] = h[2]
       /\ \A i \in 1 .. Offset(f, n) : u[2 + i] = F[i]
  BY <1>3, <1>5, <1>8
<1>11. Len(w) = 3 + Offset(f, n) /\ w[1] = h[1] /\ w[2] = h[2]
       /\ w[3 + Offset(f, n)] = z[1]
  BY <1>3, <1>6, <1>9, <1>10
<1>12. \A i \in 1 .. Offset(f, n) : w[2 + i] = F[i]
  <2> TAKE i \in 1 .. Offset(f, n)
  <2>1. 2 + i \in 1 .. Len(u)
    BY <1>3, <1>10
  <2> QED
    BY <2>1, <1>9, <1>10
<1>13. NamesEvents(f) = w
  BY <1>7 DEF w, u
<1> QED
  BY <1>3, <1>4, <1>5, <1>6, <1>9, <1>11, <1>12, <1>13

(* The events of one of the lists.                                         *)
LEMMA ListEvents ==
  ASSUME NEW f \in Files, f.names = "lists", NEW j \in 0 .. Len(f.lists) - 1
  PROVE  LET l == f.lists[j + 1]  N == NamesEvents(f)  o == Offset(f, j) IN
         /\ o \in Nat /\ Len(l) \in Nat
         /\ Offset(f, j + 1) = o + Len(l) + 2
         /\ Offset(f, j + 1) <= Offset(f, Len(f.lists))
         /\ N[3 + o] = Mark("start")
         /\ \A k \in 1 .. Len(l) : N[3 + o + k] = Scalar(l[k])
         /\ N[4 + o + Len(l)] = Mark("end")
<1> DEFINE n == Len(f.lists)
           l == f.lists[j + 1]
           o == Offset(f, j)
           N == NamesEvents(f)
<1>1. n \in Nat /\ j \in Nat /\ j < n
  BY FileShape
<1>2. PICK i \in 1 .. n : i = j + 1
  BY <1>1
<1>3. o \in Nat /\ Offset(f, i) = o + Len(l) + 2
  BY <1>2, OffsetStep
<1>4. IsSequence(l) /\ Len(l) \in Nat
  BY <1>2, FileShape, SequenceShape
<1>5. NameList(l)[1] = Mark("start") /\ NameList(l)[Len(l) + 2] = Mark("end")
      /\ Len(NameList(l)) = Len(l) + 2 /\ IsSequence(NameList(l))
      /\ \A k \in 1 .. Len(l) : NameList(l)[1 + k] = Scalar(l[k])
  BY <1>4, NameListShape
<1>7. Offset(f, i) <= Offset(f, n)
      /\ \A k \in 1 .. Offset(f, i) : Flat(f)[n][k] = Flat(f)[i][k]
  <2>1. n \in i .. n
    BY <1>1
  <2> QED
    BY <2>1, FlatPrefix
<1>8. \A k \in 1 .. Len(l) + 2 : Flat(f)[i][o + k] = NameList(l)[k]
  <2>1. CASE j = 0
    <3>1. Flat(f)[i] = NameList(l) /\ o = 0
      BY <1>2, <2>1, FlatStep DEF Offset
    <3> QED
      BY <3>1
  <2>2. CASE j # 0
    <3>1. j \in 1 .. n /\ i # 1 /\ i - 1 = j
      BY <1>1, <1>2, <2>2
    <3>2. Flat(f)[i] = Flat(f)[j] \o NameList(l) /\ IsSequence(Flat(f)[j])
      BY <3>1, <1>2, FlatStep
    <3>3. o = Len(Flat(f)[j])
      BY <2>2 DEF Offset
    <3>4. \A k \in 1 .. Len(NameList(l)) :
            (Flat(f)[j] \o NameList(l))[Len(Flat(f)[j]) + k] = NameList(l)[k]
      <4>1. IsSequence(NameList(l)) /\ IsSequence(Flat(f)[j])
        BY <1>5, <3>2
      <4>2. \A s, t : IsSequence(s) /\ IsSequence(t) =>
                       \A k \in 1 .. Len(t) : (s \o t)[Len(s) + k] = t[k]
        BY Joined
      <4> QED
        BY <4>1, <4>2, Zenon
    <3> QED
      BY <3>2, <3>3, <3>4, <1>5
  <2> QED
    BY <2>1, <2>2
<1>9. Offset(f, n) \in Nat
      /\ \A k \in 1 .. Offset(f, n) : N[2 + k] = Flat(f)[n][k]
  BY NamesEventsShape
<1> HIDE DEF N, o, l
<1>10. \A k \in 1 .. Len(l) + 2 : N[2 + (o + k)] = NameList(l)[k]
  <2> TAKE k \in 1 .. Len(l) + 2
  <2>1. o + k \in 1 .. Offset(f, i) /\ o + k \in 1 .. Offset(f, n)
    BY <1>3, <1>4, <1>7, <1>9
  <2> QED
    BY <2>1, <1>7, <1>8, <1>9
<1>11. N[3 + o] = Mark("start") /\ N[4 + o + Len(l)] = Mark("end")
  <2>1. 1 \in 1 .. Len(l) + 2 /\ 2 + (o + 1) = 3 + o
        /\ Len(l) + 2 \in 1 .. Len(l) + 2
        /\ 2 + (o + (Len(l) + 2)) = 4 + o + Len(l)
    BY <1>3, <1>4
  <2> QED
    BY <2>1, <1>5, <1>10
<1>12. ASSUME NEW k \in 1 .. Len(l) PROVE N[3 + o + k] = Scalar(l[k])
  <2>1. 1 + k \in 1 .. Len(l) + 2 /\ 2 + (o + (1 + k)) = 3 + o + k
    BY <1>3, <1>4
  <2> QED
    BY <2>1, <1>5, <1>10
<1> QED
  BY <1>2, <1>3, <1>4, <1>7, <1>11, <1>12 DEF N, o, l
-----------------------------------------------------------------------------
(* The parts of a file, wherever they stand in the sequence of events.     *)
LEMMA PartsJoined ==
  ASSUME NEW r, NEW s, NEW t, NEW u, NEW v, IsSequence(r), IsSequence(s),
         IsSequence(t), IsSequence(u), IsSequence(v)
  PROVE  LET e == r \o s \o t \o u \o v
             x == Len(r)  y == x + Len(s)  z == y + Len(t)  w == z + Len(u) IN
         /\ IsSequence(e) /\ Len(e) = w + Len(v)
         /\ \A i \in 1 .. Len(r) : e[i] = r[i]
         /\ \A i \in 1 .. Len(s) : e[x + i] = s[i]
         /\ \A i \in 1 .. Len(t) : e[y + i] = t[i]
         /\ \A i \in 1 .. Len(u) : e[z + i] = u[i]
         /\ \A i \in 1 .. Len(v) : e[w + i] = v[i]
<1>2. PICK k1 \in Nat, k2 \in Nat, k3 \in Nat, k4 \in Nat, k5 \in Nat :
         /\ k1 = Len(r) /\ k2 = Len(s) /\ k3 = Len(t)
         /\ k4 = Len(u) /\ k5 = Len(v)
  BY SequenceShape
<1>3. PICK a : a = r \o s
  OBVIOUS
<1>4. IsSequence(a) /\ Len(a) = k1 + k2
      /\ (\A i \in 1 .. k1 : a[i] = r[i])
      /\ \A i \in 1 .. k2 : a[k1 + i] = s[i]
  <2>1. IsSequence(r) /\ IsSequence(s)
    BY <1>2
  <2>2. IsSequence(r \o s) /\ Len(r \o s) = Len(r) + Len(s)
        /\ (\A i \in 1 .. Len(r) : (r \o s)[i] = r[i])
        /\ \A i \in 1 .. Len(s) : (r \o s)[Len(r) + i] = s[i]
    BY <2>1, Joined
  <2> QED
    BY <2>2, <1>2, <1>3
<1>5. PICK b : b = a \o t
  OBVIOUS
<1>6. IsSequence(b) /\ Len(b) = Len(a) + k3
      /\ (\A i \in 1 .. Len(a) : b[i] = a[i])
      /\ \A i \in 1 .. k3 : b[Len(a) + i] = t[i]
  <2>1. IsSequence(a) /\ IsSequence(t)
    BY <1>4
  <2>2. IsSequence(a \o t) /\ Len(a \o t) = Len(a) + Len(t)
        /\ (\A i \in 1 .. Len(a) : (a \o t)[i] = a[i])
        /\ \A i \in 1 .. Len(t) : (a \o t)[Len(a) + i] = t[i]
    BY <2>1, Joined
  <2> QED
    BY <2>2, <1>2, <1>5
<1>7. PICK c : c = b \o u
  OBVIOUS
<1>8. IsSequence(c) /\ Len(c) = Len(b) + k4
      /\ (\A i \in 1 .. Len(b) : c[i] = b[i])
      /\ \A i \in 1 .. k4 : c[Len(b) + i] = u[i]
  <2>1. IsSequence(b) /\ IsSequence(u)
    BY <1>6
  <2>2. IsSequence(b \o u) /\ Len(b \o u) = Len(b) + Len(u)
        /\ (\A i \in 1 .. Len(b) : (b \o u)[i] = b[i])
        /\ \A i \in 1 .. Len(u) : (b \o u)[Len(b) + i] = u[i]
    BY <2>1, Joined
  <2> QED
    BY <2>2, <1>2, <1>7
<1>9. PICK d : d = c \o v
  OBVIOUS
<1>10. IsSequence(d) /\ Len(d) = Len(c) + k5
       /\ (\A i \in 1 .. Len(c) : d[i] = c[i])
       /\ \A i \in 1 .. k5 : d[Len(c) + i] = v[i]
  <2>1. IsSequence(c) /\ IsSequence(v)
    BY <1>8
  <2>2. IsSequence(c \o v) /\ Len(c \o v) = Len(c) + Len(v)
        /\ (\A i \in 1 .. Len(c) : (c \o v)[i] = c[i])
        /\ \A i \in 1 .. Len(v) : (c \o v)[Len(c) + i] = v[i]
    BY <2>1, Joined
  <2> QED
    BY <2>2, <1>2, <1>9
<1>11. Len(b) = k1 + k2 + k3 /\ Len(c) = k1 + k2 + k3 + k4
       /\ Len(d) = k1 + k2 + k3 + k4 + k5
  BY <1>2, <1>4, <1>6, <1>8, <1>10
<1>12. \A i \in 1 .. k1 + k2 : d[i] = a[i]
  <2> TAKE i \in 1 .. k1 + k2
  <2>1. i \in 1 .. Len(a) /\ i \in 1 .. Len(b) /\ i \in 1 .. Len(c)
    BY <1>2, <1>4, <1>11
  <2> QED
    BY <2>1, <1>6, <1>8, <1>10
<1>13. \A i \in 1 .. k1 : d[i] = r[i]
  <2> TAKE i \in 1 .. k1
  <2>1. i \in 1 .. k1 + k2
    BY <1>2
  <2> QED
    BY <2>1, <1>4, <1>12
<1>14. \A i \in 1 .. k2 : d[k1 + i] = s[i]
  <2> TAKE i \in 1 .. k2
  <2>1. k1 + i \in 1 .. k1 + k2
    BY <1>2
  <2> QED
    BY <2>1, <1>4, <1>12
<1>15. \A i \in 1 .. k3 : d[k1 + k2 + i] = t[i]
  <2> TAKE i \in 1 .. k3
  <2>1. k1 + k2 + i \in 1 .. Len(b) /\ k1 + k2 + i \in 1 .. Len(c)
    BY <1>2, <1>11
  <2>2. b[k1 + k2 + i] = t[i]
    BY <1>4, <1>6
  <2> QED
    BY <2>1, <2>2, <1>8, <1>10
<1>16. \A i \in 1 .. k4 : d[k1 + k2 + k3 + i] = u[i]
  <2> TAKE i \in 1 .. k4
  <2>1. k1 + k2 + k3 + i \in 1 .. Len(c)
    BY <1>2, <1>11
  <2>2. c[k1 + k2 + k3 + i] = u[i]
    BY <1>8, <1>11
  <2> QED
    BY <2>1, <2>2, <1>10
<1>17. \A i \in 1 .. k5 : d[k1 + k2 + k3 + k4 + i] = v[i]
  BY <1>10, <1>11
<1>18. d = r \o s \o t \o u \o v
  BY <1>3, <1>5, <1>7, <1>9, Zenon
<1> QED
  BY <1>2, <1>10, <1>11, <1>13, <1>14, <1>15, <1>16, <1>17, <1>18

(* The events of entries: a key and its text in turn.                      *)
LEMMA EntriesShape ==
  ASSUME NEW s, IsSequence(s)
  PROVE  /\ IsSequence(Entries(s)) /\ Len(Entries(s)) = 2 * Len(s)
         /\ \A n \in 0 .. Len(s) - 1 :
              /\ Entries(s)[1 + 2 * n] = Scalar(<<s[n + 1][1]>>)
              /\ Entries(s)[2 + 2 * n] = Scalar(s[n + 1][2])
<1> PICK e : e = Entries(s)
  OBVIOUS
<1>1. PICK k \in Nat : k = Len(s)
  BY SequenceShape
<1>2. e = [i \in 1 .. 2 * k |->
             LET p == s[(i + 1) \div 2] IN
             Scalar(IF i % 2 = 1 THEN <<p[1]>> ELSE p[2])]
  BY <1>1 DEF Entries
<1>3. e = [i \in 1 .. 2 * k |-> e[i]] /\ 2 * k \in Nat
  BY <1>1, <1>2
<1>4. IsSequence(e) /\ Len(e) = 2 * k
  BY <1>3, ASequence
<1>5. ASSUME NEW n \in 0 .. k - 1
      PROVE  /\ e[1 + 2 * n] = Scalar(<<s[n + 1][1]>>)
             /\ e[2 + 2 * n] = Scalar(s[n + 1][2])
  <2>1. 1 + 2 * n \in 1 .. 2 * k /\ 2 + 2 * n \in 1 .. 2 * k
    BY <1>1
  <2>2. (1 + 2 * n + 1) \div 2 = n + 1 /\ (2 + 2 * n + 1) \div 2 = n + 1
        /\ (1 + 2 * n) % 2 = 1 /\ (2 + 2 * n) % 2 = 0
    BY <1>1
  <2>3. PICK i \in 1 .. 2 * k, j \in 1 .. 2 * k, m \in 1 .. k :
          i = 1 + 2 * n /\ j = 2 + 2 * n /\ m = n + 1
    BY <2>1
  <2>4. (i + 1) \div 2 = m /\ (j + 1) \div 2 = m /\ i % 2 = 1 /\ ~(j % 2 = 1)
    BY <2>2, <2>3
  <2>5. e[i] = Scalar(<<s[m][1]>>) /\ e[j] = Scalar(s[m][2])
    BY <1>2, <2>4, Zenon
  <2> QED
    BY <2>3, <2>5
<1> QED
  BY <1>1, <1>4, <1>5
-----------------------------------------------------------------------------
(* The events of a file: a mark, the entries before joint_names, those of  *)
(* joint_names, the entries behind, a mark.                                *)
LEMMA EventsAt ==
  ASSUME NEW f \in Files, f.names # "blank"
  PROVE  LET e == EventsOf(f)  N == NamesEvents(f)  s == EntriesOf(f)
             l == Len(N)  b == Len(f.before)  a == Len(f.after) IN
         /\ IsSequence(e) /\ IsSequence(N) /\ l \in Nat
         /\ Len(e) = 2 + l + 2 * (b + a)
         /\ e[1] = Mark("other") /\ e[Len(e)] = Mark("other")
         /\ IsSequence(s) /\ Len(s) = b + a
         /\ \A n \in 0 .. b - 1 : /\ e[2 + 2 * n] = Scalar(<<s[n + 1][1]>>)
                                  /\ e[3 + 2 * n] = Scalar(s[n + 1][2])
         /\ \A i \in 1 .. l : e[1 + 2 * b + i] = N[i]
         /\ \A n \in b .. b + a - 1 :
              /\ e[2 + l + 2 * n] = Scalar(<<s[n + 1][1]>>)
              /\ e[3 + l + 2 * n] = Scalar(s[n + 1][2])
<1> PICK m : m = <<Mark("other")>>
  OBVIOUS
<1>1. IsSequence(m) /\ Len(m) = 1 /\ m[1] = Mark("other")
  BY SmallSequences, Zenon
<1>2. IsSequence(f.before) /\ IsSequence(f.after)
  BY FileShape
<1>3. PICK b \in Nat, a \in Nat : b = Len(f.before) /\ a = Len(f.after)
  BY FileShape
<1>4. PICK B, A : B = Entries(f.before) /\ A = Entries(f.after)
  OBVIOUS
<1>5. IsSequence(B) /\ Len(B) = 2 * b
      /\ \A n \in 0 .. b - 1 : /\ B[1 + 2 * n] = Scalar(<<f.before[n + 1][1]>>)
                               /\ B[2 + 2 * n] = Scalar(f.before[n + 1][2])
  BY <1>2, <1>3, <1>4, EntriesShape
<1>6. IsSequence(A) /\ Len(A) = 2 * a
      /\ \A n \in 0 .. a - 1 : /\ A[1 + 2 * n] = Scalar(<<f.after[n + 1][1]>>)
                               /\ A[2 + 2 * n] = Scalar(f.after[n + 1][2])
  BY <1>2, <1>3, <1>4, EntriesShape
<1>7. IsSequence(NamesEvents(f))
  <2>1. CASE f.names = "lists"
    BY <2>1, NamesEventsShape
  <2>2. CASE f.names = "absent"
    <3>1. NamesEvents(f) = <<>>
      BY <2>2 DEF NamesEvents
    <3> QED
      BY <3>1, SmallSequences
  <2> QED
    BY <2>1, <2>2, FilesAssumption
<1>8. PICK N : N = NamesEvents(f)
  OBVIOUS
<1>17. PICK l \in Nat : l = Len(N)
  BY <1>7, <1>8, SequenceShape
<1>9. PICK e : e = EventsOf(f)
  OBVIOUS
<1>10. e = m \o B \o N \o A \o m
  BY <1>4, <1>8, <1>9, Zenon DEF EventsOf
<1>11. IsSequence(e) /\ Len(e) = 1 + 2 * b + l + 2 * a + 1
       /\ e[1] = m[1]
       /\ (\A i \in 1 .. 2 * b : e[1 + i] = B[i])
       /\ (\A i \in 1 .. l : e[1 + 2 * b + i] = N[i])
       /\ (\A i \in 1 .. 2 * a : e[1 + 2 * b + l + i] = A[i])
       /\ e[1 + 2 * b + l + 2 * a + 1] = m[1]
  <2>1. IsSequence(N)
    BY <1>7, <1>8
  <2>2. /\ IsSequence(e)
        /\ Len(e) = Len(m) + Len(B) + Len(N) + Len(A) + Len(m)
        /\ \A i \in 1 .. Len(m) : e[i] = m[i]
        /\ \A i \in 1 .. Len(B) : e[Len(m) + i] = B[i]
        /\ \A i \in 1 .. Len(N) : e[Len(m) + Len(B) + i] = N[i]
        /\ \A i \in 1 .. Len(A) : e[Len(m) + Len(B) + Len(N) + i] = A[i]
        /\ \A i \in 1 .. Len(m) :
             e[Len(m) + Len(B) + Len(N) + Len(A) + i] = m[i]
    <3>1. IsSequence(m) /\ IsSequence(B) /\ IsSequence(A)
      BY <1>1, <1>5, <1>6
    <3> QED
      BY <2>1, <3>1, <1>10, PartsJoined
  <2>3. 1 \in 1 .. 1
    OBVIOUS
  <2> QED
    BY <2>2, <2>3, <1>1, <1>5, <1>6, <1>17
<1>12. PICK s : s = EntriesOf(f)
  OBVIOUS
<1>13. IsSequence(s) /\ Len(s) = b + a
       /\ (\A i \in 1 .. b : s[i] = f.before[i])
       /\ \A i \in 1 .. a : s[b + i] = f.after[i]
  <2>1. PICK p, q : p = f.before /\ q = f.after
    OBVIOUS
  <2>2. s = p \o q /\ IsSequence(p) /\ IsSequence(q)
    BY <2>1, <1>2, <1>12 DEF EntriesOf
  <2>3. IsSequence(p \o q) /\ Len(p \o q) = Len(p) + Len(q)
        /\ (\A i \in 1 .. Len(p) : (p \o q)[i] = p[i])
        /\ \A i \in 1 .. Len(q) : (p \o q)[Len(p) + i] = q[i]
    BY <2>2, Joined
  <2> QED
    BY <2>1, <2>2, <2>3, <1>3
<1>14. \A n \in 0 .. b - 1 : /\ e[2 + 2 * n] = Scalar(<<s[n + 1][1]>>)
                             /\ e[3 + 2 * n] = Scalar(s[n + 1][2])
  <2> TAKE n \in 0 .. b - 1
  <2>1. PICK i \in 1 .. 2 * b, j \in 1 .. 2 * b, k \in 1 .. b :
          i = 1 + 2 * n /\ j = 2 + 2 * n /\ k = n + 1
    OBVIOUS
  <2>2. e[1 + i] = B[i] /\ e[1 + j] = B[j] /\ s[k] = f.before[k]
    BY <1>11, <1>13
  <2>3. B[i] = Scalar(<<f.before[k][1]>>) /\ B[j] = Scalar(f.before[k][2])
    BY <2>1, <1>5
  <2>4. 1 + i = 2 + 2 * n /\ 1 + j = 3 + 2 * n
    BY <2>1
  <2> QED
    BY <2>1, <2>2, <2>3, <2>4, Zenon
<1>15. \A n \in b .. b + a - 1 :
         /\ e[2 + l + 2 * n] = Scalar(<<s[n + 1][1]>>)
         /\ e[3 + l + 2 * n] = Scalar(s[n + 1][2])
  <2> TAKE n \in b .. b + a - 1
  <2>1. PICK c \in 0 .. a - 1 : c = n - b
    OBVIOUS
  <2>2. PICK i \in 1 .. 2 * a, j \in 1 .. 2 * a, k \in 1 .. a :
          i = 1 + 2 * c /\ j = 2 + 2 * c /\ k = c + 1
    BY <2>1
  <2>3. e[1 + 2 * b + l + i] = A[i] /\ e[1 + 2 * b + l + j] = A[j]
        /\ s[b + k] = f.after[k]
    BY <1>11, <1>13
  <2>4. A[i] = Scalar(<<f.after[k][1]>>) /\ A[j] = Scalar(f.after[k][2])
    BY <2>2, <1>6
  <2>5. 1 + 2 * b + l + i = 2 + l + 2 * n /\ b + k = n + 1
        /\ 1 + 2 * b + l + j = 3 + l + 2 * n
    BY <2>1, <2>2
  <2> QED
    BY <2>3, <2>4, <2>5, Zenon
<1>16. Len(e) = 2 + l + 2 * (b + a) /\ e[Len(e)] = m[1]
  <2>1. Len(e) = 1 + 2 * b + l + 2 * a + 1
        /\ 1 + 2 * b + l + 2 * a + 1 = 2 + l + 2 * (b + a)
    BY <1>11
  <2> QED
    BY <2>1, <1>11
<1> QED
  BY <1>1, <1>3, <1>7, <1>8, <1>9, <1>11, <1>12, <1>13, <1>14, <1>15, <1>16,
     <1>17

(* An event read is the next of the file.                                  *)
LEMMA ReadStep ==
  ASSUME NEW p \in Nat, Read(p), events # <<>>, events' = Tail(events),
         UNCHANGED file, IsSequence(EventsOf(file))
  PROVE  /\ Read(p + 1)' /\ Event = EventsOf(file)[p + 1]
         /\ p < Len(EventsOf(file))
<1>1. PICK n \in Nat : n = Len(EventsOf(file))
  BY SequenceShape
<1>2. IsSequence(events) /\ p + Len(events) = n
      /\ \A k \in 1 .. Len(events) : events[k] = EventsOf(file)[p + k]
  BY <1>1 DEF Read
<1>3. Len(events) \in Nat \ {0} /\ IsSequence(Tail(events))
      /\ Len(Tail(events)) = Len(events) - 1
      /\ \A k \in 1 .. Len(events) - 1 : Tail(events)[k] = events[k + 1]
  BY <1>2, TailShape, SMTT(30)
<1>4. PICK m \in Nat \ {0} : m = Len(events)
  BY <1>3
<1>5. Event = EventsOf(file)[p + 1] /\ p < n
  <2>1. 1 \in 1 .. m
    OBVIOUS
  <2> QED
    BY <2>1, <1>2, <1>4 DEF Event
<1>6. ASSUME NEW k \in 1 .. m - 1
      PROVE  Tail(events)[k] = EventsOf(file)[(p + 1) + k]
  <2>1. k + 1 \in 1 .. m /\ p + (k + 1) = (p + 1) + k
    OBVIOUS
  <2> QED
    BY <2>1, <1>2, <1>3, <1>4
<1>7. (p + 1) + Len(Tail(events)) = n
  BY <1>2, <1>3
<1>8. Read(p + 1)'
  BY <1>1, <1>3, <1>4, <1>6, <1>7 DEF Read
<1> QED
  BY <1>1, <1>5, <1>8

(* Before the last event there is one to come; behind it, none.            *)
LEMMA ReadEnds ==
  ASSUME NEW p \in Nat, Read(p), IsSequence(EventsOf(file))
  PROVE  /\ p <= Len(EventsOf(file))
         /\ events = <<>> <=> p = Len(EventsOf(file))
<1>1. PICK n \in Nat : n = Len(EventsOf(file))
  BY SequenceShape
<1>2. IsSequence(events) /\ p + Len(events) = n
  BY <1>1 DEF Read
<1>3. Len(events) \in Nat
  BY <1>2, SequenceShape
<1>4. events # <<>> => Len(events) # 0
  BY <1>2, TailShape
<1>5. events = <<>> => Len(events) = 0
  BY SmallSequences
<1> QED
  BY <1>1, <1>2, <1>3, <1>4, <1>5
-----------------------------------------------------------------------------
(* One more entry decides a setting, or leaves it as it was.               *)
LEMMA NextSetting ==
  ASSUME NEW f \in Files, NEW key \in Keys, NEW n \in Nat,
         n + 1 \in 1 .. Len(EntriesOf(f)), f.names # "blank"
  PROVE  SettingAfter(f, key, n + 1)
           = IF n + 1 \in Decisive(f, key)
               THEN Value(key, EntriesOf(f)[n + 1][2], Defaults[key])
               ELSE SettingAfter(f, key, n)
<1>1. IsSequence(EntriesOf(f)) /\ DOMAIN EntriesOf(f) = 1 .. Len(EntriesOf(f))
      /\ Len(EntriesOf(f)) \in Nat
  BY EventsAt, SequenceShape
<1>2. Decisive(f, key) \subseteq Nat
  BY <1>1 DEF Decisive
<1> DEFINE D(k) == {i \in Decisive(f, key) : i <= k}
<1>3. CASE n + 1 \in Decisive(f, key)
  <2>1. n + 1 \in D(n + 1) /\ \A i \in D(n + 1) : i \in Nat /\ i <= n + 1
    BY <1>2, <1>3
  <2>2. Max(D(n + 1)) = n + 1
    <3> HIDE DEF D
    <3>1. PICK S : S = D(n + 1)
      OBVIOUS
    <3>6. PICK m \in Nat : m = n + 1
      OBVIOUS
    <3>2. m \in S /\ \A i \in S : i \in Nat /\ i <= m
      BY <2>1, <3>1, <3>6
    <3>3. \E x \in S : \A y \in S : x >= y
      BY <3>2
    <3>4. Max(S) \in S /\ \A y \in S : Max(S) >= y
      BY <3>3, Zenon DEF Max
    <3>7. PICK x : x = Max(S)
      OBVIOUS
    <3>8. x \in S /\ x >= m
      BY <3>2, <3>4, <3>7, Zenon
    <3>9. x = m
      BY <3>2, <3>6, <3>8
    <3>5. Max(S) = m
      BY <3>7, <3>9, Zenon
    <3> QED
      BY <3>1, <3>5, <3>6
  <2>3. D(n + 1) # {}
    BY <2>1
  <2>4. SettingAfter(f, key, n + 1)
          = IF D(n + 1) = {} THEN Defaults[key]
            ELSE Value(key, EntriesOf(f)[Max(D(n + 1))][2], Defaults[key])
    BY Zenon DEF SettingAfter
  <2> HIDE DEF D
  <2>5. SettingAfter(f, key, n + 1)
          = Value(key, EntriesOf(f)[n + 1][2], Defaults[key])
    BY <2>2, <2>3, <2>4, Zenon
  <2> QED
    BY <1>3, <2>5, Zenon
<1>4. CASE n + 1 \notin Decisive(f, key)
  <2>1. D(n + 1) = D(n)
    <3>1. \A i \in Decisive(f, key) : i \in Nat /\ i # n + 1
      BY <1>2, <1>4
    <3>2. \A i \in Decisive(f, key) : i <= n + 1 <=> i <= n
      BY <3>1
    <3> QED
      BY <3>2
  <2>2. SettingAfter(f, key, n + 1) = SettingAfter(f, key, n)
    BY <2>1, Zenon DEF SettingAfter
  <2> QED
    BY <1>4, <2>2, Zenon
<1> QED
  BY <1>3, <1>4

(* When all entries have been read, a key is set as SettingIn says.        *)
LEMMA LastSetting ==
  ASSUME NEW f \in Files, NEW key \in Keys, f.names # "blank"
  PROVE  SettingAfter(f, key, Len(f.before) + Len(f.after)) = SettingIn(f, key)
<1> DEFINE m == Len(f.before) + Len(f.after)
<1>1. IsSequence(EntriesOf(f)) /\ DOMAIN EntriesOf(f) = 1 .. Len(EntriesOf(f))
      /\ Len(EntriesOf(f)) = m
  BY EventsAt, SequenceShape
<1>2. m \in Nat
  <2>1. Len(f.before) \in Nat /\ Len(f.after) \in Nat
    BY FileShape
  <2>2. PICK x \in Nat, y \in Nat : x = Len(f.before) /\ y = Len(f.after)
    BY <2>1, Zenon
  <2>3. x + y \in Nat
    OBVIOUS
  <2> QED
    BY <2>2, <2>3, Zenon
<1> HIDE DEF m
<1>3. {i \in Decisive(f, key) : i <= m} = Decisive(f, key)
  BY <1>1, <1>2 DEF Decisive
<1>4. SettingAfter(f, key, m) = SettingIn(f, key)
  BY <1>3, Zenon DEF SettingAfter, SettingIn
<1> QED
  BY <1>4 DEF m

(* What a text does to the settings, the file says of it.                  *)
LEMMA EntryFiled ==
  ASSUME NEW f \in Files, f.names # "blank", NEW n \in Nat,
         n + 1 \in 1 .. Len(EntriesOf(f)), NEW g, NEW h,
         NEW word, NEW text,
         word = EntriesOf(f)[n + 1][1], text = EntriesOf(f)[n + 1][2],
         DOMAIN g = Keys, \A key \in Keys : g[key] = SettingAfter(f, key, n),
         h = IF word \in Keys /\ text # Blank
               THEN [g EXCEPT ![word] = Value(word, text, @)] ELSE g
  PROVE  DOMAIN h = Keys
         /\ \A key \in Keys : h[key] = SettingAfter(f, key, n + 1)
<1>1. n + 1 \in DOMAIN EntriesOf(f)
  BY EventsAt, SequenceShape
<1>2. \A key \in Keys :
        n + 1 \in Decisive(f, key) <=>
          /\ word = key /\ text # Blank
          /\ typeOfValue[key] = "bool" => text \in {<<"true">>, <<"false">>}
  BY <1>1 DEF Decisive
<1>3. DOMAIN h = Keys
  OBVIOUS
<1>4. ASSUME NEW key \in Keys PROVE h[key] = SettingAfter(f, key, n + 1)
  <2>1. CASE n + 1 \in Decisive(f, key)
    <3>1. h[key] = Value(key, text, g[key])
      BY <1>2, <2>1
    <3>2. Value(key, text, g[key]) = Value(key, text, Defaults[key])
      BY <1>2, <2>1 DEF Value
    <3>3. SettingAfter(f, key, n + 1) = Value(key, text, Defaults[key])
      BY <2>1, NextSetting
    <3> QED
      BY <3>1, <3>2, <3>3, Zenon
  <2>2. CASE n + 1 \notin Decisive(f, key)
    <3>1. SettingAfter(f, key, n + 1) = SettingAfter(f, key, n)
      BY <2>2, NextSetting
    <3>2. h[key] = g[key]
      <4>1. CASE word = key /\ text # Blank
        <5>1. typeOfValue[key] = "bool"
              /\ text \notin {<<"true">>, <<"false">>}
          BY <1>2, <2>2, <4>1
        <5>2. Value(key, text, g[key]) = g[key]
          BY <5>1 DEF Value
        <5> QED
          BY <4>1, <5>2
      <4>2. CASE ~(word = key /\ text # Blank)
        BY <4>2
      <4> QED
        BY <4>1, <4>2
    <3> QED
      BY <3>1, <3>2, Zenon
  <2> QED
    BY <2>1, <2>2
<1> QED
  BY <1>3, <1>4
-----------------------------------------------------------------------------
(* The words the parser knows are joint_names and the keys of settings.    *)
LEMMA ItemsKnown ==
  /\ "joint_names" \in DOMAIN typeOfValue /\ "joint_names" \notin Keys
  /\ NoItem \notin DOMAIN typeOfValue /\ NoItem # "joint_names"
  /\ \A w \in DOMAIN typeOfValue : w = "joint_names" \/ w \in Keys
<1>1. DOMAIN typeOfValue =
        {"ros_domain_id", "agent_ip_address", "publish_tf", "joint_names",
         "userlan_monitor_enabled", "userlan_monitor_port",
         "allow_custom_inform_job", "log_to_stdout", "executor_sleep_period",
         "robot_status"}
  BY DEF typeOfValue
<1> QED
  BY <1>1 DEF Keys, NoItem

(* One event is read, by the one handler for its kind and the item.        *)
LEMMA Parsed ==
  ASSUME CheckYamlEvent
  PROVE  /\ phase = "parse" /\ phase' = phase /\ events # <<>>
         /\ events' = Tail(events) /\ file' = file
         /\ Event.type = "other" => OtherEvent
         /\ Event.type = "start" => SequenceStart
         /\ Event.type = "end" => SequenceEnd
         /\ Event.type = "scalar" /\ activeItem = "joint_names" =>
              ReadJointName
         /\ Event.type = "scalar" /\ activeItem \in Keys => ReadValue
         /\ Event.type = "scalar" /\ activeItem = NoItem => FindKey
<1> USE ItemsKnown
<1>1. CASE ReadValue
  <2>1. activeItem # "joint_names" /\ activeItem # NoItem
    BY <1>1 DEF ReadValue, Keys
  <2> QED
    BY <1>1, <2>1 DEF ReadValue, Reads
<1>2. CASE ReadJointName
  BY <1>2 DEF ReadJointName, Reads
<1>3. CASE FindKey
  BY <1>3 DEF FindKey, Reads, Keys
<1>4. CASE SequenceStart
  BY <1>4 DEF SequenceStart, Reads
<1>5. CASE SequenceEnd
  BY <1>5 DEF SequenceEnd, Reads
<1>6. CASE OtherEvent
  BY <1>6 DEF OtherEvent, Reads
<1> QED
  BY <1>1, <1>2, <1>3, <1>4, <1>5, <1>6 DEF CheckYamlEvent

(* The slots of a group precede those of the groups behind it.             *)
LEMMA SlotsInOrder ==
  ASSUME NEW grp \in Nat \ {0}, NEW q \in Places8, NEW n \in Nat \ {0},
         NEW c \in Nat
  PROVE  /\ Slot(grp, q) \in Nat /\ Slot(n, c) \in Nat
         /\ grp < n => Slot(grp, q) < Slot(n, c)
         /\ grp = n /\ q < c => Slot(grp, q) < Slot(n, c)
         /\ grp <= MAX_CONTROLLABLE_GROUPS => Slot(grp, q) \in 0 .. Slots - 1
<1>1. PICK M \in Nat, G \in Nat :
         M = MP_GRP_AXES_NUM /\ G = MAX_CONTROLLABLE_GROUPS
  BY FileAssumption
<1>2. q \in Nat /\ q < M
  BY <1>1 DEF Places8
<1>3. Slot(grp, q) = (grp - 1) * M + q /\ Slot(n, c) = (n - 1) * M + c
      /\ Slots = G * M
  BY <1>1 DEF Slot, Slots
<1>4. \A i, j \in Nat : i < j => i * M + M <= j * M
  <2> TAKE i, j \in Nat
  <2> HAVE i < j
  <2>1. PICK d \in Nat : d = j - i - 1 /\ j = i + 1 + d
    OBVIOUS
  <2>2. j * M = i * M + M + d * M /\ d * M \in Nat /\ i * M \in Nat
    BY <2>1
  <2> QED
    BY <2>2
<1>5. PICK x \in Nat, y \in Nat : x = grp - 1 /\ y = n - 1
  OBVIOUS
<1>6. x * M \in Nat /\ y * M \in Nat /\ G * M \in Nat
  OBVIOUS
<1>7. grp < n => x * M + M <= y * M
  BY <1>4, <1>5
<1>8. grp <= G => x * M + M <= G * M
  <2>1. grp <= G => x < G
    BY <1>5
  <2> QED
    BY <2>1, <1>4
<1>9. PICK u \in Nat, v \in Nat, w \in Nat :
        u = x * M /\ v = y * M /\ w = G * M
  BY <1>6
<1>10. Slot(grp, q) = u + q /\ Slot(n, c) = v + c /\ Slots = w
  BY <1>3, <1>5, <1>9
<1>11. grp < n => u + M <= v
  BY <1>7, <1>9
<1>12. grp <= G => u + M <= w
  BY <1>8, <1>9
<1>13. grp = n => u = v
  BY <1>5, <1>9
<1> QED
  BY <1>1, <1>2, <1>10, <1>11, <1>12, <1>13

(* A setting stays as long as neither the settings nor the file change.    *)
LEMMA SetStays ==
  ASSUME NEW n, SetUpTo(n), UNCHANGED <<g_nodeConfigSettings, file>>
  PROVE  SetUpTo(n)'
  BY DEF SetUpTo

(* Names filed stay filed while the slots are not written.                 *)
LEMMA FiledStays ==
  ASSUME NEW j, NEW c, FiledUpTo(j, c), UNCHANGED <<joint_names, file>>
  PROVE  FiledUpTo(j, c)'
  BY DEF FiledUpTo, FiledName

(* When nothing has been written, the names of no list are filed.          *)
LEMMA FreshIsUnfiled ==
  ASSUME Fresh PROVE FiledUpTo(0, 0)
<1> SUFFICES ASSUME NEW grp \in 1 .. MAX_CONTROLLABLE_GROUPS,
                    NEW q \in Places8
             PROVE  joint_names[Slot(grp, q)] = FiledName(grp, q, 0, 0)
  BY DEF FiledUpTo
<1>1. grp \in Nat \ {0} /\ grp <= MAX_CONTROLLABLE_GROUPS /\ q \in Nat
  BY FileAssumption DEF Places8
<1>2. Slot(grp, q) \in 0 .. Slots - 1
  BY <1>1, SlotsInOrder
<1>3. joint_names[Slot(grp, q)] = Blank
  BY <1>2 DEF Fresh
<1>4. FiledName(grp, q, 0, 0) = Blank
  BY <1>1 DEF FiledName
<1> QED
  BY <1>3, <1>4
-----------------------------------------------------------------------------
(* A mark of the stream or of a mapping changes nothing.                   *)
LEMMA ReadMark ==
  ASSUME CheckYamlEvent, Event = Mark("other")
  PROVE  UNCHANGED <<g_nodeConfigSettings, joint_names, activeItem,
                     nestedListCounter, joint_names_iterator>>
<1>1. OtherEvent
  BY Parsed DEF Mark
<1> QED
  BY <1>1 DEF OtherEvent, settingVars

(* An entry stands before joint_names or behind.                           *)
LEMMA EntryInFile ==
  ASSUME NEW f \in Files, NEW i \in 1 .. Len(EntriesOf(f))
  PROVE  EntriesOf(f)[i] \in Range(f.before) \cup Range(f.after)
<1>1. PICK s, t : s = f.before /\ t = f.after
  OBVIOUS
<1>2. IsSequence(s) /\ IsSequence(t)
  BY <1>1, FileShape
<1>3. PICK b \in Nat, a \in Nat : b = Len(s) /\ a = Len(t)
  BY <1>2, SequenceShape
<1>4. DOMAIN s = 1 .. b /\ DOMAIN t = 1 .. a
  BY <1>2, <1>3, SequenceShape
<1>5. Len(s \o t) = Len(s) + Len(t)
      /\ (\A k \in 1 .. Len(s) : (s \o t)[k] = s[k])
      /\ \A k \in 1 .. Len(t) : (s \o t)[Len(s) + k] = t[k]
  BY <1>2, Joined
<1>6. EntriesOf(f) = s \o t
  BY <1>1 DEF EntriesOf
<1>7. i \in 1 .. b + a
  BY <1>3, <1>5, <1>6
<1>8. CASE i \in 1 .. b
  <2>1. EntriesOf(f)[i] = s[i]
    BY <1>3, <1>5, <1>6, <1>8
  <2> QED
    BY <2>1, <1>1, <1>4, <1>8 DEF Range
<1>9. CASE i \notin 1 .. b
  <2>1. i - b \in 1 .. a /\ b + (i - b) = i
    BY <1>3, <1>7, <1>9
  <2>2. PICK k \in 1 .. a : b + k = i
    BY <2>1
  <2>3. EntriesOf(f)[i] = t[k]
    BY <1>3, <1>5, <1>6, <2>2
  <2> QED
    BY <2>3, <1>1, <1>4 DEF Range
<1> QED
  BY <1>8, <1>9

(* A key or a text of an entry, whether the key is known or not.           *)
LEMMA EntryStep ==
  ASSUME file \in Files, file.names # "blank", CheckYamlEvent,
         NEW p \in Nat, NEW n \in Nat, NEW last \in Nat, n < last,
         n + 1 \in 1 .. Len(EntriesOf(file)), Entered(p, n, last),
         EventsOf(file)[p + 1] = Scalar(<<EntriesOf(file)[n + 1][1]>>),
         EventsOf(file)[p + 2] = Scalar(EntriesOf(file)[n + 1][2])
  PROVE  /\ \/ Entered(p, n, last)'
            \/ SetUpTo(n + 1)' /\ Read(p + 2)' /\ activeItem' = NoItem
         /\ UNCHANGED <<joint_names, nestedListCounter, joint_names_iterator>>
<1> PICK word, text : /\ word = EntriesOf(file)[n + 1][1]
                      /\ text = EntriesOf(file)[n + 1][2]
  OBVIOUS
<1>1. word # "joint_names"
      /\ (word \notin Keys => text = Blank \/ text[1] \notin DOMAIN typeOfValue)
  <2>1. EntriesOf(file)[n + 1] \in Range(file.before) \cup Range(file.after)
    BY EntryInFile
  <2> QED
    BY <2>1, FilesAssumption
<1>2. IsSequence(EventsOf(file))
  BY EventsAt
<1>3. events # <<>> /\ events' = Tail(events) /\ UNCHANGED file
  BY Parsed
<1>4. CASE Read(p) /\ activeItem = NoItem
  <2>1. Read(p + 1)' /\ Event = Scalar(<<word>>)
    BY <1>2, <1>3, <1>4, ReadStep
  <2>2. FindKey
    BY <1>4, <2>1, Parsed DEF Scalar
  <2>3. activeItem' = ItemOf(word)
    BY <2>1, <2>2 DEF FindKey, Scalar, Blank, ItemOf
  <2>4. SetUpTo(n)'
        /\ UNCHANGED <<joint_names, nestedListCounter, joint_names_iterator>>
    BY <2>2, <1>3, SetStays DEF FindKey, settingVars, Entered
  <2>5. ItemOf(word)' = ItemOf(word) /\ word = EntriesOf(file')[n + 1][1]
    BY <1>3 DEF ItemOf
  <2> QED
    BY <2>1, <2>3, <2>4, <2>5, <1>3 DEF Entered
<1>5. CASE Read(p + 1) /\ activeItem = ItemOf(word)
  <2>1. Read(p + 2)' /\ Event = Scalar(text)
    <3>1. PICK q \in Nat : q = p + 1 /\ q + 1 = p + 2
      OBVIOUS
    <3>2. Read(q + 1)' /\ Event = EventsOf(file)[q + 1]
      BY <1>2, <1>3, <1>5, <3>1, ReadStep
    <3> QED
      BY <3>1, <3>2
  <2> DEFINE g == g_nodeConfigSettings
             h == IF word \in Keys /\ text # Blank
                    THEN [g EXCEPT ![word] = Value(word, text, @)] ELSE g
  <2>2. /\ g_nodeConfigSettings' = h /\ activeItem' = NoItem
        /\ UNCHANGED <<joint_names, nestedListCounter, joint_names_iterator>>
    <3>1. CASE word \in Keys
      <4>1. ReadValue /\ activeItem = word /\ Event.value = text
        BY <1>5, <2>1, <3>1, Parsed DEF Scalar, ItemOf, Keys
      <4> QED
        BY <3>1, <4>1 DEF ReadValue
    <3>2. CASE word \notin Keys
      <4>1. activeItem = NoItem
        BY <1>1, <1>5, <3>2, ItemsKnown DEF ItemOf
      <4>2. FindKey /\ Event.value = text
        BY <2>1, <4>1, Parsed DEF Scalar
      <4> QED
        BY <1>1, <3>2, <4>2 DEF FindKey, settingVars
    <3> QED
      BY <3>1, <3>2
  <2>3. SetUpTo(n + 1)'
    <3>1. DOMAIN g = Keys
      BY DEF Entered, SetUpTo
    <3>2. DOMAIN h = Keys
      BY <3>1
    <3>3. ASSUME WithinArray(file), NEW key \in Keys
          PROVE  h[key] = SettingAfter(file, key, n + 1)
      <4>1. \A k \in Keys : g[k] = SettingAfter(file, k, n)
        BY <3>3 DEF Entered, SetUpTo
      <4> HIDE DEF h, g
      <4>2. PICK f, y, z : f = file /\ y = g /\ z = h
        OBVIOUS
      <4>3. z = IF word \in Keys /\ text # Blank
                  THEN [y EXCEPT ![word] = Value(word, text, @)] ELSE y
        BY <4>2 DEF h
      <4>4. z[key] = SettingAfter(f, key, n + 1)
        BY <3>1, <4>1, <4>2, <4>3, EntryFiled, SMTT(30)
      <4> QED
        BY <4>2, <4>4
    <3> HIDE DEF h
    <3> QED
      BY <1>3, <2>2, <3>2, <3>3 DEF SetUpTo
  <2> QED
    BY <2>1, <2>2, <2>3
<1> QED
  BY <1>4, <1>5 DEF Entered
-----------------------------------------------------------------------------
(* Nothing but the position moves, in the entries before joint_names.      *)
LEMMA FreshStays ==
  ASSUME Fresh,
         UNCHANGED <<nestedListCounter, joint_names_iterator, joint_names>>
  PROVE  Fresh'
  BY DEF Fresh

(* The first event opens the map of entries.                               *)
LEMMA StartStep ==
  ASSUME file \in Files, file.names # "blank", CheckYamlEvent, AtStart
  PROVE  BeforeNames'
<1>1. IsSequence(EventsOf(file)) /\ EventsOf(file)[1] = Mark("other")
  BY EventsAt
<1>2. Read(0) /\ activeItem = NoItem /\ Fresh /\ SetUpTo(0)
  BY DEF AtStart
<1>3. Read(1)' /\ Event = Mark("other")
  <2>1. PICK p \in Nat : p = 0 /\ p + 1 = 1
    OBVIOUS
  <2>2. Read(p + 1)' /\ Event = EventsOf(file)[p + 1]
    BY <1>1, <1>2, <2>1, Parsed, ReadStep
  <2> QED
    BY <1>1, <2>1, <2>2
<1>4. UNCHANGED <<g_nodeConfigSettings, joint_names, activeItem,
                  nestedListCounter, joint_names_iterator>>
  BY <1>3, ReadMark
<1>5. Fresh' /\ SetUpTo(0)' /\ activeItem' = NoItem
  BY <1>2, <1>4, FreshStays, SetStays, Parsed
<1>6. PICK b \in Nat : b = Len(file'.before)
  BY Parsed, FileShape
<1>7. PICK n \in 0 .. b : n = 0 /\ 1 + 2 * n = 1
  OBVIOUS
<1>8. Entered(1 + 2 * n, n, b)'
  BY <1>3, <1>5, <1>7 DEF Entered
<1> QED
  BY <1>5, <1>6, <1>8 DEF BeforeNames

(* Behind the names: an event reads an entry's key or text, or ends the    *)
(* map.                                                                    *)
LEMMA BehindStep ==
  ASSUME file \in Files, file.names # "blank", CheckYamlEvent, BehindNames
  PROVE  BehindNames' \/ AtEnd'
<1>1. PICK b \in Nat, a \in Nat : b = Len(file.before) /\ a = Len(file.after)
  BY FileShape
<1>2. PICK l \in Nat : l = Len(NamesEvents(file))
  BY EventsAt
<1>3. PICK n \in b .. b + a : Entered(1 + l + 2 * n, n, b + a)
  BY <1>1, <1>2 DEF BehindNames
<1>4. Filed /\ SetUpTo(n)
  BY <1>3 DEF BehindNames, Entered
<1>5. IsSequence(EventsOf(file)) /\ Len(EventsOf(file)) = 2 + l + 2 * (b + a)
      /\ EventsOf(file)[Len(EventsOf(file))] = Mark("other")
      /\ Len(EntriesOf(file)) = b + a
      /\ \A i \in b .. b + a - 1 :
           /\ EventsOf(file)[2 + l + 2 * i]
                = Scalar(<<EntriesOf(file)[i + 1][1]>>)
           /\ EventsOf(file)[3 + l + 2 * i] = Scalar(EntriesOf(file)[i + 1][2])
  BY <1>1, <1>2, EventsAt
<1>6. UNCHANGED file
  BY Parsed
<1>7. CASE n < b + a
  <2>1. PICK p \in Nat : p = 1 + l + 2 * n
    BY <1>3
  <2>2. p + 1 = 2 + l + 2 * n /\ p + 2 = 3 + l + 2 * n
        /\ n \in b .. b + a - 1 /\ n + 1 \in 1 .. b + a /\ n \in Nat
        /\ b + a \in Nat
    BY <1>7, <2>1
  <2>3. EventsOf(file)[p + 1] = Scalar(<<EntriesOf(file)[n + 1][1]>>)
        /\ EventsOf(file)[p + 2] = Scalar(EntriesOf(file)[n + 1][2])
    BY <1>5, <2>2
  <2>4. /\ \/ Entered(p, n, b + a)'
           \/ SetUpTo(n + 1)' /\ Read(p + 2)' /\ activeItem' = NoItem
        /\ UNCHANGED joint_names
    <3>1. n + 1 \in 1 .. Len(EntriesOf(file)) /\ Entered(p, n, b + a)
      BY <1>3, <1>5, <2>1, <2>2
    <3> QED
      BY <1>7, <2>2, <2>3, <3>1, EntryStep
  <2>5. Filed'
    BY <1>4, <1>6, <2>4, FiledStays DEF Filed
  <2>6. PICK m \in b .. b + a : m = n + 1 /\ p + 2 = 1 + l + 2 * m
    BY <1>7, <2>1
  <2>7. Entered(1 + l + 2 * n, n, b + a)' \/ Entered(1 + l + 2 * m, m, b + a)'
    BY <2>1, <2>4, <2>6 DEF Entered
  <2>8. b = Len(file'.before) /\ a = Len(file'.after)
        /\ l = Len(NamesEvents(file'))
    BY <1>1, <1>2, <1>6
  <2> QED
    BY <2>5, <2>7, <2>8 DEF BehindNames
<1>8. CASE ~(n < b + a)
  <2>1. n = b + a
    BY <1>8
  <2>2. PICK p \in Nat : p = 1 + l + 2 * n /\ p + 1 = 2 + l + 2 * (b + a)
    BY <2>1
  <2>3. Read(p)
    BY <1>3, <2>1, <2>2 DEF Entered
  <2>4. Read(p + 1)' /\ Event = Mark("other")
    <3>1. Read(p + 1)' /\ Event = EventsOf(file)[p + 1]
      BY <1>5, <2>3, Parsed, ReadStep
    <3>2. p + 1 = Len(EventsOf(file))
      BY <1>5, <2>2
    <3> QED
      BY <1>5, <3>1, <3>2
  <2>5. UNCHANGED <<g_nodeConfigSettings, joint_names>>
    BY <2>4, ReadMark
  <2>6. Filed' /\ SetUpTo(n)'
    BY <1>4, <1>6, <2>5, FiledStays, SetStays DEF Filed
  <2>7. events' = <<>>
    <3>1. IsSequence(EventsOf(file))' /\ p + 1 \in Nat
          /\ p + 1 = Len(EventsOf(file'))
      BY <1>5, <1>6, <2>2
    <3>2. IsSequence(events') /\ p + 1 + Len(events') = Len(EventsOf(file'))
      BY <2>4 DEF Read
    <3>3. Len(events') \in Nat
      BY <3>2, SequenceShape
    <3>4. Len(events') = 0
      BY <3>1, <3>2, <3>3
    <3> QED
      BY <3>2, <3>4, TailShape
  <2>8. n = Len(file'.before) + Len(file'.after)
    BY <1>1, <1>6, <2>1
  <2> QED
    BY <2>6, <2>7, <2>8 DEF AtEnd
<1> QED
  BY <1>7, <1>8

(* Before the names: as behind them, but an entry may be joint_names.      *)
LEMMA BeforeStep ==
  ASSUME file \in Files, file.names # "blank", CheckYamlEvent, BeforeNames
  PROVE  BeforeNames' \/ InNames' \/ BehindNames' \/ AtEnd'
<1>1. PICK b \in Nat : b = Len(file.before)
  BY FileShape
<1>2. PICK n \in 0 .. b : Entered(1 + 2 * n, n, b)
  BY <1>1 DEF BeforeNames
<1>3. Fresh /\ SetUpTo(n)
  BY <1>2 DEF BeforeNames, Entered
<1>4. IsSequence(EventsOf(file)) /\ b <= Len(EntriesOf(file))
      /\ Len(EntriesOf(file)) \in Nat
      /\ \A i \in 0 .. b - 1 :
           /\ EventsOf(file)[2 + 2 * i] = Scalar(<<EntriesOf(file)[i + 1][1]>>)
           /\ EventsOf(file)[3 + 2 * i] = Scalar(EntriesOf(file)[i + 1][2])
  <2>1. PICK a \in Nat : a = Len(file.after)
    BY FileShape
  <2>2. Len(EntriesOf(file)) = b + a
    BY <1>1, <2>1, EventsAt
  <2>3. b <= b + a /\ b + a \in Nat
    BY <2>1
  <2>4. IsSequence(EventsOf(file))
        /\ \A i \in 0 .. b - 1 :
             /\ EventsOf(file)[2 + 2 * i]
                  = Scalar(<<EntriesOf(file)[i + 1][1]>>)
             /\ EventsOf(file)[3 + 2 * i] = Scalar(EntriesOf(file)[i + 1][2])
    BY <1>1, EventsAt
  <2> QED
    BY <2>2, <2>3, <2>4, Zenon
<1>5. UNCHANGED file
  BY Parsed
<1>6. CASE n < b
  <2>1. PICK p \in Nat : p = 1 + 2 * n
    OBVIOUS
  <2>2. p + 1 = 2 + 2 * n /\ p + 2 = 3 + 2 * n /\ n \in Nat
        /\ n \in 0 .. b - 1 /\ n + 1 \in 1 .. Len(EntriesOf(file))
    BY <1>4, <1>6, <2>1
  <2>3. EventsOf(file)[p + 1] = Scalar(<<EntriesOf(file)[n + 1][1]>>)
        /\ EventsOf(file)[p + 2] = Scalar(EntriesOf(file)[n + 1][2])
    BY <1>4, <2>2
  <2>4. /\ \/ Entered(p, n, b)'
           \/ SetUpTo(n + 1)' /\ Read(p + 2)' /\ activeItem' = NoItem
        /\ UNCHANGED <<joint_names, nestedListCounter, joint_names_iterator>>
    <3>1. Entered(p, n, b)
      BY <1>2, <2>1
    <3> QED
      BY <1>6, <2>2, <2>3, <3>1, EntryStep
  <2>5. Fresh'
    BY <1>3, <2>4, FreshStays
  <2>6. PICK m \in 0 .. b : m = n + 1 /\ p + 2 = 1 + 2 * m
    BY <1>6, <2>1
  <2>7. Entered(1 + 2 * n, n, b)' \/ Entered(1 + 2 * m, m, b)'
    BY <2>1, <2>4, <2>6 DEF Entered
  <2>8. b = Len(file'.before)
    BY <1>1, <1>5
  <2> QED
    BY <2>5, <2>7, <2>8 DEF BeforeNames
<1>7. CASE ~(n < b)
  <2>1. n = b
    BY <1>7
  <2>2. Read(1 + 2 * b) /\ activeItem = NoItem
    BY <1>2, <2>1 DEF Entered
  <2>3. CASE file.names = "absent"
    <3>1. Len(NamesEvents(file)) = 0
      BY <2>3, SmallSequences DEF NamesEvents
    <3>2. 1 + 0 + 2 * b = 1 + 2 * b
      OBVIOUS
    <3>3. PICK a \in Nat : a = Len(file.after)
      BY FileShape
    <3>4. Entered(1 + 0 + 2 * b, b, b + a) /\ b \in b .. b + a
      BY <1>3, <2>1, <2>2, <3>2 DEF Entered
    <3>5. Filed
      BY <2>3 DEF Filed, FiledUpTo, Listed
    <3>6. BehindNames
      BY <1>1, <3>1, <3>3, <3>4, <3>5 DEF BehindNames
    <3> QED
      BY <3>6, BehindStep
  <2>4. CASE file.names = "lists"
    <3>1. EventsOf(file)[2 + 2 * b] = Scalar(<<"joint_names">>)
      <4>1. PICK l \in Nat : l = Len(NamesEvents(file))
        BY EventsAt
      <4>2. PICK o \in Nat : o = Offset(file, Len(file.lists))
                              /\ l = 3 + o
        BY <2>4, <4>1, NamesEventsShape
      <4>3. 1 \in 1 .. l /\ 1 + 2 * b + 1 = 2 + 2 * b
        BY <4>2
      <4>4. EventsOf(file)[1 + 2 * b + 1] = NamesEvents(file)[1]
        BY <1>1, <4>1, <4>3, EventsAt
      <4> QED
        BY <2>4, <4>3, <4>4, NamesEventsShape
    <3>2. Read(2 + 2 * b)' /\ Event = Scalar(<<"joint_names">>)
      <4>1. PICK p \in Nat : p = 1 + 2 * b /\ p + 1 = 2 + 2 * b
        OBVIOUS
      <4>2. Read(p + 1)' /\ Event = EventsOf(file)[p + 1]
        BY <1>4, <2>2, <4>1, Parsed, ReadStep
      <4> QED
        BY <3>1, <4>1, <4>2
    <3>3. FindKey
      BY <2>2, <3>2, Parsed DEF Scalar
    <3>4. activeItem' = "joint_names"
      BY <3>2, <3>3, ItemsKnown DEF FindKey, Scalar, Blank
    <3>5. UNCHANGED <<g_nodeConfigSettings, joint_names, nestedListCounter,
                      joint_names_iterator>>
      BY <3>3 DEF FindKey, settingVars
    <3>6. Fresh' /\ SetUpTo(b)'
      BY <1>3, <1>5, <2>1, <3>5, FreshStays, SetStays
    <3> QED
      BY <1>1, <1>5, <2>4, <3>2, <3>4, <3>6 DEF InNames
  <2> QED
    BY <2>3, <2>4, FilesAssumption
<1> QED
  BY <1>6, <1>7
-----------------------------------------------------------------------------
(* The same among the events of the whole file.                            *)
LEMMA NamesAt ==
  ASSUME NEW f \in Files, f.names = "lists",
         NEW b \in Nat, b = Len(f.before)
  PROVE  LET e == EventsOf(f)  z == Offset(f, Len(f.lists)) IN
         /\ z \in Nat /\ Len(NamesEvents(f)) = 3 + z
         /\ e[3 + 2 * b] = Mark("start") /\ e[4 + 2 * b + z] = Mark("end")
<1> PICK e, N : e = EventsOf(f) /\ N = NamesEvents(f)
  OBVIOUS
<1>1. PICK z \in Nat : /\ z = Offset(f, Len(f.lists)) /\ Len(N) = 3 + z
                       /\ N[2] = Mark("start") /\ N[3 + z] = Mark("end")
  BY NamesEventsShape
<1>2. \A i \in 1 .. Len(N) : e[1 + 2 * b + i] = N[i]
  BY EventsAt
<1>3. 2 \in 1 .. Len(N) /\ 3 + z \in 1 .. Len(N)
      /\ 1 + 2 * b + 2 = 3 + 2 * b /\ 1 + 2 * b + (3 + z) = 4 + 2 * b + z
  BY <1>1, SMTT(30)
<1> QED
  BY <1>1, <1>2, <1>3

(* Sums of positions.                                                      *)
LEMMA Sums ==
  \A b, o, m, y, s \in Nat : o + m + 2 <= y /\ s = 3 + y =>
    /\ 3 + o \in 1 .. s /\ 1 + 2 * b + (3 + o) = 4 + 2 * b + o
    /\ 4 + o + m \in 1 .. s /\ 1 + 2 * b + (4 + o + m) = 5 + 2 * b + o + m
    /\ \A k, i \in Nat : i = k + 1 /\ i <= m =>
         3 + o + i \in 1 .. s /\ 1 + 2 * b + (3 + o + i) = 5 + 2 * b + o + k
  OBVIOUS

(* Where the events of list j + 1 lie in the file's.                       *)
LEMMA ListAt ==
  ASSUME NEW f \in Files, f.names = "lists",
         NEW j \in 0 .. Len(f.lists) - 1
  PROVE  LET e == EventsOf(f)  b == Len(f.before)  o == Offset(f, j)
             l == f.lists[j + 1] IN
         /\ o \in Nat /\ Len(l) \in Nat
         /\ Offset(f, j + 1) = o + Len(l) + 2
         /\ e[4 + 2 * b + o] = Mark("start")
         /\ \A k \in 0 .. Len(l) - 1 : e[5 + 2 * b + o + k] = Scalar(l[k + 1])
         /\ e[5 + 2 * b + o + Len(l)] = Mark("end")
<1>1. PICK b \in Nat : b = Len(f.before)
  BY FileShape
<1>2. PICK e, N, l : /\ e = EventsOf(f) /\ N = NamesEvents(f)
                     /\ l = f.lists[j + 1]
  OBVIOUS
<1>3. \A i \in 1 .. Len(N) : e[1 + 2 * b + i] = N[i]
  BY <1>1, <1>2, EventsAt
<1>4. PICK y \in Nat, s \in Nat :
        y = Offset(f, Len(f.lists)) /\ s = 3 + y /\ s = Len(N)
  <2>1. Offset(f, Len(f.lists)) \in Nat
        /\ Len(N) = 3 + Offset(f, Len(f.lists))
    BY <1>2, NamesEventsShape
  <2>2. PICK y \in Nat : y = Offset(f, Len(f.lists))
    BY <2>1
  <2>3. PICK s \in Nat : s = 3 + y
    OBVIOUS
  <2> QED
    BY <2>1, <2>2, <2>3
<1>5. /\ Offset(f, j) \in Nat /\ Len(l) \in Nat
      /\ Offset(f, j + 1) = Offset(f, j) + Len(l) + 2
      /\ Offset(f, j + 1) <= y
      /\ N[3 + Offset(f, j)] = Mark("start")
      /\ \A k \in 1 .. Len(l) : N[3 + Offset(f, j) + k] = Scalar(l[k])
      /\ N[4 + Offset(f, j) + Len(l)] = Mark("end")
  BY <1>2, <1>4, ListEvents
<1>6. PICK o \in Nat, m \in Nat : o = Offset(f, j) /\ m = Len(l)
  BY <1>5
<1>7. o + m + 2 <= y
  BY <1>5, <1>6, Zenon
<1>8. /\ N[3 + o] = Mark("start") /\ N[4 + o + m] = Mark("end")
      /\ \A k \in 1 .. m : N[3 + o + k] = Scalar(l[k])
  BY <1>5, <1>6
<1>9. s = 3 + y /\ s = Len(N)
  BY <1>4
<1>10. e[4 + 2 * b + o] = Mark("start") /\ e[5 + 2 * b + o + m] = Mark("end")
  <2>1. 3 + o \in 1 .. s /\ 1 + 2 * b + (3 + o) = 4 + 2 * b + o
        /\ 4 + o + m \in 1 .. s
        /\ 1 + 2 * b + (4 + o + m) = 5 + 2 * b + o + m
    BY <1>7, <1>9, Sums
  <2> QED
    BY <2>1, <1>3, <1>8, <1>9, Zenon
<1>11. ASSUME NEW k \in 0 .. m - 1
       PROVE  e[5 + 2 * b + o + k] = Scalar(l[k + 1])
  <2>1. PICK i \in 1 .. m : i = k + 1
    OBVIOUS
  <2>2. 3 + o + i \in 1 .. s
        /\ 1 + 2 * b + (3 + o + i) = 5 + 2 * b + o + k
    BY <2>1, <1>7, <1>9, Sums
  <2>3. e[1 + 2 * b + (3 + o + i)] = N[3 + o + i]
    BY <2>2, <1>3, <1>9
  <2> QED
    BY <2>1, <2>2, <2>3, <1>8, Zenon
<1> QED
  BY <1>1, <1>2, <1>5, <1>6, <1>10, <1>11

(* The list of lists begins.                                               *)
LEMMA FirstMark ==
  ASSUME file \in Files, file.names = "lists", CheckYamlEvent,
         activeItem = "joint_names", NEW b \in Nat, b = Len(file.before),
         SetUpTo(b), Read(2 + 2 * b), Fresh
  PROVE  InNames'
<1>1. IsSequence(EventsOf(file)) /\ EventsOf(file)[3 + 2 * b] = Mark("start")
  BY EventsAt, NamesAt
<1>2. Read(3 + 2 * b)' /\ Event = Mark("start")
  <2>1. PICK p \in Nat : p = 2 + 2 * b /\ p + 1 = 3 + 2 * b
    OBVIOUS
  <2>2. Read(p + 1)' /\ Event = EventsOf(file)[p + 1]
    BY <1>1, <2>1, Parsed, ReadStep
  <2> QED
    BY <1>1, <2>1, <2>2
<1>3. SequenceStart /\ UNCHANGED file
  BY <1>2, Parsed DEF Mark
<1>4. nestedListCounter' = 1 /\ joint_names_iterator' = 0
      /\ activeItem' = "joint_names"
      /\ UNCHANGED <<g_nodeConfigSettings, joint_names>>
  BY <1>3 DEF SequenceStart, settingVars, Fresh
<1>5. SetUpTo(b)' /\ FiledUpTo(0, 0)'
  BY <1>3, <1>4, SetStays, FreshIsUnfiled, FiledStays
<1>6. PICK j \in 0 .. Len(file.lists) : j = 0
  BY FileShape
<1>7. BetweenLists(j)'
  <2>1. Offset(file', j) = 0 /\ j * MP_GRP_AXES_NUM = 0
    BY <1>6, FileAssumption DEF Offset
  <2>2. PICK c : c = Len(file'.before)
    OBVIOUS
  <2>3. c = b
    BY <1>3, <2>2
  <2>4. 3 + 2 * c + Offset(file', j) = 3 + 2 * b
    BY <2>1, <2>3
  <2> QED
    BY <1>2, <1>4, <1>5, <1>6, <2>1, <2>2, <2>4 DEF BetweenLists
<1> QED
  BY <1>3, <1>4, <1>5, <1>6, <1>7 DEF InNames
-----------------------------------------------------------------------------
(* Between the lists: the next one begins, or joint_names ends.            *)
LEMMA BetweenStep ==
  ASSUME file \in Files, file.names = "lists", CheckYamlEvent,
         activeItem = "joint_names", SetUpTo(Len(file.before)),
         NEW j \in 0 .. Len(file.lists), BetweenLists(j)
  PROVE  InNames' \/ BehindNames'
<1>1. PICK b \in Nat : b = Len(file.before)
  BY FileShape
<1>2. PICK o : o = Offset(file, j)
  OBVIOUS
<1>3. PICK n \in Nat : n = Len(file.lists)
  BY FileShape
<1>4. o \in Nat
  <2>1. CASE j \in 0 .. n - 1
    BY <1>2, <1>3, <2>1, OffsetStep
  <2>2. CASE j = n
    BY <1>1, <1>2, <1>3, <2>2, NamesAt
  <2> QED
    BY <1>3, <2>1, <2>2
<1>5. /\ Read(3 + 2 * b + o) /\ nestedListCounter = 1 /\ FiledUpTo(j, 0)
      /\ joint_names_iterator = j * MP_GRP_AXES_NUM
  BY <1>1, <1>2 DEF BetweenLists
<1>6. PICK p \in Nat : p = 3 + 2 * b + o /\ p + 1 = 4 + 2 * b + o
  BY <1>4
<1>7. Read(p + 1)' /\ Event = EventsOf(file)[p + 1]
  <2>1. Read(p) /\ IsSequence(EventsOf(file))
    BY <1>5, <1>6, EventsAt
  <2> QED
    BY <2>1, Parsed, ReadStep
<1>8. UNCHANGED file
  BY Parsed
<1>9. PICK b1, o1 : b1 = Len(file'.before) /\ o1 = Offset(file', j)
  OBVIOUS
<1>10. b1 = b /\ o1 = o
  BY <1>1, <1>2, <1>8, <1>9
<1>11. CASE j \in 0 .. n - 1
  <2>1. Event = Mark("start")
    BY <1>1, <1>2, <1>3, <1>6, <1>7, <1>11, ListAt
  <2>2. SequenceStart
    BY <2>1, Parsed DEF Mark
  <2>3. nestedListCounter' = 2 /\ activeItem' = "joint_names"
        /\ jointIteratorCountdownPerGroup' = MP_GRP_AXES_NUM
        /\ UNCHANGED <<g_nodeConfigSettings, joint_names, joint_names_iterator>>
    BY <1>5, <2>2 DEF SequenceStart, settingVars
  <2>4. SetUpTo(b)' /\ FiledUpTo(j, 0)'
    BY <1>1, <1>5, <1>8, <2>3, SetStays, FiledStays
  <2>5. PICK l : l = Len(file'.lists[j + 1])
    OBVIOUS
  <2>6. l \in Nat
    BY <1>3, <1>8, <1>11, <2>5, ListAt
  <2>10. PICK k \in 0 .. l : k = 0
    BY <2>6
  <2>11. PICK c \in 0 .. k : c = 0
    BY <2>10
  <2>7. 4 + 2 * b + o + k = p + 1
        /\ j * MP_GRP_AXES_NUM + c = j * MP_GRP_AXES_NUM
        /\ MP_GRP_AXES_NUM - c = MP_GRP_AXES_NUM /\ c = k
    <3>1. j * MP_GRP_AXES_NUM \in Nat /\ MP_GRP_AXES_NUM \in Nat
      BY <1>11, FileAssumption
    <3> QED
      BY <3>1, <1>4, <1>6, <2>10, <2>11
  <2>8. InList(j, k, c)'
    <3>1. Read(4 + 2 * b1 + o1 + k)'
      BY <1>7, <1>10, <2>7
    <3>2. FiledUpTo(j, c)'
      BY <2>4, <2>11
    <3> QED
      BY <1>5, <1>9, <2>3, <2>7, <3>1, <3>2 DEF InList
  <2>9. j \in 0 .. Len(file'.lists) - 1
    BY <1>3, <1>8, <1>11
  <2> QED
    BY <1>1, <1>8, <2>3, <2>4, <2>5, <2>8, <2>9 DEF InNames
<1>12. CASE j = n
  <2>1. Event = Mark("end") /\ Len(NamesEvents(file)) = 3 + o
    BY <1>1, <1>2, <1>3, <1>6, <1>7, <1>12, NamesAt, ZenonT(60)
  <2>2. SequenceEnd
    BY <2>1, Parsed DEF Mark
  <2>3. activeItem' = NoItem
        /\ UNCHANGED <<g_nodeConfigSettings, joint_names>>
    BY <1>5, <2>2 DEF SequenceEnd, settingVars
  <2>4. SetUpTo(b)' /\ Filed'
    BY <1>1, <1>3, <1>5, <1>8, <1>12, <2>3, SetStays, FiledStays DEF Filed
  <2>5. PICK a \in Nat : a = Len(file.after)
    BY FileShape
  <2>6. PICK l \in Nat : l = 3 + o
    BY <1>4
  <2>7. 1 + l + 2 * b = p + 1 /\ b \in b .. b + a
    BY <1>4, <1>6, <2>6
  <2>8. Entered(1 + l + 2 * b, b, b + a)'
    <3>1. Read(1 + l + 2 * b)'
      BY <1>7, <2>7
    <3> QED
      BY <2>3, <2>4, <3>1 DEF Entered
  <2>9. b = Len(file'.before) /\ a = Len(file'.after)
        /\ l = Len(NamesEvents(file'))
    BY <1>1, <1>8, <2>1, <2>5, <2>6
  <2> QED
    BY <2>4, <2>7, <2>8, <2>9 DEF BehindNames
<1> QED
  BY <1>3, <1>11, <1>12
-----------------------------------------------------------------------------
(* A name goes into the next slot: behind the names before it, before the  *)
(* slots still free.                                                       *)
LEMMA NameFiled ==
  ASSUME file \in Files, Listed(file), NEW j \in 0 .. Len(file.lists) - 1,
         NEW c \in Nat, FiledUpTo(j, c), NEW l, l = file.lists[j + 1],
         NEW k \in 1 .. Len(l), k = c + 1,
         NEW i, i = Slot(j + 1, c),
         \A s \in 0 .. Slots - 1 : joint_names'[s] =
           IF s = i THEN l[k]
           ELSE IF s \in i + 1 .. i + NamesPerCopy - 1 THEN Blank
           ELSE joint_names[s],
         UNCHANGED file
  PROVE  FiledUpTo(j, c + 1)'
<1>0. \A grp, q : FiledName(grp, q, j, c + 1)' = FiledName(grp, q, j, c + 1)
  BY DEF FiledName
<1> SUFFICES ASSUME NEW grp \in 1 .. MAX_CONTROLLABLE_GROUPS,
                    NEW q \in Places8
             PROVE  joint_names'[Slot(grp, q)] = FiledName(grp, q, j, c + 1)
  BY <1>0, ZenonT(60) DEF FiledUpTo
<1>1. PICK n \in Nat, x \in Nat : n = j + 1 /\ x = c + 1
  BY FileShape
<1>2. grp \in Nat \ {0} /\ q \in Nat /\ n \in Nat \ {0} /\ j \in Nat
      /\ grp <= MAX_CONTROLLABLE_GROUPS
  BY FileShape, FileAssumption, <1>1 DEF Places8
<1>3. n \in DOMAIN file.lists /\ file.lists[n] = l /\ Len(l) \in Nat
  <2>1. n \in 1 .. Len(file.lists)
    BY <1>1, FileShape
  <2> QED
    BY <2>1, <1>1, FileShape, SequenceShape
<1>4. c \in Places8
  <2>1. l \in Range(file.lists)
    BY <1>3 DEF Range
  <2>2. Len(l) <= MP_GRP_AXES_NUM
    BY <2>1 DEF Listed
  <2> QED
    BY <1>3, <2>2, FileAssumption, SMTT(30) DEF Places8
<1>5. PICK s \in Nat : s = Slot(grp, q)
  BY <1>2, SlotsInOrder
<1>6. s \in 0 .. Slots - 1
  BY <1>2, <1>5, SlotsInOrder
<1>7. i \in Nat /\ (grp < n => s < i) /\ (grp = n /\ q < c => s < i)
      /\ (n < grp => i < s) /\ (grp = n /\ c < q => i < s)
  <2>1. i = Slot(n, c)
    BY <1>1
  <2> QED
    BY <2>1, <1>2, <1>4, <1>5, SlotsInOrder, ZenonT(60)
<1>8. joint_names[s] = FiledName(grp, q, j, c)
  BY <1>5 DEF FiledUpTo
<1>9. CASE grp = n /\ q = c
  <2>1. s = i
    BY <1>1, <1>5, <1>9
  <2>2. joint_names'[s] = l[k]
    BY <1>6, <2>1
  <2>3. FiledName(grp, q, j, c + 1) = l[k]
    <3>1. q < c + 1 /\ q < Len(l) /\ q + 1 = k
      BY <1>2, <1>3, <1>9
    <3> QED
      BY <1>1, <1>3, <1>9, <3>1 DEF FiledName
  <2> QED
    BY <1>5, <2>2, <2>3
<1>10. CASE ~(grp = n /\ q = c)
  <2>1. FiledName(grp, q, j, c + 1) = FiledName(grp, q, j, c)
    <3>1. grp <= j \/ (grp = j + 1 /\ q < c + 1)
          <=> grp <= j \/ (grp = j + 1 /\ q < c)
      BY <1>1, <1>2, <1>10
    <3> QED
      BY <3>1 DEF FiledName
  <2>2. CASE s \in i + 1 .. i + NamesPerCopy - 1
    <3>1. s # i /\ i < s
      BY <1>7, <2>2, FileAssumption
    <3>2. ~(grp <= j) /\ ~(grp = j + 1 /\ q < c)
      BY <1>1, <1>2, <1>7, <3>1
    <3>3. FiledName(grp, q, j, c) = Blank
      BY <3>2 DEF FiledName
    <3>4. joint_names'[s] = Blank
      BY <1>6, <2>2, <3>1
    <3> QED
      BY <1>5, <2>1, <3>3, <3>4
  <2>3. CASE s \notin i + 1 .. i + NamesPerCopy - 1
    <3>1. s # i
      BY <1>2, <1>7, <1>10
    <3>2. joint_names'[s] = joint_names[s]
      BY <1>6, <2>3, <3>1
    <3> QED
      BY <1>5, <1>8, <2>1, <3>2
  <2> QED
    BY <2>2, <2>3
<1> QED
  BY <1>9, <1>10

(* A list whose names are all filed leaves the rest of its slots free.     *)
LEMMA ListFiled ==
  ASSUME file \in Files, Listed(file), NEW j \in 0 .. Len(file.lists) - 1,
         NEW c, c = Len(file.lists[j + 1]), FiledUpTo(j, c)
  PROVE  FiledUpTo(j + 1, 0)
<1> SUFFICES ASSUME NEW grp \in 1 .. MAX_CONTROLLABLE_GROUPS,
                    NEW q \in Places8
             PROVE  FiledName(grp, q, j + 1, 0) = FiledName(grp, q, j, c)
  BY DEF FiledUpTo
<1>1. PICK n \in Nat : n = j + 1
  BY FileShape
<1>2. grp \in Nat \ {0} /\ q \in Nat /\ j \in Nat
  BY FileShape, FileAssumption DEF Places8
<1>3. grp <= n \/ (grp = n + 1 /\ q < 0) <=> grp <= j \/ grp = n
  BY <1>1, <1>2
<1>4. CASE grp = n
  <2>1. c = Len(file.lists[grp])
    BY <1>1, <1>4
  <2> QED
    BY <1>1, <1>3, <1>4, <2>1 DEF FiledName
<1>5. CASE grp # n
  BY <1>1, <1>3, <1>5 DEF FiledName
<1> QED
  BY <1>4, <1>5
-----------------------------------------------------------------------------
(* Within a list: a name, a blank entry, or the end.                       *)
LEMMA ListStep ==
  ASSUME file \in Files, file.names = "lists", CheckYamlEvent,
         activeItem = "joint_names", SetUpTo(Len(file.before)),
         NEW j \in 0 .. Len(file.lists) - 1,
         NEW k \in 0 .. Len(file.lists[j + 1]), NEW c \in 0 .. k,
         InList(j, k, c)
  PROVE  InNames'
<1>1. PICK b \in Nat : b = Len(file.before)
  BY FileShape
<1>2. PICK l : l = file.lists[j + 1]
  OBVIOUS
<1>3. /\ Offset(file, j) \in Nat /\ Len(l) \in Nat
      /\ Offset(file, j + 1) = Offset(file, j) + Len(l) + 2
      /\ \A i \in 0 .. Len(l) - 1 :
           EventsOf(file)[5 + 2 * b + Offset(file, j) + i] = Scalar(l[i + 1])
      /\ EventsOf(file)[5 + 2 * b + Offset(file, j) + Len(l)] = Mark("end")
  BY <1>1, <1>2, ListAt
<1>4. PICK o \in Nat, z \in Nat : o = Offset(file, j) /\ z = Len(l)
  BY <1>3
<1>5. PICK n \in Nat : n = Len(file.lists)
  BY FileShape
<1>6. k \in 0 .. z /\ k \in Nat /\ c \in Nat /\ j \in Nat
      /\ j \in 0 .. n - 1
  BY <1>2, <1>4, <1>5
<1>7. /\ Read(4 + 2 * b + o + k) /\ nestedListCounter = 2
      /\ joint_names_iterator = j * MP_GRP_AXES_NUM + c
      /\ jointIteratorCountdownPerGroup = MP_GRP_AXES_NUM - c
      /\ FiledUpTo(j, c) /\ (Listed(file) => c = k)
  BY <1>1, <1>4 DEF InList
<1>8. PICK p \in Nat : p = 4 + 2 * b + o + k /\ p + 1 = 5 + 2 * b + o + k
  BY <1>6
<1>9. Read(p + 1)' /\ Event = EventsOf(file)[p + 1]
  <2>1. Read(p) /\ IsSequence(EventsOf(file))
    BY <1>7, <1>8, EventsAt
  <2> QED
    BY <2>1, Parsed, ReadStep
<1>10. UNCHANGED file
  BY Parsed
<1>11. PICK b1, o1, l1, n1 : /\ b1 = Len(file'.before) /\ o1 = Offset(file', j)
                             /\ l1 = file'.lists[j + 1]
                             /\ n1 = Len(file'.lists)
  OBVIOUS
<1>12. b1 = b /\ o1 = o /\ l1 = l /\ n1 = n
  BY <1>1, <1>2, <1>4, <1>5, <1>10, <1>11
<1>13. CASE k < z
  <2>1. PICK m \in 1 .. z : m = k + 1
    BY <1>6, <1>13
  <2>2. Event = Scalar(l[m])
    <3>1. k \in 0 .. z - 1
      BY <1>6, <1>13
    <3> QED
      BY <2>1, <3>1, <1>3, <1>4, <1>8, <1>9
  <2>3. ReadJointName
    BY <2>2, Parsed DEF Scalar
  <2>4. UNCHANGED <<activeItem, nestedListCounter>>
    BY <2>3 DEF ReadJointName
  <2>5. Read(4 + 2 * b1 + o1 + m)'
    <3>1. 4 + 2 * b + o + m = p + 1
      BY <1>8, <2>1
    <3> QED
      BY <3>1, <1>9, <1>12
  <2>6. CASE l[m] = Blank
    <3>1. UNCHANGED <<g_nodeConfigSettings, joint_names, joint_names_iterator,
                      jointIteratorCountdownPerGroup>>
      BY <2>2, <2>3, <2>6 DEF ReadJointName, Scalar, settingVars
    <3>2. SetUpTo(b)' /\ FiledUpTo(j, c)'
      BY <1>1, <1>7, <1>10, <3>1, SetStays, FiledStays
    <3>3. ~Listed(file)
      <4>1. l \in Range(file.lists) /\ Blank \in Range(l)
        <5>1. j + 1 \in 1 .. n /\ IsSequence(l)
          BY <1>2, <1>5, <1>6, FileShape
        <5>2. j + 1 \in DOMAIN file.lists /\ m \in DOMAIN l
          BY <5>1, <1>4, <1>5, FileShape, SequenceShape
        <5> QED
          BY <5>2, <1>2, <2>6 DEF Range
      <4> QED
        BY <4>1 DEF Listed
    <3>4. InList(j, m, c)'
      BY <1>7, <1>10, <1>11, <2>4, <2>5, <3>1, <3>2, <3>3 DEF InList, Listed
    <3>5. c \in 0 .. m /\ m \in 0 .. z
      BY <1>6, <2>1
    <3> QED
      BY <1>1, <1>4, <1>6, <1>10, <1>11, <1>12, <2>4, <3>2, <3>4, <3>5
      DEF InNames
  <2>7. CASE l[m] # Blank
    <3> PICK i : i = joint_names_iterator
      OBVIOUS
    <3>1. /\ joint_names' = [s \in 0 .. Slots - 1 |->
               IF s = i THEN l[m]
               ELSE IF s \in i + 1 .. i + NamesPerCopy - 1 THEN Blank
               ELSE joint_names[s]]
          /\ g_nodeConfigSettings' =
               IF i + NamesPerCopy > Slots THEN SPILLED(g_nodeConfigSettings)
               ELSE g_nodeConfigSettings
          /\ joint_names_iterator' = i + 1
          /\ jointIteratorCountdownPerGroup'
               = jointIteratorCountdownPerGroup - 1
      BY <2>2, <2>3, <2>7 DEF ReadJointName, Scalar
    <3>2. PICK u \in Nat, M \in Nat, S \in Nat, P \in Nat \ {0} :
            /\ u = j * MP_GRP_AXES_NUM /\ M = MP_GRP_AXES_NUM
            /\ S = Slots /\ P = NamesPerCopy
      BY <1>6, FileAssumption DEF Slots
    <3>3. i = u + c /\ Slot(j + 1, c) = u + c /\ Slot(j + 1, z) = u + z
      <4>1. j + 1 - 1 = j
        BY <1>6
      <4> QED
        BY <4>1, <1>7, <3>2 DEF Slot
    <3>4. PICK d \in 0 .. m : d = c + 1
      BY <1>6, <2>1
    <3>5. joint_names_iterator' = j * MP_GRP_AXES_NUM + d
          /\ jointIteratorCountdownPerGroup' = MP_GRP_AXES_NUM - d
      <4>1. joint_names_iterator' = u + c + 1
            /\ jointIteratorCountdownPerGroup' = M - c - 1
        BY <1>7, <3>1, <3>2, <3>3
      <4>2. u + c + 1 = u + d /\ M - c - 1 = M - d
        BY <1>6, <3>2, <3>4
      <4> QED
        BY <4>1, <4>2, <3>2
    <3>6. FiledUpTo(j, d)'
      <4>1. CASE Listed(file)
        <5>1. m = c + 1 /\ m \in 1 .. Len(l) /\ i = Slot(j + 1, c)
          BY <1>4, <1>7, <2>1, <3>3, <4>1
        <5>2. file \in Files /\ Listed(file) /\ c \in Nat /\ FiledUpTo(j, c)
              /\ l = file.lists[j + 1] /\ UNCHANGED file
          BY <4>1, <1>2, <1>6, <1>7, <1>10
        <5>3. \A s \in 0 .. Slots - 1 : joint_names'[s] =
                IF s = i THEN l[m]
                ELSE IF s \in i + 1 .. i + NamesPerCopy - 1 THEN Blank
                ELSE joint_names[s]
          BY <3>1
        <5>4. FiledUpTo(j, c + 1)'
          BY <5>1, <5>2, <5>3, NameFiled, SMTT(40)
        <5> QED
          BY <5>4, <3>4, Zenon
      <4>2. CASE ~Listed(file)
        BY <4>2, <1>10 DEF FiledUpTo, Listed
      <4> QED
        BY <4>1, <4>2
    <3>7. SetUpTo(b)'
      <4>1. CASE WithinArray(file)
        <5>1. Slot(j + 1, Len(file.lists[j + 1])) + NamesPerCopy <= Slots + 1
          <6>1. j + 1 \in DOMAIN file.lists
            <7>1. j + 1 \in 1 .. n
              BY <1>6
            <7> QED
              BY <7>1, <1>5, FileShape
          <6> QED
            BY <6>1, <4>1 DEF WithinArray
        <5>2. u + z + P <= S + 1
          BY <5>1, <1>2, <1>4, <3>2, <3>3
        <5>3. ~(u + c + P > S)
          BY <5>2, <1>6, <1>13, <3>2
        <5>4. UNCHANGED g_nodeConfigSettings
          BY <5>3, <3>1, <3>2, <3>3
        <5> QED
          BY <5>4, <1>1, <1>10, SetStays
      <4>2. CASE ~WithinArray(file)
        <5>1. DOMAIN g_nodeConfigSettings = Keys
          BY DEF SetUpTo
        <5>2. DOMAIN SPILLED(g_nodeConfigSettings) = Keys
          BY DEF SPILLED
        <5>3. DOMAIN g_nodeConfigSettings' = Keys
          BY <3>1, <5>1, <5>2
        <5> QED
          BY <5>3, <4>2, <1>10 DEF SetUpTo, WithinArray
      <4> QED
        BY <4>1, <4>2
    <3>8. Listed(file) => d = m
      BY <1>7, <2>1, <3>4
    <3>9. InList(j, m, d)'
      BY <1>7, <1>10, <1>11, <2>4, <2>5, <3>5, <3>6, <3>8 DEF InList, Listed
    <3>10. m \in 0 .. z
      BY <2>1
    <3> QED
      BY <1>1, <1>4, <1>6, <1>10, <1>11, <1>12, <2>4, <3>4, <3>7, <3>9, <3>10
      DEF InNames
  <2> QED
    BY <2>6, <2>7
<1>14. CASE k = z
  <2>1. Event = Mark("end")
    BY <1>3, <1>4, <1>8, <1>9, <1>14
  <2>2. SequenceEnd
    BY <2>1, Parsed DEF Mark
  <2>3. nestedListCounter' = 1 /\ activeItem' = "joint_names"
        /\ joint_names_iterator'
             = joint_names_iterator + jointIteratorCountdownPerGroup
        /\ UNCHANGED <<g_nodeConfigSettings, joint_names>>
    BY <1>7, <2>2 DEF SequenceEnd, settingVars
  <2>4. PICK m \in 0 .. n : m = j + 1
    BY <1>6
  <2>5. joint_names_iterator' = m * MP_GRP_AXES_NUM
    <3>1. PICK M \in Nat : M = MP_GRP_AXES_NUM
      BY FileAssumption
    <3>2. joint_names_iterator' = (j * M + c) + (M - c)
      BY <1>7, <2>3, <3>1
    <3>3. PICK u \in Nat : u = j * M
      BY <1>6
    <3>4. (u + c) + (M - c) = u + M
      BY <1>6
    <3>5. m * M = j * M + M
      BY <1>6, <2>4
    <3> QED
      BY <3>1, <3>2, <3>3, <3>4, <3>5
  <2>6. SetUpTo(b)'
    BY <1>1, <1>10, <2>3, SetStays
  <2>7. FiledUpTo(m, 0)'
    <3>1. FiledUpTo(m, 0)
      <4>1. CASE Listed(file)
        BY <4>1, <1>2, <1>4, <1>7, <1>14, <2>4, ListFiled
      <4>2. CASE ~Listed(file)
        BY <4>2 DEF FiledUpTo
      <4> QED
        BY <4>1, <4>2
    <3> QED
      BY <3>1, <1>10, <2>3, FiledStays
  <2>8. BetweenLists(m)'
    <3>1. PICK x : x = Offset(file', m)
      OBVIOUS
    <3>2. x = o + z + 2
      BY <3>1, <1>3, <1>4, <1>10, <2>4
    <3>3. 3 + 2 * b + (o + z + 2) = p + 1
      BY <1>8, <1>14
    <3>4. Read(3 + 2 * b1 + x)'
      BY <3>2, <3>3, <1>9, <1>12
    <3> QED
      BY <3>1, <3>4, <1>11, <2>3, <2>5, <2>7 DEF BetweenLists
  <2> QED
    BY <1>1, <1>5, <1>10, <1>11, <1>12, <2>3, <2>4, <2>6, <2>8 DEF InNames
<1> QED
  BY <1>6, <1>13, <1>14
-----------------------------------------------------------------------------
(* Inside joint_names: an event opens the outer or an inner list, files a  *)
(* name, or closes one of them.                                            *)
LEMMA NamesStep ==
  ASSUME file \in Files, file.names # "blank", CheckYamlEvent, InNames
  PROVE  InNames' \/ BehindNames'
<1>1. file.names = "lists" /\ activeItem = "joint_names"
      /\ SetUpTo(Len(file.before))
  BY DEF InNames
<1>2. CASE Read(2 + 2 * Len(file.before)) /\ Fresh
  <2>1. PICK b \in Nat : b = Len(file.before)
    BY FileShape
  <2>2. SetUpTo(b) /\ Read(2 + 2 * b)
    BY <1>1, <1>2, <2>1
  <2> QED
    BY <1>1, <1>2, <2>1, <2>2, FirstMark
<1>3. CASE \E j \in 0 .. Len(file.lists) : BetweenLists(j)
  BY <1>1, <1>3, BetweenStep
<1>4. CASE \E j \in 0 .. Len(file.lists) - 1 :
             \E k \in 0 .. Len(file.lists[j + 1]) :
               \E c \in 0 .. k : InList(j, k, c)
  BY <1>1, <1>4, ListStep
<1> QED
  BY <1>2, <1>3, <1>4 DEF InNames

(* What the parser does not write is not disturbed.                        *)
LEMMA ParseStays ==
  ASSUME ParseInv, UNCHANGED <<phase, file, events, activeItem,
         nestedListCounter, jointIteratorCountdownPerGroup,
         joint_names_iterator, joint_names, g_nodeConfigSettings>>
  PROVE  ParseInv'
<1>1. \A p : Read(p)' <=> Read(p)
  BY DEF Read
<1>2. Fresh' <=> Fresh
  BY DEF Fresh
<1>3. \A n : SetUpTo(n)' <=> SetUpTo(n)
  BY DEF SetUpTo
<1>4. \A j, c : FiledUpTo(j, c)' <=> FiledUpTo(j, c)
  BY DEF FiledUpTo, FiledName
<1>5. Filed' <=> Filed
  BY <1>4 DEF Filed
<1>6. \A p, n, last : Entered(p, n, last)' <=> Entered(p, n, last)
  BY <1>1, <1>3 DEF Entered
<1>7. (AtStart' <=> AtStart) /\ (AtEnd' <=> AtEnd)
  BY <1>1, <1>2, <1>3, <1>5 DEF AtStart, AtEnd
<1>8. BeforeNames' <=> BeforeNames
  BY <1>2, <1>6 DEF BeforeNames
<1>9. BehindNames' <=> BehindNames
  BY <1>5, <1>6 DEF BehindNames
<1>10. \A j : BetweenLists(j)' <=> BetweenLists(j)
  BY <1>1, <1>4 DEF BetweenLists
<1>11. \A j, k, c : InList(j, k, c)' <=> InList(j, k, c)
  BY <1>1, <1>4 DEF InList
<1>12. InNames' <=> InNames
  BY <1>1, <1>2, <1>3, <1>10, <1>11 DEF InNames
<1> QED
  BY <1>2, <1>7, <1>8, <1>9, <1>12 DEF ParseInv

(* A file is opened: its first event is the next, nothing of it is set.    *)
LEMMA OpenStep ==
  ASSUME ParseInv, Open
  PROVE  ParseInv'
<1>1. phase' = "parse" /\ file' \in Files /\ events' = EventsOf(file')
      /\ UNCHANGED <<activeItem, nestedListCounter, joint_names_iterator,
                     joint_names, g_nodeConfigSettings>>
      /\ activeItem = NoItem /\ Fresh /\ g_nodeConfigSettings = Defaults
  BY DEF Open, ParseInv, settingVars
<1>2. ASSUME file'.names # "blank" PROVE AtStart'
  <2>1. IsSequence(EventsOf(file')) /\ Len(EventsOf(file')) \in Nat
    BY <1>1, <1>2, EventsAt, SequenceShape
  <2>2. Read(0)'
    <3>1. PICK s : s = EventsOf(file')
      OBVIOUS
    <3>2. Len(s) \in Nat
      BY <2>1, <3>1
    <3>3. 0 + Len(s) = Len(s) /\ \A k \in 1 .. Len(s) : s[k] = s[0 + k]
      BY <3>2
    <3> QED
      BY <1>1, <2>1, <3>1, <3>3 DEF Read
  <2>3. Fresh' /\ activeItem' = NoItem
    BY <1>1, FreshStays
  <2>4. SetUpTo(0)'
    <3>1. PICK f, g : f = file' /\ g = g_nodeConfigSettings'
      OBVIOUS
    <3>2. DOMAIN Defaults = Keys
      <4>1. DOMAIN Defaults =
              {"ros_domain_id", "agent_ip_address", "publish_tf",
               "userlan_monitor_enabled", "userlan_monitor_port",
               "allow_custom_inform_job", "log_to_stdout",
               "executor_sleep_period", "robot_status"}
        BY DEF Defaults
      <4>2. DOMAIN typeOfValue =
              {"ros_domain_id", "agent_ip_address", "publish_tf", "joint_names",
               "userlan_monitor_enabled", "userlan_monitor_port",
               "allow_custom_inform_job", "log_to_stdout",
               "executor_sleep_period", "robot_status"}
        BY DEF typeOfValue
      <4> QED
        BY <4>1, <4>2 DEF Keys
    <3>3. \A key \in Keys : SettingAfter(f, key, 0) = Defaults[key]
      <4> TAKE key \in Keys
      <4>1. IsSequence(EntriesOf(f)) /\ Len(EntriesOf(f)) \in Nat
            /\ DOMAIN EntriesOf(f) = 1 .. Len(EntriesOf(f))
        BY <1>1, <1>2, <3>1, EventsAt, SequenceShape
      <4>2. {i \in Decisive(f, key) : i <= 0} = {}
        BY <4>1 DEF Decisive
      <4> QED
        BY <4>2, Zenon DEF SettingAfter
    <3> QED
      BY <1>1, <3>1, <3>2, <3>3 DEF SetUpTo
  <2> QED
    BY <2>2, <2>3, <2>4 DEF AtStart
<1> QED
  BY <1>1, <1>2 DEF ParseInv

(* Every step of the program keeps the parser in step with the file.       *)
LEMMA ParseStep ==
  ASSUME ParseInv, [JobNext]_<<nameVars, jobVars>>
  PROVE  ParseInv'
<1>1. CASE CheckUsb \/ CopyChunk \/ CopyFails \/ ReadFails \/ CopyDone
           \/ Rename \/ PowerLoss \/ StickPulled \/ Missing \/ PendantLoad
  <2>1. /\ phase \in {"usb", "copy", "rename", "open"}
        /\ phase' \in {"usb", "copy", "rename", "open"}
        /\ UNCHANGED <<activeItem, nestedListCounter, joint_names_iterator,
                       joint_names, g_nodeConfigSettings>>
    BY <1>1 DEF CheckUsb, CopyChunk, CopyFails, ReadFails, CopyDone, Rename,
       PowerLoss, StickPulled, Missing, PendantLoad, parserVars, settingVars
  <2>2. activeItem' = NoItem /\ Fresh' /\ g_nodeConfigSettings' = Defaults
    BY <2>1, FreshStays DEF ParseInv
  <2> QED
    BY <2>1, <2>2 DEF ParseInv
<1>2. CASE Open
  BY <1>2, OpenStep
<1>3. CASE CheckYamlEvent
  <2>1. phase = "parse" /\ phase' = "parse" /\ UNCHANGED file
        /\ file \in Files /\ events # <<>>
    BY <1>3, Parsed DEF ParseInv
  <2>2. ASSUME file.names # "blank"
        PROVE  (AtStart \/ BeforeNames \/ InNames \/ BehindNames \/ AtEnd)'
    <3>1. AtStart \/ BeforeNames \/ InNames \/ BehindNames
      BY <2>1, <2>2 DEF ParseInv, AtEnd
    <3> QED
      BY <1>3, <2>1, <2>2, <3>1, StartStep, BeforeStep, NamesStep, BehindStep
  <2> QED
    BY <2>1, <2>2 DEF ParseInv
<1>4. CASE ReadNics \/ Validate
  BY <1>4 DEF ReadNics, Validate, ParseInv
<1>5. CASE InitController \/ CreateGroup \/ CreateGroupFails \/ GroupsCreated
           \/ InitMonitor \/ EndSession \/ ValidateJob
  <2>1. /\ phase \in {"init", "groups", "job", "monitor", "running"}
        /\ phase' \in {"init", "groups", "job", "monitor", "running", "asserted"}
        /\ UNCHANGED file
    BY <1>5 DEF InitController, CreateGroup, CreateGroupFails, GroupsCreated,
       InitMonitor, EndSession, ValidateJob, CreateJob, CreateJobFails,
       CheckJob, CheckJobOverruns, CheckJobUnopened, Checked
  <2> QED
    BY <2>1 DEF ParseInv
<1>6. CASE UNCHANGED nameVars
  BY <1>6, ParseStays DEF nameVars, configVars, parserVars, settingVars
<1> QED
  BY <1>1, <1>2, <1>3, <1>4, <1>5, <1>6
  DEF JobNext, NamesNext, ConfigNext, EditJob
-----------------------------------------------------------------------------
(* When no event is left, the whole file has been read.                    *)
LEMMA ReadToTheEnd ==
  ASSUME file \in Files, file.names # "blank", events = <<>>,
         AtStart \/ BeforeNames \/ InNames \/ BehindNames \/ AtEnd
  PROVE  AtEnd
<1>1. PICK b \in Nat, a \in Nat : b = Len(file.before) /\ a = Len(file.after)
  BY FileShape
<1>2. PICK l \in Nat : l = Len(NamesEvents(file))
  BY EventsAt
<1>3. IsSequence(EventsOf(file)) /\ Len(EventsOf(file)) = 2 + l + 2 * (b + a)
  BY <1>1, <1>2, EventsAt
<1>4. ASSUME NEW p \in Nat, Read(p) PROVE p = 2 + l + 2 * (b + a)
  BY <1>3, <1>4, ReadEnds
<1>5. CASE AtStart
  <2>1. 0 = 2 + l + 2 * (b + a)
    BY <1>4, <1>5 DEF AtStart
  <2> QED
    BY <2>1
<1>6. CASE BeforeNames
  <2>1. PICK n \in 0 .. b : Entered(1 + 2 * n, n, b)
    BY <1>1, <1>6 DEF BeforeNames
  <2>2. PICK p \in Nat : p = 1 + 2 * n
    OBVIOUS
  <2>3. Read(p) \/ (n < b /\ Read(p + 1))
    BY <2>1, <2>2 DEF Entered
  <2>4. p = 2 + l + 2 * (b + a) \/ (n < b /\ p + 1 = 2 + l + 2 * (b + a))
    BY <2>3, <1>4
  <2> QED
    BY <2>2, <2>4
<1>7. CASE InNames
  <2>1. PICK z \in Nat : z = Offset(file, Len(file.lists)) /\ l = 3 + z
    BY <1>1, <1>2, <1>7, NamesAt DEF InNames
  <2>2. PICK n \in Nat : n = Len(file.lists)
    BY FileShape
  <2>3. \A j \in 0 .. n : Offset(file, j) \in Nat /\ Offset(file, j) <= z
    <3> TAKE j \in 0 .. n
    <3>1. CASE j = 0
      BY <3>1, <2>1 DEF Offset
    <3>2. CASE j # 0
      <4>1. j \in 1 .. n /\ n \in j .. n
        BY <2>2, <3>2
      <4> QED
        BY <4>1, <2>1, <2>2, FlatPrefix
    <3> QED
      BY <3>1, <3>2
  <2>4. CASE Read(2 + 2 * b)
    <3>1. 2 + 2 * b = 2 + l + 2 * (b + a)
      BY <2>4, <1>4
    <3> QED
      BY <3>1, <2>1, SMTT(30)
  <2>5. CASE \E j \in 0 .. n : BetweenLists(j)
    <3>1. PICK j \in 0 .. n : BetweenLists(j)
      BY <2>5
    <3>2. PICK o \in Nat : o = Offset(file, j) /\ o <= z
      BY <2>3
    <3>3. Read(3 + 2 * b + o)
      BY <3>1, <3>2, <1>1 DEF BetweenLists
    <3>4. 3 + 2 * b + o = 2 + l + 2 * (b + a)
      BY <3>2, <3>3, <1>4
    <3> QED
      BY <3>2, <3>4, <2>1, SMTT(30)
  <2>6. CASE \E j \in 0 .. n - 1 : \E k \in 0 .. Len(file.lists[j + 1]) :
               \E c \in 0 .. k : InList(j, k, c)
    <3>1. PICK j \in 0 .. n - 1 : \E k \in 0 .. Len(file.lists[j + 1]) :
                                   \E c \in 0 .. k : InList(j, k, c)
      BY <2>6
    <3>10. PICK k \in 0 .. Len(file.lists[j + 1]) :
             \E c \in 0 .. k : InList(j, k, c)
      BY <3>1
    <3>2. PICK c \in 0 .. k : InList(j, k, c)
      BY <3>10
    <3>3. PICK y : y = Len(file.lists[j + 1])
      OBVIOUS
    <3>4. PICK o \in Nat : o = Offset(file, j)
      BY <2>3
    <3>5. y \in Nat /\ Offset(file, j + 1) = o + y + 2
      BY <1>7, <2>2, <3>3, <3>4, ListAt DEF InNames
    <3>6. o + y + 2 <= z
      <4>1. j + 1 \in 0 .. n
        BY <2>2
      <4> QED
        BY <4>1, <2>3, <3>5
    <3>7. k \in Nat /\ k <= y
      BY <3>3, <3>5
    <3>8. Read(4 + 2 * b + o + k)
      BY <3>2, <3>4, <1>1 DEF InList
    <3>9. 4 + 2 * b + o + k = 2 + l + 2 * (b + a)
      BY <3>7, <3>8, <1>4
    <3> QED
      BY <3>5, <3>6, <3>7, <3>9, <2>1, SMTT(30)
  <2> QED
    BY <1>1, <1>7, <2>2, <2>4, <2>5, <2>6 DEF InNames
<1>8. CASE BehindNames
  <2>1. PICK n \in b .. b + a : Entered(1 + l + 2 * n, n, b + a)
    BY <1>1, <1>2, <1>8 DEF BehindNames
  <2>2. PICK p \in Nat : p = 1 + l + 2 * n
    BY <2>1
  <2>3. Read(p) \/ (n < b + a /\ Read(p + 1))
    BY <2>1, <2>2 DEF Entered
  <2>4. p = 2 + l + 2 * (b + a) \/ (n < b + a /\ p + 1 = 2 + l + 2 * (b + a))
    BY <2>3, <1>4
  <2> QED
    BY <2>2, <2>4
<1> QED
  BY <1>5, <1>6, <1>7, <1>8
-----------------------------------------------------------------------------
(***************************************************************************)
(* Behind the parser: the settings are those of the file, and the slots    *)
(* hold its names, or the default names, in every session.                 *)
(***************************************************************************)
LEMMA ReadAll ==
  ASSUME ParseInv, ReadNics
  PROVE  /\ phase' = "validate" /\ file \in Files /\ Filed
         /\ UNCHANGED <<g_nodeConfigSettings, file, joint_names>>
         /\ file.names # "blank" =>
              SetUpTo(Len(file.before) + Len(file.after))
<1>1. phase = "parse" /\ phase' = "validate" /\ events = <<>>
      /\ UNCHANGED <<g_nodeConfigSettings, file, joint_names>>
      /\ file \in Files
  BY DEF ReadNics, settingVars, ParseInv
<1>2. CASE file.names = "blank"
  BY <1>1, <1>2 DEF Filed, FiledUpTo, Listed
<1>3. CASE file.names # "blank"
  <2>1. AtStart \/ BeforeNames \/ InNames \/ BehindNames \/ AtEnd
    BY <1>1, <1>3 DEF ParseInv
  <2>2. AtEnd
    BY <1>1, <1>3, <2>1, ReadToTheEnd
  <2> QED
    BY <1>1, <2>2 DEF AtEnd
<1> QED
  BY <1>2, <1>3

(* Every step keeps what has been set in step with the file, or with the   *)
(* range of executor_sleep_period that validation enforces.                *)
LEMMA SettingsStep ==
  ASSUME SettingsInv, ParseInv, [JobNext]_<<nameVars, jobVars>>
  PROVE  SettingsInv'
<1>1. ASSUME UNCHANGED <<g_nodeConfigSettings, file>>,
             \/ phase' = phase
             \/ phase \in {"init"} \cup GroupPhases /\ phase' # "validate"
      PROVE  SettingsInv'
  <2> SUFFICES ASSUME phase' \in {"validate", "init"} \cup GroupPhases,
                      file'.names # "blank", WithinArray(file')
               PROVE  /\ DOMAIN g_nodeConfigSettings' = Keys
                      /\ phase' = "validate" => \A key \in Keys :
                           g_nodeConfigSettings'[key] = SettingIn(file', key)
                      /\ phase' # "validate" =>
                           \A key \in FiledKeys : FinalSetting(key)'
    BY DEF SettingsInv
  <2>1. \A key : FinalSetting(key)' <=> FinalSetting(key)
    BY <1>1 DEF FinalSetting
  <2>2. /\ DOMAIN g_nodeConfigSettings = Keys
        /\ phase = "validate" => \A key \in Keys :
             g_nodeConfigSettings[key] = SettingIn(file, key)
        /\ phase # "validate" => \A key \in FiledKeys : FinalSetting(key)
    BY <1>1 DEF SettingsInv, GroupPhases
  <2>3. phase' = "validate" <=> phase = "validate"
    BY <1>1 DEF GroupPhases
  <2> QED
    BY <1>1, <2>1, <2>2, <2>3
<1>2. CASE ReadNics
  <2> SUFFICES ASSUME file.names # "blank", WithinArray(file)
               PROVE  /\ DOMAIN g_nodeConfigSettings = Keys
                      /\ \A key \in Keys :
                           g_nodeConfigSettings[key] = SettingIn(file, key)
    BY <1>2, ReadAll DEF SettingsInv
  <2>1. SetUpTo(Len(file.before) + Len(file.after)) /\ file \in Files
    BY <1>2, ReadAll
  <2>2. \A key \in Keys :
          SettingAfter(file, key, Len(file.before) + Len(file.after))
            = SettingIn(file, key)
    BY <2>1, LastSetting
  <2> QED
    BY <2>1, <2>2 DEF SetUpTo
<1>3. CASE Validate
  <2> SUFFICES ASSUME phase' = "init", file.names # "blank", WithinArray(file)
               PROVE  /\ DOMAIN g_nodeConfigSettings' = Keys
                      /\ \A key \in FiledKeys : FinalSetting(key)'
    BY <1>3 DEF SettingsInv, Validate, GroupPhases
  <2> PICK g, h, port, on : /\ g = g_nodeConfigSettings
                            /\ h = g_nodeConfigSettings'
                            /\ port = MonitorPort
                            /\ on = (g.userlan_monitor_enabled /\ MonitorAlarm = {})
    OBVIOUS
  <2>1. /\ DOMAIN g = Keys
        /\ \A key \in Keys : g[key] = SettingIn(file, key)
    BY <1>3 DEF SettingsInv, Validate
  <2>2. h = [g EXCEPT
               !.executor_sleep_period =
                  IF g.executor_sleep_period \in 1 .. 100 THEN @ ELSE 10,
               !.userlan_monitor_port = port, !.userlan_monitor_enabled = on]
    BY <1>3 DEF Validate, PeriodOk
  <2>3. UNCHANGED file
    BY <1>3 DEF Validate
  <2>4. DOMAIN h = Keys
    BY <2>1, <2>2
  <2>5. FiledKeys \subseteq Keys
    BY DEF FiledKeys, Keys, typeOfValue
  <2>6. ASSUME NEW key \in FiledKeys PROVE FinalSetting(key)'
    <3>1. g[key] = SettingIn(file, key)
      BY <2>1, <2>5
    <3>2. CASE key # "executor_sleep_period"
      <4>1. key # "userlan_monitor_port" /\ key # "userlan_monitor_enabled"
        BY DEF FiledKeys
      <4>2. h[key] = g[key]
        BY <2>1, <2>2, <2>5, <3>2, <4>1
      <4> QED
        BY <2>3, <3>1, <4>2 DEF FinalSetting
    <3>3. CASE key = "executor_sleep_period"
      <4>1. h[key] = IF g[key] \in 1 .. 100 THEN g[key] ELSE 10
        BY <2>1, <2>2, <2>5, <3>3
      <4> QED
        BY <2>3, <3>1, <3>3, <4>1 DEF FinalSetting
    <3> QED
      BY <3>2, <3>3
  <2> QED
    BY <2>4, <2>6
<1>4. CASE ConfigNext /\ ~ReadNics /\ ~Validate
  <2>1. phase' \notin {"validate", "init"} \cup GroupPhases
    <3>1. CASE CheckYamlEvent
      BY <3>1, Parsed DEF GroupPhases
    <3>2. CASE ~CheckYamlEvent
      BY <1>4, <3>2 DEF ConfigNext, CheckUsb, CopyChunk, CopyFails, ReadFails,
         CopyDone, Rename, PowerLoss, StickPulled, Missing, PendantLoad, Open,
         GroupPhases
    <3> QED
      BY <3>1, <3>2
  <2> QED
    BY <2>1 DEF SettingsInv
<1>5. CASE InitController \/ CreateGroup \/ CreateGroupFails \/ GroupsCreated
           \/ InitMonitor \/ EndSession \/ ValidateJob
  <2>1. /\ phase \in {"init"} \cup GroupPhases /\ phase' # "validate"
        /\ UNCHANGED <<g_nodeConfigSettings, file>>
    BY <1>5 DEF InitController, CreateGroup, CreateGroupFails, GroupsCreated,
       InitMonitor, EndSession, ValidateJob, CreateJob, CreateJobFails,
       CheckJob, CheckJobOverruns, CheckJobUnopened, Checked, GroupPhases,
       settingVars
  <2> QED
    BY <2>1, <1>1
<1>6. CASE UNCHANGED nameVars
  BY <1>1, <1>6 DEF nameVars, configVars, settingVars
<1> QED
  BY <1>2, <1>3, <1>4, <1>5, <1>6 DEF JobNext, NamesNext, EditJob
-----------------------------------------------------------------------------
(* A joint's number is an axis's number.                                   *)
LEMMA JointsAreAxes ==
  ASSUME NEW g, Layout(g)
  PROVE  Joints(g) \subseteq Axes
  BY AxesCounted, AxesAssumption DEF Layout, Joints, Axes

(* Default names for one group leave the slots of those before it alone.   *)
LEMMA DefaultsApart ==
  ASSUME controller \in Layouts, NEW n \in GroupNos, NEW grp \in 1 .. n - 1,
         NEW k \in Axes
  PROVE  WithDefaults(n)[Slot(grp, k)] = joint_names[Slot(grp, k)]
<1>1. n \in Nat /\ n \in 1 .. MAX_CONTROLLABLE_GROUPS
      /\ grp \in 1 .. MAX_CONTROLLABLE_GROUPS /\ Layout(controller[n])
  BY ControllerShape, FileAssumption DEF GroupNos
<1>2. PICK s : s = Slot(grp, k)
  OBVIOUS
<1>3. s \in 0 .. Slots - 1
  BY <1>1, <1>2, SlotInArray
<1>4. Slot(n, 0) \in 0 .. Slots - 1
  <2>1. 0 \in Axes
    BY AxesAssumption DEF Axes
  <2> QED
    BY <1>1, <2>1, SlotInArray
<1>5. ASSUME s - Slot(n, 0) \in Nat PROVE FALSE
  <2>1. s = Slot(n, 0) + (s - Slot(n, 0))
    BY <1>3, <1>4
  <2> QED
    BY <2>1, <1>1, <1>2, <1>5, SlotsApart
<1>6. s - Slot(n, 0) \notin Joints(controller[n])
  BY <1>1, <1>5, AxesCounted DEF Joints, Layout
<1> QED
  BY <1>2, <1>3, <1>6 DEF WithDefaults

(* The slots of a group take the default names.                            *)
LEMMA DefaultsTaken ==
  ASSUME controller \in Layouts, NEW n \in GroupNos,
         bShouldSetJointNamesToDefaultValues = TRUE,
         NEW k \in Joints(controller[n])
  PROVE  WithDefaults(n)[Slot(n, k)] = DefaultName(n, k)
<1>1. n \in 1 .. MAX_CONTROLLABLE_GROUPS /\ Layout(controller[n])
  BY ControllerShape, FileAssumption DEF GroupNos
<1>2. k \in Axes /\ 0 \in Axes /\ k \in Int
  BY <1>1, JointsAreAxes, AxesAssumption DEF Axes
<1>3. Slot(n, k) \in 0 .. Slots - 1 /\ Slot(n, 0) \in 0 .. Slots - 1
  BY <1>1, <1>2, SlotInArray
<1>4. Slot(n, k) - Slot(n, 0) = k
  <2>1. PICK x : x = (n - 1) * MP_GRP_AXES_NUM
    OBVIOUS
  <2>2. x \in Int
    BY <1>1, <2>1, FileAssumption
  <2>3. Slot(n, k) = x + k /\ Slot(n, 0) = x + 0
    BY <2>1 DEF Slot
  <2> QED
    BY <2>2, <2>3, <1>2
<1> QED
  BY <1>3, <1>4 DEF WithDefaults

(* Every step keeps the names of the file, or the default names, in their  *)
(* slots.                                                                  *)
LEMMA SlotsStep ==
  ASSUME SlotsInv, GroupsInv, ParseInv, [JobNext]_<<nameVars, jobVars>>
  PROVE  SlotsInv'
<1>1. ASSUME UNCHANGED <<file, joint_names>>
      PROVE  Filed => Filed'
  BY <1>1, FiledStays DEF Filed
<1>2. ASSUME UNCHANGED <<controller, joint_names>>
      PROVE  (AllDefaulted => AllDefaulted')
             /\ \A grp : Defaulted(grp) => Defaulted(grp)'
  BY <1>2 DEF AllDefaulted, Defaulted, GroupNos
<1>3. ASSUME UNCHANGED <<file, joint_names, controller, ctrlGroups, bInitOk,
                         bShouldSetJointNamesToDefaultValues>>,
             \/ phase' = phase
             \/ phase = "validate" /\ phase' = "init"
             \/ phase \in GroupPhases /\ phase' \in GroupPhases
      PROVE  SlotsInv'
  BY <1>1, <1>2, <1>3 DEF SlotsInv, GroupPhases
<1>4. ASSUME phase' \in {"usb", "copy", "rename", "open", "parse", "asserted"}
      PROVE  SlotsInv'
  BY <1>4 DEF SlotsInv, GroupPhases
<1>5. CASE ReadNics /\ UNCHANGED <<controller, groupVars, names>>
  <2>1. Filed' /\ phase' = "validate"
    BY <1>1, <1>5, ReadAll
  <2> QED
    BY <2>1 DEF SlotsInv, GroupPhases
<1>6. CASE Validate /\ UNCHANGED <<controller, groupVars, names>>
  <2>1. phase = "validate" /\ phase' \in {"init", "asserted"}
        /\ UNCHANGED <<file, joint_names, controller, ctrlGroups, bInitOk,
                       bShouldSetJointNamesToDefaultValues>>
    BY <1>6 DEF Validate, groupVars
  <2> QED
    BY <2>1, <1>3, <1>4
<1>7. CASE ConfigNext /\ ~ReadNics /\ ~Validate
  <2>1. phase' \in {"usb", "copy", "rename", "open", "parse"}
    <3>1. CASE CheckYamlEvent
      BY <3>1, Parsed
    <3>2. CASE ~CheckYamlEvent
      BY <1>7, <3>2 DEF ConfigNext, CheckUsb, CopyChunk, CopyFails, ReadFails,
         CopyDone, Rename, PowerLoss, StickPulled, Missing, PendantLoad, Open
    <3> QED
      BY <3>1, <3>2
  <2> QED
    BY <2>1, <1>4
<1>8. CASE InitController
  <2>1. phase = "init" /\ phase' = "groups" /\ ctrlGroups' = <<>>
        /\ UNCHANGED <<file, joint_names>>
        /\ (controller # <<>> => UNCHANGED controller)
        /\ bShouldSetJointNamesToDefaultValues' = (joint_names[0] = Blank)
    BY <1>8 DEF InitController, GroupsInv, settingVars
  <2>2. Filed \/ AllDefaulted
    BY <2>1 DEF SlotsInv
  <2>3. Filed' \/ AllDefaulted'
    BY <2>1, <2>2, <1>1, <1>2 DEF AllDefaulted
  <2>4. bShouldSetJointNamesToDefaultValues' \in BOOLEAN
    BY <2>1
  <2>5. Len(ctrlGroups') = 0
    BY <2>1, EmptySeq
  <2>6. bShouldSetJointNamesToDefaultValues' = FALSE
        \/ bShouldSetJointNamesToDefaultValues' = TRUE
    BY <2>4, Zenon
  <2> QED
    BY <2>1, <2>3, <2>5, <2>6 DEF SlotsInv, GroupPhases
<1>9. CASE CreateGroup
  <2>1. PICK n : n = NextGroup
    OBVIOUS
  <2>2. phase = "groups" /\ n \in GroupNos /\ ctrlGroups \in Seq(Nat)
        /\ n = Len(ctrlGroups) + 1 /\ controller \in Layouts
        /\ UNCHANGED <<file, controller, bInitOk,
                       bShouldSetJointNamesToDefaultValues>>
        /\ ctrlGroups' = Append(ctrlGroups, n)
        /\ joint_names' = WithDefaults(n)
        /\ phase' \in {"groups", "asserted"}
    BY <1>9, <2>1 DEF CreateGroup, GroupsInv, NextGroup, GroupPhases
  <2>3. n \in Nat /\ Len(ctrlGroups') = n /\ Len(ctrlGroups) = n - 1
    BY <2>2, LenProperties, AppendProperties
  <2>4. CASE phase' = "asserted" \/ bInitOk # TRUE
    BY <2>2, <2>4 DEF SlotsInv, GroupPhases
  <2>5. CASE /\ phase' = "groups" /\ bInitOk = TRUE
             /\ bShouldSetJointNamesToDefaultValues = FALSE
    <3>1. Filed \/ AllDefaulted
      BY <2>2, <2>5 DEF SlotsInv, GroupPhases
    <3>2. UNCHANGED joint_names
      BY <2>2, <2>5 DEF WithDefaults
    <3>3. Filed' \/ AllDefaulted'
      BY <3>1, <3>2, <2>2, <1>1, <1>2
    <3> QED
      BY <2>2, <2>5, <3>3 DEF SlotsInv, GroupPhases
  <2>6. CASE /\ phase' = "groups" /\ bInitOk = TRUE
             /\ bShouldSetJointNamesToDefaultValues = TRUE
    <3>1. \A grp \in 1 .. n - 1 : Defaulted(grp)
      BY <2>2, <2>3, <2>6 DEF SlotsInv, GroupPhases
    <3>2. ASSUME NEW grp \in 1 .. n - 1 PROVE Defaulted(grp)'
      <4>1. Joints(controller[grp]) \subseteq Axes
        <5>1. grp \in 1 .. Len(controller)
          BY <2>2, <2>3, ControllerShape, FileAssumption DEF GroupNos
        <5> QED
          BY <5>1, <2>2, ControllerShape, JointsAreAxes
      <4>2. \A k \in Joints(controller[grp]) :
              joint_names'[Slot(grp, k)] = joint_names[Slot(grp, k)]
        BY <2>2, <4>1, DefaultsApart
      <4> QED
        BY <3>1, <4>2, <2>2 DEF Defaulted
    <3>3. Defaulted(n)'
      BY <2>2, <2>6, DefaultsTaken DEF Defaulted
    <3>4. \A grp \in 1 .. Len(ctrlGroups') : Defaulted(grp)'
      <4>1. \A grp \in 1 .. n : grp = n \/ grp \in 1 .. n - 1
        BY <2>3
      <4> QED
        BY <4>1, <3>2, <3>3, <2>3
    <3> QED
      BY <2>2, <2>6, <3>4 DEF SlotsInv, GroupPhases
  <2>7. bInitOk = TRUE /\ phase' = "groups" =>
          bShouldSetJointNamesToDefaultValues = FALSE
          \/ bShouldSetJointNamesToDefaultValues = TRUE
    BY <2>2 DEF SlotsInv, GroupPhases
  <2> QED
    BY <2>2, <2>4, <2>5, <2>6, <2>7
<1>10. CASE CreateGroupFails
  <2>1. phase' = "groups" /\ bInitOk' = FALSE
    BY <1>10 DEF CreateGroupFails
  <2> QED
    BY <2>1 DEF SlotsInv, GroupPhases
<1>11. CASE GroupsCreated \/ InitMonitor \/ ValidateJob
  <2>1. phase \in GroupPhases /\ phase' \in GroupPhases \cup {"asserted"}
        /\ UNCHANGED <<file, joint_names, controller, ctrlGroups, bInitOk,
                       bShouldSetJointNamesToDefaultValues>>
    <3>1. CASE GroupsCreated
      BY <3>1 DEF GroupsCreated, GroupPhases, groupVars, settingVars
    <3>2. CASE InitMonitor
      BY <3>2 DEF InitMonitor, GroupPhases, groupVars, settingVars
    <3>3. CASE ValidateJob
      BY <3>3 DEF ValidateJob, CreateJob, CreateJobFails, CheckJob,
         CheckJobOverruns, CheckJobUnopened, Checked, GroupPhases, groupVars,
         settingVars
    <3> QED
      BY <1>11, <3>1, <3>2, <3>3
  <2> QED
    BY <2>1, <1>3, <1>4
<1>12. CASE EndSession
  <2>1. phase = "running" /\ phase' = "init"
        /\ UNCHANGED <<file, joint_names, controller>>
    BY <1>12 DEF EndSession, settingVars
  <2>2. bInitOk = TRUE /\ Len(ctrlGroups) = Len(controller)
        /\ controller # <<>>
    BY <2>1 DEF GroupsInv, GroupPhases
  <2>3. Filed \/ AllDefaulted
    <3>1. \/ Filed \/ AllDefaulted
          \/ \A grp \in 1 .. Len(ctrlGroups) : Defaulted(grp)
      BY <2>1, <2>2 DEF SlotsInv, GroupPhases
    <3> QED
      BY <3>1, <2>2 DEF AllDefaulted, GroupNos
  <2>4. Filed' \/ AllDefaulted'
    BY <2>1, <2>3, <1>1, <1>2
  <2> QED
    BY <2>1, <2>4 DEF SlotsInv, GroupPhases
<1>13. CASE UNCHANGED nameVars
  BY <1>3, <1>13 DEF nameVars, configVars, settingVars, groupVars
<1> QED
  BY <1>5, <1>6, <1>7, <1>8, <1>9, <1>10, <1>11, <1>12, <1>13
  DEF JobNext, NamesNext, EditJob
-----------------------------------------------------------------------------
FileInv == ParseInv /\ SettingsInv /\ SlotsInv

(* The parser, the settings and the slots together: each step needs what   *)
(* the one before it has established.                                      *)
LEMMA FileInvHolds == JobSpec => []FileInv
<1>1. JobInit => FileInv
  BY DEF JobInit, NamesInit, ConfigInit, FileInv, ParseInv, Fresh, SettingsInv,
     SlotsInv, GroupPhases
<1>2. FileInv /\ StartupInv /\ [JobNext]_<<nameVars, jobVars>> => FileInv'
  BY ParseStep, SettingsStep, SlotsStep DEF FileInv, StartupInv
<1> QED
  BY <1>1, <1>2, StartupInvHolds, PTL DEF JobSpec

(* SettingsAsFiled: whatever a file says, in whatever order, the settings  *)
(* behind joint_names have the value its last valid text gives them, as    *)
(* long as the names leave room behind them.                               *)
THEOREM SettingsFiled == JobSpec => []SettingsAsFiled
<1>1. FileInv => SettingsAsFiled
  BY DEF FileInv, SettingsInv, SettingsAsFiled, FinalSetting, FiledKeys,
     GroupPhases
<1> QED
  BY <1>1, FileInvHolds, PTL

(* From the slots to the axes: each valid axis bears the name at its place *)
(* in the file, or its default name.                                       *)
LEMMA AxesNamed ==
  ASSUME FileInv, StartupInv
  PROVE  NamesAsConfigured
<1> SUFFICES ASSUME phase = "running" PROVE NamesAsConfigured
  BY DEF NamesAsConfigured
<1>1. /\ controller \in Layouts /\ bInitOk = TRUE
      /\ Len(ctrlGroups) = Len(controller)
      /\ \A grp \in GroupNos : Named(grp)
  BY DEF StartupInv, GroupsInv, GroupPhases, GroupNos
<1>2. ASSUME NEW grp \in GroupNos, NEW a \in ValidAxes(controller[grp])
      PROVE  LET q == ConfigIndex(controller[grp], a) IN
             /\ q \in Joints(controller[grp]) /\ q \in Places8
             /\ jointNames_userDefined[grp][a] = joint_names[Slot(grp, q)]
             /\ joint_names[Slot(grp, q)] # Blank
             /\ grp \in 1 .. MAX_CONTROLLABLE_GROUPS
  <2>1. Layout(controller[grp]) /\ grp \in 1 .. MAX_CONTROLLABLE_GROUPS
    BY <1>1, ControllerShape, FileAssumption DEF GroupNos
  <2>2. PICK q : q = ConfigIndex(controller[grp], a)
    OBVIOUS
  <2>3. q \in Joints(controller[grp]) /\ q \in Axes
    BY <2>1, <2>2, ConfigIndexInGroup
  <2>4. q \in Places8
    BY <2>3, AxesAssumption, FileAssumption, ControllersAssumption
    DEF Axes, Places8
  <2>5. a \in Axes /\ ~IsInvalidAxis(controller[grp], a)
    BY DEF ValidAxes
  <2>6. jointNames_userDefined[grp][a] = joint_names[Slot(grp, q)]
    <3>1. jointNames_userDefined[grp] = NamesInMotoOrder(grp, joint_names)
      BY <1>1 DEF Named
    <3>2. NamesInMotoOrder(grp, joint_names)[a]
            = joint_names[Slot(grp, ConfigIndex(controller[grp], a))]
      BY <2>5, Zenon DEF NamesInMotoOrder
    <3> QED
      BY <2>2, <3>1, <3>2, Zenon
  <2>7. jointNames_userDefined[grp][a] # Blank
    BY <1>1 DEF Named, AllNamed
  <2> QED
    BY <2>1, <2>2, <2>3, <2>4, <2>6, <2>7
<1>3. CASE AllDefaulted
  BY <1>2, <1>3 DEF AllDefaulted, Defaulted, NamesAsConfigured
<1>4. CASE Filed
  <2> SUFFICES ASSUME Listed(file), NEW grp \in GroupNos,
                      NEW a \in ValidAxes(controller[grp])
               PROVE  LET k == ConfigIndex(controller[grp], a) + 1 IN
                      /\ grp \in DOMAIN file.lists
                      /\ k <= Len(file.lists[grp])
                      /\ jointNames_userDefined[grp][a] = file.lists[grp][k]
    BY DEF NamesAsConfigured
  <2>1. PICK q : q = ConfigIndex(controller[grp], a)
    OBVIOUS
  <2>2. q \in Places8 /\ grp \in 1 .. MAX_CONTROLLABLE_GROUPS
        /\ jointNames_userDefined[grp][a] = joint_names[Slot(grp, q)]
        /\ joint_names[Slot(grp, q)] # Blank
    BY <1>2, <2>1
  <2>3. joint_names[Slot(grp, q)] = FiledName(grp, q, Len(file.lists), 0)
    BY <1>4, <2>2 DEF Filed, FiledUpTo
  <2>4. grp \in DOMAIN file.lists /\ q < Len(file.lists[grp])
        /\ FiledName(grp, q, Len(file.lists), 0) = file.lists[grp][q + 1]
    BY <2>2, <2>3 DEF FiledName
  <2>5. file \in Files
    BY DEF FileInv, ParseInv
  <2>6. PICK y : y = Len(file.lists[grp])
    OBVIOUS
  <2>7. y \in Nat
    <3>1. grp \in 1 .. Len(file.lists)
      BY <2>4, <2>5, FileShape
    <3> QED
      BY <3>1, <2>5, <2>6, FileShape, SequenceShape
  <2>8. q + 1 <= y
    BY <2>2, <2>4, <2>6, <2>7 DEF Places8
  <2> QED
    BY <2>1, <2>2, <2>3, <2>4, <2>6, <2>8
<1>5. Filed \/ AllDefaulted
  <2>1. \/ Filed \/ AllDefaulted
        \/ \A grp \in 1 .. Len(ctrlGroups) : Defaulted(grp)
    BY <1>1 DEF FileInv, SlotsInv, GroupPhases
  <2>2. controller # <<>>
    BY <1>1, ControllerShape
  <2> QED
    BY <1>1, <2>1, <2>2 DEF AllDefaulted, GroupNos
<1> QED
  BY <1>3, <1>4, <1>5

(* NamesAsConfigured: from the text of the file through the array of slots *)
(* to the axes, in every session: each valid axis of each group has the    *)
(* name its list gives it, whatever gaps the group has, or all have their  *)
(* default names.                                                          *)
THEOREM NamesConfigured == JobSpec => []NamesAsConfigured
<1>1. FileInv /\ StartupInv => NamesAsConfigured
  BY AxesNamed
<1> QED
  BY <1>1, FileInvHolds, StartupInvHolds, PTL
-----------------------------------------------------------------------------
(***************************************************************************)
(* One session with the Agent after another.  The three tasks are in step  *)
(* by their semaphores alone; the flag they all read may change in between *)
(* without disturbing that.                                                *)
(***************************************************************************)
SessionBooleans ==
  /\ stopOnDisconnect \in BOOLEAN /\ link \in BOOLEAN /\ agent \in BOOLEAN
  /\ connected \in BOOLEAN /\ executors \in BOOLEAN
  /\ bLinkWasUp \in BOOLEAN /\ monitor \in BOOLEAN
  /\ handle \in BOOLEAN /\ feedback \in BOOLEAN /\ late \in BOOLEAN
SessionPlaces ==
  /\ main \in {"connect", "initialize", "loop", "asserted", "in motion?",
               "join", "clean", "clean groups"}
  /\ comm \in {"none", "created", "loop", "ping", "feedback", "goals",
               "join", "in motion?", "drain", "fini"}
  /\ io \in {"none", "created", "loop", "spin"}
  /\ semComm \in {"none", "full", "empty"}
  /\ semIo \in {"none", "full", "empty"}
  /\ traj \in {"none", "pending", "moving", "escaped", "deferred"}

(* The semaphore of the I/O executor is empty while its task runs, which   *)
(* the task of the motion executor outlives.                               *)
IoTaskInv ==
  /\ io = "created" => comm = "loop" /\ semIo = "full"
  /\ io \in {"loop", "spin"} =>
       /\ comm \in {"loop", "ping", "feedback", "goals", "join"}
       /\ semIo = "empty"

(* So it is with the task of the motion executor and the main task.        *)
CommTaskInv ==
  /\ comm = "created" => main = "loop" /\ io = "none" /\ semComm = "full"
  /\ comm \notin {"none", "created"} => semComm = "empty" /\ executors = TRUE
  /\ comm # "none" => main \in {"loop", "asserted", "in motion?", "join"}
  /\ comm = "none" => io = "none"

(* From when the task of the motion executor has left its loop, nobody can *)
(* take the Agent for connected until the main task connects again.        *)
DisconnectedInv ==
  /\ comm \in {"join", "in motion?", "drain", "fini"} => connected = FALSE
  /\ comm = "none" /\ main # "initialize" => connected = FALSE

(* A goal handle without its message is left by a motion that is over, by  *)
(* one that outlives its goal, or for the moment in which the main task    *)
(* cleans up.                                                              *)
GoalInv ==
  /\ feedback = TRUE => handle = TRUE
  /\ handle = TRUE /\ feedback = FALSE =>
       traj = "none" \/ late = TRUE \/ main = "clean groups"

SessionInv ==
  SessionBooleans /\ SessionPlaces /\ IoTaskInv /\ CommTaskInv
  /\ DisconnectedInv /\ GoalInv
-----------------------------------------------------------------------------
(* At power on no task runs and no semaphore exists.                       *)
LEMMA SessionInvInit == Init => SessionInv
<1> SUFFICES ASSUME Init PROVE SessionInv
  OBVIOUS
<1>1. SessionBooleans
  BY Zenon DEF Init, SessionBooleans
<1>2. SessionPlaces /\ IoTaskInv /\ CommTaskInv
  BY DEF Init, SessionPlaces, IoTaskInv, CommTaskInv
<1>3. DisconnectedInv /\ GoalInv
  BY DEF Init, DisconnectedInv, GoalInv
<1> QED
  BY <1>1, <1>2, <1>3 DEF SessionInv

(* Each step of a task leaves the others where their semaphores expect.    *)
LEMMA TaskStep ==
  ASSUME SessionInv, [Next]_vars
  PROVE  SessionPlaces' /\ IoTaskInv' /\ CommTaskInv'
<1> USE DEF SessionInv, SessionPlaces, IoTaskInv, CommTaskInv,
       tasks, sems, goal, Awake, StopMotion, LateNoMore, IsInMotion
<1>1. CASE MainStep
  <2>1. CASE ConnectToAgent
    BY <2>1 DEF ConnectToAgent
  <2>2. CASE CreateExecutors
    BY <2>2 DEF CreateExecutors
  <2>3. CASE MainLeaves
    BY <2>3 DEF MainLeaves
  <2>4. CASE MainSeesStill
    BY <2>4 DEF MainSeesStill
  <2>5. CASE MainJoins
    BY <2>5 DEF MainJoins
  <2>6. CASE CleanupServers
    BY <2>6 DEF CleanupServers
  <2>7. CASE CleanupController
    BY <2>7 DEF CleanupController
  <2> QED
    BY <1>1, <2>1, <2>2, <2>3, <2>4, <2>5, <2>6, <2>7 DEF MainStep
<1>2. CASE CommStep
  <2>1. CASE StartExecutors
    BY <2>1 DEF StartExecutors
  <2>2. CASE CommSpins
    BY <2>2 DEF CommSpins
  <2>3. CASE PingAnswered
    BY <2>3 DEF PingAnswered
  <2>4. CASE NoGoalReceived
    BY <2>4 DEF NoGoalReceived
  <2>5. CASE PublishActionFeedback
    BY <2>5 DEF PublishActionFeedback
  <2>6. CASE CommLeaves
    BY <2>6 DEF CommLeaves
  <2>7. CASE CommJoins
    BY <2>7 DEF CommJoins
  <2>8. CASE CommStopsMotion
    BY <2>8 DEF CommStopsMotion
  <2>9. CASE CommWaitedForMotion
    BY <2>9 DEF CommWaitedForMotion
  <2>10. CASE CommEnds
    BY <2>10 DEF CommEnds
  <2> QED
    BY <1>2, <2>1, <2>2, <2>3, <2>4, <2>5, <2>6, <2>7, <2>8, <2>9, <2>10 DEF
       CommStep
<1>3. CASE IoStep
  <2>1. CASE IoStarts
    BY <2>1 DEF IoStarts
  <2>2. CASE IoSpins
    BY <2>2 DEF IoSpins
  <2>3. CASE IoSpinEnds
    BY <2>3 DEF IoSpinEnds
  <2>4. CASE IoEnds
    BY <2>4 DEF IoEnds
  <2> QED
    BY <1>3, <2>1, <2>2, <2>3, <2>4 DEF IoStep
<1>4. CASE GoalReceived
  BY <1>4 DEF GoalReceived
<1>12. CASE GoalCanceled
  BY <1>12 DEF GoalCanceled
<1>5. CASE StatusUpdateFails
  BY <1>5 DEF StatusUpdateFails
<1>6. CASE PingAgent
  BY <1>6 DEF PingAgent
<1>7. CASE MonitorUserLanState
  BY <1>7 DEF MonitorUserLanState
<1>8. CASE MotionBegins
  BY <1>8, ZenonT(40) DEF MotionBegins
<1>9. CASE MotionEnds
  BY <1>9, ZenonT(40) DEF MotionEnds
<1>13. CASE DeferredSent
  BY <1>13, ZenonT(40) DEF DeferredSent
<1>10. CASE World
  BY <1>10, ZenonT(40) DEF World
<1>11. CASE UNCHANGED vars
  BY <1>11, ZenonT(40) DEF vars
<1> QED
  BY <1>1, <1>2, <1>3, <1>4, <1>5, <1>6, <1>7, <1>8, <1>9, <1>10, <1>11,
     <1>12, <1>13
  DEF Next

(* The flag stays down where it should, and the message stays allocated.   *)
LEMMA FlagStep ==
  ASSUME SessionInv, [Next]_vars
  PROVE  DisconnectedInv' /\ GoalInv'
<1> USE DEF SessionInv, SessionPlaces, CommTaskInv,
       DisconnectedInv, GoalInv, tasks, sems, goal, Awake, StopMotion,
       LateNoMore, IsInMotion
<1>1. CASE MainStep
  <2>1. CASE ConnectToAgent
    BY <2>1 DEF ConnectToAgent
  <2>2. CASE CreateExecutors
    BY <2>2 DEF CreateExecutors
  <2>3. CASE MainLeaves
    BY <2>3 DEF MainLeaves
  <2>4. CASE MainSeesStill
    BY <2>4 DEF MainSeesStill
  <2>5. CASE MainJoins
    BY <2>5 DEF MainJoins
  <2>6. CASE CleanupServers
    BY <2>6 DEF CleanupServers
  <2>7. CASE CleanupController
    BY <2>7 DEF CleanupController
  <2> QED
    BY <1>1, <2>1, <2>2, <2>3, <2>4, <2>5, <2>6, <2>7 DEF MainStep
<1>2. CASE CommStep
  <2>1. CASE StartExecutors
    BY <2>1 DEF StartExecutors
  <2>2. CASE CommSpins
    BY <2>2 DEF CommSpins
  <2>3. CASE PingAnswered
    BY <2>3 DEF PingAnswered
  <2>4. CASE NoGoalReceived
    BY <2>4 DEF NoGoalReceived
  <2>5. CASE PublishActionFeedback
    <3>1. comm = "feedback" /\ comm' = "goals"
          /\ UNCHANGED <<connected, main>>
      BY <2>5 DEF PublishActionFeedback
    <3>2. DisconnectedInv'
      BY <3>1
    <3>3. GoalInv'
      <4>1. CASE UNCHANGED goal
        BY <4>1, <3>1
      <4>2. CASE feedback' = FALSE /\ late' = (traj' # "none")
        BY <4>2, <3>1
      <4>3. CASE handle' = FALSE /\ feedback = FALSE /\ UNCHANGED feedback
        BY <4>3, <3>1
      <4> QED
        BY <2>5, <4>1, <4>2, <4>3 DEF PublishActionFeedback, SessionBooleans
    <3> QED
      BY <3>2, <3>3
  <2>6. CASE CommLeaves
    <3>1. comm' = "join" /\ UNCHANGED <<connected, main, goal>>
      BY <2>6 DEF CommLeaves
    <3>2. connected = FALSE
      BY <2>6 DEF CommLeaves, SessionBooleans
    <3> QED
      BY <3>1, <3>2
  <2>7. CASE CommJoins
    BY <2>7 DEF CommJoins
  <2>8. CASE CommStopsMotion
    BY <2>8 DEF CommStopsMotion
  <2>9. CASE CommWaitedForMotion
    BY <2>9 DEF CommWaitedForMotion
  <2>10. CASE CommEnds
    BY <2>10 DEF CommEnds
  <2> QED
    BY <1>2, <2>1, <2>2, <2>3, <2>4, <2>5, <2>6, <2>7, <2>8, <2>9, <2>10 DEF
       CommStep
<1>3. CASE IoStep
  <2>1. CASE IoStarts
    BY <2>1 DEF IoStarts
  <2>2. CASE IoSpins
    BY <2>2 DEF IoSpins
  <2>3. CASE IoSpinEnds
    BY <2>3 DEF IoSpinEnds
  <2>4. CASE IoEnds
    BY <2>4 DEF IoEnds
  <2> QED
    BY <1>3, <2>1, <2>2, <2>3, <2>4 DEF IoStep
<1>4. CASE GoalReceived
  BY <1>4 DEF GoalReceived
<1>12. CASE GoalCanceled
  BY <1>12 DEF GoalCanceled
<1>5. CASE StatusUpdateFails
  BY <1>5 DEF StatusUpdateFails
<1>6. CASE PingAgent
  BY <1>6 DEF PingAgent
<1>7. CASE MonitorUserLanState
  BY <1>7 DEF MonitorUserLanState
<1>8. CASE MotionBegins
  BY <1>8 DEF MotionBegins
<1>9. CASE MotionEnds
  BY <1>9 DEF MotionEnds
<1>13. CASE DeferredSent
  BY <1>13 DEF DeferredSent
<1>10. CASE World
  BY <1>10 DEF World
<1>11. CASE UNCHANGED vars
  BY <1>11 DEF vars
<1> QED
  BY <1>1, <1>2, <1>3, <1>4, <1>5, <1>6, <1>7, <1>8, <1>9, <1>10, <1>11,
     <1>12, <1>13
  DEF Next

(* What is TRUE or FALSE stays one of the two.                             *)
LEMMA BooleansStep ==
  ASSUME SessionInv, [Next]_vars
  PROVE  SessionBooleans'
<1> USE DEF SessionInv, SessionBooleans, SessionPlaces, world, lan,
       goal, Reachable, LateNoMore
<1>1. CASE MainStep
  <2>1. CASE ConnectToAgent
    BY Zenon, <2>1 DEF ConnectToAgent
  <2>2. CASE CreateExecutors
    BY Zenon, <2>2 DEF CreateExecutors
  <2>3. CASE MainLeaves
    BY Zenon, <2>3 DEF MainLeaves
  <2>4. CASE MainSeesStill
    BY Zenon, <2>4 DEF MainSeesStill
  <2>5. CASE MainJoins
    BY Zenon, <2>5 DEF MainJoins
  <2>6. CASE CleanupServers
    BY Zenon, <2>6 DEF CleanupServers
  <2>7. CASE CleanupController
    BY Zenon, <2>7 DEF CleanupController
  <2> QED
    BY Zenon, <1>1, <2>1, <2>2, <2>3, <2>4, <2>5, <2>6, <2>7 DEF MainStep
<1>2. CASE CommStep
  <2>1. CASE StartExecutors
    BY Zenon, <2>1 DEF StartExecutors
  <2>2. CASE CommSpins
    BY Zenon, <2>2 DEF CommSpins
  <2>3. CASE PingAnswered
    BY Zenon, <2>3 DEF PingAnswered
  <2>4. CASE NoGoalReceived
    BY Zenon, <2>4 DEF NoGoalReceived
  <2>5. CASE PublishActionFeedback
    BY Zenon, <2>5 DEF PublishActionFeedback
  <2>6. CASE CommLeaves
    BY Zenon, <2>6 DEF CommLeaves
  <2>7. CASE CommJoins
    BY Zenon, <2>7 DEF CommJoins
  <2>8. CASE CommStopsMotion
    BY Zenon, <2>8 DEF CommStopsMotion
  <2>9. CASE CommWaitedForMotion
    BY Zenon, <2>9 DEF CommWaitedForMotion
  <2>10. CASE CommEnds
    BY Zenon, <2>10 DEF CommEnds
  <2> QED
    BY Zenon, <1>2, <2>1, <2>2, <2>3, <2>4, <2>5, <2>6, <2>7, <2>8, <2>9,
       <2>10 DEF
       CommStep
<1>3. CASE IoStep
  <2>1. CASE IoStarts
    BY Zenon, <2>1 DEF IoStarts
  <2>2. CASE IoSpins
    BY Zenon, <2>2 DEF IoSpins
  <2>3. CASE IoSpinEnds
    BY Zenon, <2>3 DEF IoSpinEnds
  <2>4. CASE IoEnds
    BY Zenon, <2>4 DEF IoEnds
  <2> QED
    BY Zenon, <1>3, <2>1, <2>2, <2>3, <2>4 DEF IoStep
<1>4. CASE GoalReceived
  BY Zenon, <1>4 DEF GoalReceived
<1>12. CASE GoalCanceled
  BY Zenon, <1>12 DEF GoalCanceled
<1>5. CASE StatusUpdateFails
  BY Zenon, <1>5 DEF StatusUpdateFails
<1>6. CASE PingAgent
  BY Zenon, <1>6 DEF PingAgent
<1>7. CASE MonitorUserLanState
  BY Zenon, <1>7 DEF MonitorUserLanState
<1>8. CASE MotionBegins
  BY Zenon, <1>8 DEF MotionBegins
<1>9. CASE MotionEnds
  BY Zenon, <1>9 DEF MotionEnds
<1>13. CASE DeferredSent
  BY Zenon, <1>13 DEF DeferredSent
<1>10. CASE World
  BY Zenon, <1>10 DEF World
<1>11. CASE UNCHANGED vars
  BY Zenon, <1>11 DEF vars
<1> QED
  BY Zenon, <1>1, <1>2, <1>3, <1>4, <1>5, <1>6, <1>7, <1>8, <1>9, <1>10,
     <1>11, <1>12, <1>13
  DEF Next

(* Each handler keeps the three tasks in step.                             *)
LEMMA SessionInvHolds == Spec => []SessionInv
<1>1. SessionInv /\ [Next]_vars => SessionInv'
  BY TaskStep, FlagStep, BooleansStep DEF SessionInv
<1> QED
  BY SessionInvInit, <1>1, PTL DEF Spec

(* TypeOK: in every session, however it ends, the tasks are where their    *)
(* code has a place for them and the feedback message is allocated for the *)
(* active goal only.                                                       *)
THEOREM SessionTypes == Spec => []TypeOK
<1>1. SessionInv => TypeOK
  BY DEF SessionInv, SessionBooleans, SessionPlaces, GoalInv, TypeOK
<1> QED
  BY <1>1, SessionInvHolds, PTL

(* No executor, semaphore or message is released under a task that still   *)
(* uses it, whenever the link goes and comes and whichever of the tasks    *)
(* notices first.                                                          *)
THEOREM ObjectsOutlive == Spec => []TasksOutlivedByTheirObjects
<1>1. SessionInv => TasksOutlivedByTheirObjects
  BY DEF SessionInv, SessionPlaces, IoTaskInv, CommTaskInv,
     TasksOutlivedByTheirObjects
<1> QED
  BY <1>1, SessionInvHolds, PTL

(* With stop_motion_on_disconnect the progress tracker of IncMoveLoop      *)
(* never follows the goal handle to a feedback message that the end of a   *)
(* session freed; increments that outlive the goal they are of (late) are  *)
(* excepted.                                                               *)
THEOREM FeedbackFound == Spec => []TrackerFindsFeedback
<1>1. SessionInv => TrackerFindsFeedback
  <2> SUFFICES ASSUME SessionInv, stopOnDisconnect, SendsIncrements, handle,
                      ~late
               PROVE  feedback
    BY DEF TrackerFindsFeedback
  <2>1. traj # "none" /\ connected # FALSE /\ late # TRUE
    BY DEF SendsIncrements, SessionInv, SessionBooleans
  <2>2. main # "clean groups"
    BY <2>1 DEF SessionInv, SessionPlaces, CommTaskInv, DisconnectedInv
  <2>3. feedback # FALSE
    BY <2>1, <2>2 DEF SessionInv, SessionBooleans, GoalInv
  <2> QED
    BY <2>3 DEF SessionInv, SessionBooleans
<1> QED
  BY <1>1, SessionInvHolds, PTL
=============================================================================
