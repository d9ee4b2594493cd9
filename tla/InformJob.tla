----------------------------- MODULE InformJob -----------------------------
(***************************************************************************)
(* The robot job that lets the program move the robot, checked or created  *)
(* at the start of each session (InformCheckerAndGenerator.c).  A job is   *)
(* its header, the numbered lines with the groups each names, and its      *)
(* instructions after NOP.                                                 *)
(***************************************************************************)
EXTENDS JointNames

CONSTANTS MAX_GROUP_COMBINATIONS,         \* header lines the check has room for
          MAX_GROUP_ITEMS_IN_COMBINATION  \* groups it has room for in each

VARIABLES job,        \* on the controller, NoJob if there is none
          verdict,    \* history: of the last check of the job as it is
          madeHere    \* history: created by the program and not edited

jobVars == <<job, verdict, madeHere>>

NoJob == [header |-> {}, lines |-> <<"none">>]

rosInitJobLines ==
  <<"DOUT 890 OFF", "DOUT 889 OFF", "TIMER", "DOUT 889 ON", "WAIT 890",
    "DOUT 890 OFF", "DOUT 889 OFF", "END">>

Ids == {controller[grp].id : grp \in GroupNos}
StationIds ==
  {"S1", "S2", "S3", "S4", "S5", "S6", "S7", "S8", "S9", "S10", "S11", "S12",
   "S13", "S14", "S15", "S16", "S17", "S18", "S19", "S20", "S21", "S22", "S23",
   "S24"}
IsStation(g) == g.id \in StationIds

(* A group is a robot, a station or the base of one of the robots.         *)
ASSUME GroupsAssumption ==
  \A c \in Controllers : \A grp \in DOMAIN c :
    \/ c[grp].id \in RobotIds \cup StationIds
    \/ \E r \in DOMAIN c : c[r].id \in RobotIds /\ c[grp].id \in c[r].baseTrack

(* A line of the header: a robot with its base, or a station; a base has   *)
(* no line of its own.                                                     *)
OwnIdOnly(g) == IF IsRobot(g) \/ IsStation(g) THEN {g.id} ELSE {}
GroupLine(g) ==
  IF IsRobot(g) THEN {g.id} \cup g.base
  ELSE IF IsStation(g) THEN {g.id} ELSE {}

(* The groups with a line, which is numbered among them.                   *)
Lined == {grp \in GroupNos : GroupLine(controller[grp]) # {}}
LineNo(grp) == Cardinality({k \in Lined : k <= grp})

CreatedJob ==
  [header |-> {<<LineNo(grp), GroupLine(controller[grp])>> : grp \in Lined},
   lines |-> rosInitJobLines]

(* CheckHeaderForGroupCombinations: the groups are collected in an array   *)
(* on the stack, at the number of their line, without a look at its size.  *)
(* What the check finds is left open when a line does not fit.             *)
HeaderFits ==
  \A line \in job.header :
    /\ line[1] <= MAX_GROUP_COMBINATIONS
    /\ Cardinality(line[2]) <= MAX_GROUP_ITEMS_IN_COMBINATION
HeaderNamesAll == \A id \in Ids : \E line \in job.header : id \in line[2]
HeaderOk == IF HeaderFits THEN {HeaderNamesAll} ELSE BOOLEAN

(* CheckInformLines: fewer lines than there should be are not noticed.     *)
LinesOk ==
  /\ Len(job.lines) <= Len(rosInitJobLines)
  /\ \A i \in DOMAIN job.lines : job.lines[i] = rosInitJobLines[i]

Checked == phase = "job" /\ phase' = "monitor"

(* ValidateJob on a controller without the job: one is created and loaded. *)
CreateJob ==
  /\ Checked /\ job = NoJob
  /\ job' = CreatedJob /\ verdict' = "created" /\ madeHere' = TRUE

(* No room for the file, or it cannot be loaded: an alarm.                 *)
CreateJobFails ==
  /\ Checked /\ job = NoJob
  /\ verdict' = "failed"
  /\ UNCHANGED <<job, madeHere>>

CheckJob ==
  /\ Checked /\ job # NoJob
  /\ \E headerOk \in HeaderOk :
       verdict' = IF g_nodeConfigSettings.allow_custom_inform_job THEN "custom"
                  ELSE IF headerOk /\ LinesOk THEN "ok" ELSE "invalid"
  /\ UNCHANGED <<job, madeHere>>

(* The array does not hold the header: the task goes no further.           *)
CheckJobOverruns ==
  /\ phase = "job" /\ job # NoJob /\ ~HeaderFits
  /\ ~g_nodeConfigSettings.allow_custom_inform_job
  /\ phase' = "asserted"
  /\ UNCHANGED jobVars

(* The copy cannot be opened: alarm, and the check of nothing fails.       *)
CheckJobUnopened ==
  /\ Checked /\ job # NoJob /\ ~g_nodeConfigSettings.allow_custom_inform_job
  /\ verdict' = "unopened"
  /\ UNCHANGED <<job, madeHere>>

ValidateJob ==
  /\ \/ CreateJob \/ CreateJobFails
     \/ CheckJob \/ CheckJobOverruns \/ CheckJobUnopened
  /\ UNCHANGED <<copyVars, alarms, file, parserVars, settingVars, nics,
                 controller, groupVars, names>>

(* External: the operator deletes or edits the job on the pendant.         *)
EditedJobs ==
  {NoJob, [header |-> {<<1, {controller[1].id}>>}, lines |-> rosInitJobLines]}
  \cup {[header |-> {<<1, Ids>>}, lines |-> ls] :
          ls \in {SubSeq(rosInitJobLines, 1, 3),
                  [rosInitJobLines EXCEPT ![4] = "DOUT 889 OFF"],
                  Append(rosInitJobLines, "CALL")}}

EditJob ==
  /\ phase = "running"
  /\ job' \in EditedJobs
  /\ madeHere' = FALSE /\ verdict' = "unknown"
  /\ UNCHANGED nameVars

JobInit ==
  /\ NamesInit
  /\ job = NoJob /\ verdict = "unknown" /\ madeHere = FALSE

JobNext ==
  \/ NamesNext /\ UNCHANGED jobVars
  \/ ValidateJob \/ EditJob

JobSpec == JobInit /\ [][JobNext]_<<nameVars, jobVars>>
-----------------------------------------------------------------------------
(* As long as the header fits the array of the check: the job the program  *)
(* made in one session passes its own check in every later one, and a job  *)
(* that passes names each group of the controller and has no instruction   *)
(* out of its place.  Nothing is said of a job with more lines of groups.  *)
JobJudgedRightly ==
  HeaderFits =>
    /\ madeHere => verdict \notin {"invalid", "failed"}
    /\ verdict = "ok" => HeaderNamesAll /\ LinesOk
=============================================================================
