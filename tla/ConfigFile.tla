----------------------------- MODULE ConfigFile -----------------------------
(***************************************************************************)
(* The configuration file: brought from a USB stick (ConfigFile.c:396-477),*)
(* read event by event (213-394), checked (514-690).  A text is a tuple:   *)
(* <<>> when blank, <<"int", n>> for a number, <<key>> or <<word>>.        *)
(***************************************************************************)
EXTENDS Integers, Sequences, FiniteSets, SequencesExt

CONSTANTS MAX_CONTROLLABLE_GROUPS, MP_GRP_AXES_NUM,
          NamesPerCopy,     \* MAX_YAML_STRING_LEN / MAX_JOINT_NAME_LENGTH
          Files,            \* what users write
          Networks,         \* what the LAN ports may be configured for
          Chunks            \* buffers a file is copied in

ASSUME FileAssumption ==
  /\ MAX_CONTROLLABLE_GROUPS \in Nat \ {0} /\ MP_GRP_AXES_NUM \in Nat \ {0}
  /\ NamesPerCopy \in Nat \ {0} /\ Chunks \in Nat \ {0}

VARIABLES
  phase,                    \* what the main task is doing
  usb, sram,                \* the file on the stick and on the controller
  left,                     \* buffers still to copy
  told, unread,             \* history, since the file was last whole: an
                            \* alarm was raised, a read failed
  alarms,                   \* subcodes of ALARM_CONFIGURATION_FAIL
  file,                     \* the file that is parsed
  events,                   \* of the YAML parser, still to come
  activeItem, nestedListCounter, jointIteratorCountdownPerGroup,
  joint_names_iterator,     \* as an index of joint_names
  joint_names,
  g_nodeConfigSettings,     \* the other settings
  nics                      \* LAN ports: error, network, gateway

copyVars == <<usb, sram, left, told, unread>>
parserVars == <<events, activeItem, nestedListCounter,
                jointIteratorCountdownPerGroup, joint_names_iterator>>
settingVars == <<joint_names, g_nodeConfigSettings>>
configVars == <<phase, copyVars, alarms, file, parserVars, settingVars, nics>>

Slots == MAX_CONTROLLABLE_GROUPS * MP_GRP_AXES_NUM
Blank == <<>>
NoItem == "NULL"

(* One or two keys of each type; the last three stand behind joint_names   *)
(* in the structure of settings.                                           *)
typeOfValue ==
  [ros_domain_id |-> "int", agent_ip_address |-> "string",
   publish_tf |-> "bool", joint_names |-> "joint_names",
   userlan_monitor_enabled |-> "bool", userlan_monitor_port |-> "port",
   allow_custom_inform_job |-> "bool",
   log_to_stdout |-> "bool", executor_sleep_period |-> "int",
   robot_status |-> "qos"]
Keys == DOMAIN typeOfValue \ {"joint_names"}

(* A file is a sequence of entries, keys and texts, before joint_names and *)
(* one behind, and the lists.  A text under a word that is no key is no    *)
(* key: the parser would take it for one.                                  *)
IsSequence(s) == s \in Seq(Range(s))

ASSUME FilesAssumption ==
  \A f \in Files :
    /\ f.names \in {"absent", "blank", "lists"}
    /\ IsSequence(f.before) /\ IsSequence(f.after) /\ IsSequence(f.lists)
    /\ \A l \in Range(f.lists) : IsSequence(l)
    /\ \A p \in Range(f.before) \cup Range(f.after) :
         /\ p[1] # "joint_names"
         /\ p[1] \notin Keys => p[2] = Blank \/ p[2][1] \notin DOMAIN typeOfValue

Defaults ==
  [ros_domain_id |-> 0, agent_ip_address |-> Blank, publish_tf |-> TRUE,
   userlan_monitor_enabled |-> TRUE, userlan_monitor_port |-> "AUTO",
   allow_custom_inform_job |-> FALSE, log_to_stdout |-> FALSE,
   executor_sleep_period |-> 10,
   robot_status |-> "sensor_data"]

(* What a 0 in memory means for the settings behind the names.             *)
Cleared == [log_to_stdout |-> FALSE, executor_sleep_period |-> 0,
            robot_status |-> "unknown"]
SPILLED(settings) ==
  [k \in Keys |-> IF k \in DOMAIN Cleared THEN Cleared[k] ELSE settings[k]]
-----------------------------------------------------------------------------
(* Ros_ConfigFile_CheckUsbForNewConfigFile: the old file goes, mpRemove    *)
(* may fail or not.                                                        *)
CheckUsb ==
  /\ phase = "usb"
  /\ IF usb = "new"
       THEN \/ /\ phase' = "copy" /\ left' = Chunks /\ sram' = "partial"
               /\ UNCHANGED told
            \/ /\ phase' = "open" /\ sram' \in {sram, "none"}
               /\ told' = TRUE /\ UNCHANGED left
       ELSE phase' = "open" /\ UNCHANGED <<sram, left, told>>
  /\ UNCHANGED <<usb, unread, alarms, file, parserVars, settingVars, nics>>

CopyFailsUntold ==
  /\ phase = "copy" /\ left > 0
  /\ phase' = "rename"
  /\ UNCHANGED <<copyVars, alarms, file, parserVars, settingVars, nics>>

CopyChunk ==
  /\ phase = "copy" /\ left > 0
  /\ left' = left - 1
  /\ UNCHANGED <<phase, usb, sram, told, unread, alarms, file, parserVars,
                 settingVars, nics>>

CopyFails ==
  /\ phase = "copy" /\ left > 0
  /\ phase' = "rename" /\ told' = TRUE
  /\ UNCHANGED <<usb, sram, left, unread, alarms, file, parserVars,
                 settingVars, nics>>

(* A negative count ends the loop as the end of the file does.             *)
ReadFails ==
  /\ phase = "copy" /\ left > 0
  /\ phase' = "rename" /\ unread' = TRUE
  /\ UNCHANGED <<usb, sram, left, told, alarms, file, parserVars, settingVars,
                 nics>>

CopyDone ==
  /\ phase = "copy" /\ left = 0
  /\ phase' = "rename" /\ sram' = "whole"
  /\ UNCHANGED <<usb, left, told, unread, alarms, file, parserVars,
                 settingVars, nics>>

Rename ==
  /\ phase = "rename"
  /\ phase' = "open" /\ usb' \in {usb, "processed"} /\ left' = 0
  /\ UNCHANGED <<sram, told, unread, alarms, file, parserVars,
                 settingVars, nics>>

(* External: power is lost before the file is parsed, or the stick pulled. *)
PowerLoss ==
  /\ phase \in {"copy", "rename", "open"}
  /\ phase' = "usb" /\ left' = 0 /\ alarms' = {}
  /\ UNCHANGED <<usb, sram, told, unread, file, parserVars, settingVars, nics>>

StickPulled ==
  /\ phase = "usb" /\ usb # "none"
  /\ usb' = "none"
  /\ UNCHANGED <<phase, sram, left, told, unread, alarms, file, parserVars,
                 settingVars, nics>>
-----------------------------------------------------------------------------
Scalar(t) == [type |-> "scalar", value |-> t]
Mark(type) == [type |-> type, value |-> Blank]

(* Key and text of one entry after another.                                *)
Entries(pairs) ==
  [i \in 1 .. 2 * Len(pairs) |->
     LET p == pairs[(i + 1) \div 2] IN
     Scalar(IF i % 2 = 1 THEN <<p[1]>> ELSE p[2])]
NameList(l) ==
  <<Mark("start")>> \o [k \in DOMAIN l |-> Scalar(l[k])] \o <<Mark("end")>>

(* A file: entries before and after joint_names, which is absent, without  *)
(* a value, or a list of lists.                                            *)
NamesEvents(f) ==
  CASE f.names = "absent" -> <<>>
    [] f.names = "blank"  -> <<Scalar(<<"joint_names">>), Scalar(Blank)>>
    [] OTHER -> <<Scalar(<<"joint_names">>), Mark("start")>>
                \o FlattenSeq([k \in DOMAIN f.lists |-> NameList(f.lists[k])])
                \o <<Mark("end")>>
EventsOf(f) ==
  <<Mark("other")>> \o Entries(f.before) \o NamesEvents(f)
  \o Entries(f.after) \o <<Mark("other")>>

(* Without a file main tries again, for ever; it may be loaded through the *)
(* pendant (external).                                                     *)
Missing ==
  /\ phase = "open" /\ sram = "none"
  /\ alarms' = alarms \cup {"MISSINGFILE"}
  /\ UNCHANGED <<phase, copyVars, file, parserVars, settingVars, nics>>

PendantLoad ==
  /\ phase = "open" /\ sram = "none"
  /\ sram' = "whole"
  /\ UNCHANGED <<phase, usb, left, told, unread, alarms, file, parserVars,
                 settingVars, nics>>

(* What becomes of half a file is not followed.                            *)
Open ==
  /\ phase = "open" /\ sram = "whole"
  /\ phase' = "parse"
  /\ file' \in Files
  /\ events' = EventsOf(file')
  /\ told' = FALSE /\ unread' = FALSE
  /\ UNCHANGED <<usb, sram, left, alarms, activeItem, nestedListCounter,
                 jointIteratorCountdownPerGroup, joint_names_iterator,
                 settingVars, nics>>
-----------------------------------------------------------------------------
(* Ros_ConfigFile_CheckYamlEvent, by what the event meets.                 *)
Event == events[1]
Reads(type) == phase = "parse" /\ events # <<>> /\ Event.type = type
                /\ events' = Tail(events)

atoi(text) == IF Len(text) = 2 THEN text[2] ELSE 0

(* The value stored and the alarm raised for a text that is not blank.     *)
Value(key, text, old) ==
  CASE typeOfValue[key] = "string" -> text
    [] typeOfValue[key] = "int"    -> atoi(text)
    [] typeOfValue[key] = "bool"   ->
         IF text = <<"true">> THEN TRUE
         ELSE IF text = <<"false">> THEN FALSE ELSE old
    [] typeOfValue[key] = "qos"    ->
         IF text = <<"sensor_data">> THEN "sensor_data" ELSE "default"
    [] OTHER ->
         IF text \in {<<"USER_LAN1">>, <<"USER_LAN2">>} THEN text[1]
         ELSE "DISABLED"

ValueAlarm(key, text) ==
  CASE typeOfValue[key] = "bool" /\ text \notin {<<"true">>, <<"false">>} ->
         {"INVALID_BOOLEAN_VALUE"}
    [] typeOfValue[key] = "qos" /\ text \notin {<<"sensor_data">>, <<"default">>} ->
         {"INVALID_QOS_VALUE"}
    [] OTHER -> {}

ReadValueAnyhow ==
  /\ Reads("scalar") /\ activeItem \in Keys
  /\ IF Event.value = Blank
       THEN UNCHANGED <<g_nodeConfigSettings, alarms, activeItem>>
       ELSE /\ g_nodeConfigSettings' = [g_nodeConfigSettings EXCEPT
                 ![activeItem] = Value(activeItem, Event.value, @)]
            /\ alarms' = alarms \cup ValueAlarm(activeItem, Event.value)
            /\ activeItem' = NoItem
  /\ UNCHANGED <<phase, copyVars, file, joint_names, nics, nestedListCounter,
                 jointIteratorCountdownPerGroup, joint_names_iterator>>

ReadValue ==
  /\ Reads("scalar") /\ activeItem \in Keys
  /\ IF Event.value = Blank
       THEN UNCHANGED <<g_nodeConfigSettings, alarms>>
       ELSE /\ g_nodeConfigSettings' = [g_nodeConfigSettings EXCEPT
                 ![activeItem] = Value(activeItem, Event.value, @)]
            /\ alarms' = alarms \cup ValueAlarm(activeItem, Event.value)
  /\ activeItem' = NoItem
  /\ UNCHANGED <<phase, copyVars, file, joint_names, nics, nestedListCounter,
                 jointIteratorCountdownPerGroup, joint_names_iterator>>

(* strncpy fills up with zeros: over the slots behind, and behind the last *)
(* slot over the settings that follow.                                     *)
ReadJointName ==
  /\ Reads("scalar") /\ activeItem = "joint_names"
  /\ IF Event.value = Blank
       THEN UNCHANGED <<settingVars, joint_names_iterator,
                        jointIteratorCountdownPerGroup>>
       ELSE LET i == joint_names_iterator IN
            /\ joint_names' = [s \in 0 .. Slots - 1 |->
                 IF s = i THEN Event.value
                 ELSE IF s \in i + 1 .. i + NamesPerCopy - 1 THEN Blank
                 ELSE joint_names[s]]
            /\ g_nodeConfigSettings' =
                 IF i + NamesPerCopy > Slots THEN SPILLED(g_nodeConfigSettings)
                 ELSE g_nodeConfigSettings
            /\ joint_names_iterator' = i + 1
            /\ jointIteratorCountdownPerGroup' = jointIteratorCountdownPerGroup - 1
  /\ UNCHANGED <<phase, copyVars, alarms, file, nics, activeItem,
                 nestedListCounter>>

(* A text that is no key leaves the parser without an item.                *)
FindKey ==
  /\ Reads("scalar") /\ activeItem = NoItem
  /\ activeItem' = IF Event.value # Blank
                       /\ Event.value[1] \in DOMAIN typeOfValue
                     THEN Event.value[1] ELSE NoItem
  /\ UNCHANGED <<phase, copyVars, alarms, file, settingVars, nics,
                 nestedListCounter, jointIteratorCountdownPerGroup,
                 joint_names_iterator>>

SequenceStart ==
  /\ Reads("start") /\ activeItem = "joint_names"
  /\ nestedListCounter' = nestedListCounter + 1
  /\ jointIteratorCountdownPerGroup' = MP_GRP_AXES_NUM
  /\ UNCHANGED <<phase, copyVars, alarms, file, settingVars, nics, activeItem,
                 joint_names_iterator>>

SequenceEndNoSkip ==
  /\ Reads("end") /\ activeItem = "joint_names"
  /\ nestedListCounter' = nestedListCounter - 1
  /\ activeItem' = IF nestedListCounter' = 0 THEN NoItem ELSE activeItem
  /\ UNCHANGED <<phase, copyVars, alarms, file, settingVars, nics,
                 jointIteratorCountdownPerGroup, joint_names_iterator>>

(* The slots the list left free are skipped, once more by the outer list.  *)
SequenceEnd ==
  /\ Reads("end") /\ activeItem = "joint_names"
  /\ nestedListCounter' = nestedListCounter - 1
  /\ joint_names_iterator' = joint_names_iterator + jointIteratorCountdownPerGroup
  /\ activeItem' = IF nestedListCounter' = 0 THEN NoItem ELSE activeItem
  /\ UNCHANGED <<phase, copyVars, alarms, file, settingVars, nics,
                 jointIteratorCountdownPerGroup>>

OtherEvent ==
  /\ Reads("other")
  /\ UNCHANGED <<phase, copyVars, alarms, file, settingVars, nics, activeItem,
                 nestedListCounter, jointIteratorCountdownPerGroup,
                 joint_names_iterator>>

CheckYamlEvent ==
  \/ ReadValue \/ ReadJointName \/ FindKey
  \/ SequenceStart \/ SequenceEnd \/ OtherEvent
-----------------------------------------------------------------------------
(* Ros_ConfigFile_HostOnNetworkInterface: a gateway is compared with the   *)
(* network of the host.                                                    *)
HostOn(port) ==
  LET host == g_nodeConfigSettings.agent_ip_address
      net == nics[port].net  gateway == nics[port].gateway
  IN  net = host \/ (gateway # Blank /\ gateway = host)

(* Ros_ConfigFile_ValidateCriticalSettings, which looks at the second port *)
(* only when the first will not do.                                        *)
CriticalFault ==
  IF g_nodeConfigSettings.ros_domain_id \notin 0 .. 101 THEN "INVALID_DOMAIN_ID"
  ELSE IF g_nodeConfigSettings.agent_ip_address = Blank THEN "MISSING_AGENT_IP"
  ELSE IF nics["USER_LAN1"].error THEN "AGENT_ON_NET_CHECK"
  ELSE IF HostOn("USER_LAN1") THEN "none"
  ELSE IF nics["USER_LAN2"].error THEN "AGENT_ON_NET_CHECK"
  ELSE IF HostOn("USER_LAN2") THEN "none" ELSE "INVALID_AGENT_SUBNET"

(* The port that carries the Agent, or "AUTO".                             *)
Detected == IF HostOn("USER_LAN1") THEN "USER_LAN1"
            ELSE IF HostOn("USER_LAN2") THEN "USER_LAN2" ELSE "AUTO"

MonitorPort ==
  IF g_nodeConfigSettings.userlan_monitor_enabled
     /\ g_nodeConfigSettings.userlan_monitor_port = "AUTO"
    THEN Detected ELSE g_nodeConfigSettings.userlan_monitor_port

MonitorAlarm ==
  CASE ~g_nodeConfigSettings.userlan_monitor_enabled -> {}
    [] MonitorPort = "AUTO" -> {"USERLAN_MONITOR_AUTO_DETECT_FAILED"}
    [] MonitorPort = "DISABLED" -> {"INVALID_USERLAN_MONITOR_PORT"}
    [] OTHER -> {}

PeriodOk == g_nodeConfigSettings.executor_sleep_period \in 1 .. 100

ReadNics ==
  /\ phase = "parse" /\ events = <<>>
  /\ phase' = "validate"
  /\ nics' \in Networks
  /\ UNCHANGED <<copyVars, alarms, file, parserVars, settingVars>>

Validate ==
  /\ phase = "validate"
  /\ IF CriticalFault = "none"
       THEN /\ phase' = "init"
            /\ alarms' = alarms \cup MonitorAlarm
                 \cup (IF PeriodOk THEN {} ELSE {"INVALID_EXECUTOR_PERIOD"})
            /\ g_nodeConfigSettings' = [g_nodeConfigSettings EXCEPT
                 !.executor_sleep_period = IF PeriodOk THEN @ ELSE 10,
                 !.userlan_monitor_port = MonitorPort,
                 !.userlan_monitor_enabled = @ /\ MonitorAlarm = {}]
       ELSE /\ phase' = "asserted"
            /\ alarms' = alarms \cup {CriticalFault}
            /\ UNCHANGED g_nodeConfigSettings
  /\ UNCHANGED <<copyVars, file, joint_names, parserVars, nics>>

(* Ros_ConfigFile_SetAllDefaultValues; the statics of the parser.          *)
ConfigInit ==
  /\ phase = "usb"
  /\ usb \in {"none", "new"} /\ sram \in {"none", "whole"}
  /\ left = 0 /\ told = FALSE /\ unread = FALSE
  /\ alarms = {} /\ file = NoItem /\ events = <<>> /\ nics = <<>>
  /\ activeItem = NoItem /\ nestedListCounter = 0
  /\ jointIteratorCountdownPerGroup = MP_GRP_AXES_NUM
  /\ joint_names_iterator = 0
  /\ joint_names = [s \in 0 .. Slots - 1 |-> Blank]
  /\ g_nodeConfigSettings = Defaults

ConfigNext ==
  \/ CheckUsb \/ CopyChunk \/ CopyFails \/ ReadFails \/ CopyDone \/ Rename
  \/ PowerLoss \/ StickPulled
  \/ Missing \/ PendantLoad \/ Open \/ CheckYamlEvent \/ ReadNics \/ Validate
-----------------------------------------------------------------------------
(* troubleshooting.md: a controller whose settings have a gateway for the  *)
(* Agent's network is not turned away ("add a gateway which can reach the  *)
(* Agent's IP address").  A gateway is a host of the port's own network.   *)
GatewayAccepted ==
  "INVALID_AGENT_SUBNET" \in alarms =>
    \A port \in DOMAIN nics : nics[port].gateway = Blank
=============================================================================
