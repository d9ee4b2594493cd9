----------------------------- MODULE MCStartup -----------------------------
(* Controllers of one, two and three groups of every kind, and the files   *)
(* their users may write.  Three robots and stations have more lines of    *)
(* groups than the header check has room for.                              *)
EXTENDS InformJob

Params(id, base, valid, linear, slave) ==
  [id |-> id, baseTrack |-> base, numAxes |-> Cardinality(valid), slaveAxis |-> slave,
   motionType |-> [a \in 0 .. 7 |-> IF a \in linear THEN "linear" ELSE "rotation"],
   maxIncrement |-> [a \in 0 .. 7 |-> IF a \in valid THEN 100 ELSE 0]]
Robot(id, base, valid, linear) == Params(id, base, valid, linear, FALSE)
Palletizer(id, valid) == Params(id, {}, valid, {}, TRUE)
External(id, valid, linear) == Params(id, {}, valid, linear, FALSE)

Delta == {0, 1, 2, 5}
Station == External("S1", 0 .. 1, {})

MCControllers ==
  {<<Robot("R1", {}, 0 .. 5, {})>>,
   <<Robot("R1", {}, 0 .. 6, {})>>,
   <<Robot("R1", {}, {0, 1, 2, 4, 5}, {})>>,
   <<Palletizer("R1", {0, 1, 2, 4, 5}), Station>>,
   <<Robot("R1", {}, 0 .. 3, {2}), Station>>,
   <<Robot("R1", {"B1"}, 0 .. 5, {}), External("B1", {0}, {0})>>,
   <<Robot("R1", {}, 0 .. 6, {}), Palletizer("R2", Delta)>>,
   <<Robot("R1", {}, 0 .. 5, {}), Robot("R2", {}, 0 .. 3, {2}), Station>>}

MCPulses == [a \in 0 .. 7 |-> 100 + a]
MCPulseToRad == [a \in 0 .. 7 |-> 2 + a]
MCPulseToMeter == [a \in 0 .. 7 |-> 20 + a]

Names(grp, n) == [k \in 1 .. n |-> <<"name", grp, k>>]
(* A blank entry and a further one, which takes its place.                 *)
WithBlank(l) == <<Head(l), <<>>>> \o Tail(l)

Lists ==
  {<<Names(1, 6)>>, <<Names(1, 7)>>, <<Names(1, 4), Names(2, 6)>>,
   <<Names(1, 5), Names(2, 2)>>, <<Names(1, 6), Names(2, 1)>>,
   <<Names(1, 7), Names(2, 4)>>, <<Names(1, 9), Names(2, 2)>>,
   <<WithBlank(Names(1, 6)), Names(2, 1)>>, << <<>>, Names(2, 1)>>,
   <<Names(1, 6), Names(2, 4), Names(3, 2)>>,
   <<Names(1, 6), Names(2, 4), Names(3, 6)>>}

Agent == << <<"agent_ip_address", <<"netA">>>> >>
Logging == << <<"log_to_stdout", <<"true">>>>, <<"logging", <<"x">>>>,
              <<"executor_sleep_period", <<"int", 50>>>>,
              <<"robot_status", <<"default">>>> >>
Wrong == << <<"log_to_stdout", <<"maybe">>>>, <<"ros_domain_id", <<"int", 7>>>>,
            <<"executor_sleep_period", <<"int", 0>>>>,
            <<"robot_status", <<"reliable">>>> >>
Custom == << <<"allow_custom_inform_job", <<"true">>>>,
             <<"userlan_monitor_port", <<"USER_LAN9">>>>, <<"publish_tf", <<>>>> >>

File(before, kind, lists, after) ==
  [before |-> before, names |-> kind, lists |-> lists, after |-> after]
MCFiles ==
  {File(Agent, "lists", l, Logging) : l \in Lists}
  \cup {File(Agent, "absent", <<>>, Custom \o Logging),
        File(Agent, "blank", <<>>, Logging), File(<<>>, "absent", <<>>, <<>>),
        File(Agent \o Wrong, "absent", <<>>, Wrong),
        File(Agent, "absent", <<>>, << <<"ros_domain_id", <<"int", 500>>>> >>)}

Port(error, net, gateway) == [error |-> error, net |-> net, gateway |-> gateway]
MCNetworks ==
  {[USER_LAN1 |-> Port(FALSE, <<"netB">>, <<"netB">>),
    USER_LAN2 |-> Port(FALSE, <<"netA">>, <<>>)],
   [USER_LAN1 |-> Port(FALSE, <<"netB">>, <<"netB">>),
    USER_LAN2 |-> Port(TRUE, <<>>, <<>>)],
   [USER_LAN1 |-> Port(FALSE, <<"netB">>, <<"netB">>),
    USER_LAN2 |-> Port(FALSE, <<"netC">>, <<>>)]}
=============================================================================
