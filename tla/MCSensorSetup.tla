---------------------------- MODULE MCSensorSetup ----------------------------
(* Instances of SensorSetup for TLC.                                       *)
EXTENDS SensorSetup, SequencesExt

Json(name, group, cmds, opVars) ==
  [name |-> name, group |-> group, cmds |-> cmds, vars |-> opVars,
   stamped |-> TRUE, splitop |-> "median"]
Monitor(name, group, opVars) ==
  Json(name, group, IF opVars = <<>> THEN {"oid"} ELSE {"op"}, opVars)

\* Two names in two groups (0: none), an operation on them in two orders, an
\* operation on itself, one that is also a command, and two invalid monitors.
MonitorJsons ==
  {Monitor("a", 0, <<>>), Monitor("a", 1, <<>>), Monitor("b", 1, <<>>),
   Monitor("a", 1, <<"b">>), Monitor("c", 1, <<"a", "b">>),
   Monitor("b", 0, <<"a">>), Json("b", 1, {"op", "system"}, <<"a">>),
   Json("b", 1, {}, <<>>), Json(NULL, 1, {"oid"}, <<>>)}

MonitorArrays == BoundedSeq(MonitorJsons, 3) \cup
  {<<Monitor("a", 1, <<>>), i, Monitor("b", 1, <<>>), Monitor("c", 1, <<"a", "b">>)>>
     : i \in MonitorJsons}

Keys == [name : BOOLEAN, ip : BOOLEAN, community : BOOLEAN]
Sensor(keys, arrays, enrich) ==
  {[name |-> keys.name, ip |-> keys.ip, community |-> keys.community,
    monitors |-> a, enrichment |-> enrich] : a \in arrays}

AllKeys == [name |-> TRUE, ip |-> TRUE, community |-> TRUE]
FewMonitors == {NULL, <<>>, <<Monitor("a", 0, <<>>)>>}

\* Every array of monitors in a complete sensor, and every incomplete sensor.
PlainConfigs ==
  Sensor(AllKeys, MonitorArrays, FALSE) \cup
  UNION {Sensor(k, FewMonitors, FALSE) : k \in Keys}

EnrichedConfigs == UNION {Sensor(k, FewMonitors, TRUE) : k \in Keys}

Ended == pc = "done" /\ ~configAlive /\ UNCHANGED vars
MCNext == Next \/ Ended
MCSpec == Init /\ [][MCNext]_vars

=============================================================================
