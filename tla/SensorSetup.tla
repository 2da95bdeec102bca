----------------------------- MODULE SensorSetup -----------------------------
(***************************************************************************)
(* From the JSON object of a sensor to the sensor the workers process:     *)
(* parse_rb_sensor (rb_sensor.c), parse_rb_monitors and the dependencies   *)
(* (rb_sensor_monitor_array.c), and the end of both the configuration and  *)
(* the sensor.  The references of the "enrichment" object, which the two   *)
(* share, are counted as json-c counts them.                               *)
(***************************************************************************)
EXTENDS MonitorDeps

CONSTANTS
  Configs,  \* the JSON sensors: which keys they have, and their monitors
  NULL

\* A JSON array is a sequence, and so are the variables that libmatheval lists.
IsArrayOf(s) == s \in Seq({s[k] : k \in DOMAIN s})

ASSUME NullAssumption == NULL \notin {"config", "own"}
ASSUME ConfigsAssumption ==
  \A c \in Configs : c.monitors # NULL =>
    /\ IsArrayOf(c.monitors)
    /\ \A k \in DOMAIN c.monitors : IsArrayOf(c.monitors[k].vars)

VARIABLES
  conf,        \* the JSON object of the sensor
  pc,          \* where parse_rb_sensor is
  index,       \* i of the loop over the JSON monitors
  monitors,    \* sensor->monitors
  deps,        \* sensor->op_vars
  nvalues,     \* sensor->last_vals->count
  enrichment,  \* sensor->data.enrichment: NULL, "config" or "own"
  refs,        \* reference counts of the two possible enrichment objects
  configAlive, \* the configuration has not been put
  taken        \* history: JSON monitors that entered the array

sensorVars == <<monitors, deps, nvalues, enrichment>>
vars == <<conf, pc, index, sensorVars, refs, configAlive, taken>>

Init ==
  /\ conf \in Configs
  /\ pc = "attrs"
  /\ index = 1
  /\ monitors = <<>>
  /\ deps = NULL
  /\ nvalues = 0
  /\ enrichment = NULL
  /\ refs = [config |-> IF conf.enrichment THEN 1 ELSE 0, own |-> 0]
  /\ configAlive = TRUE
  /\ taken = <<>>

-----------------------------------------------------------------------------
(* parse_rb_sensor                                                         *)

\* sensor_common_attrs_parse_json up to the enrichment: the object of the
\* configuration is used as it is, or a new one is made.
Attrs ==
  /\ pc = "attrs"
  /\ conf.name /\ conf.monitors # NULL
  /\ enrichment' = IF conf.enrichment THEN "config" ELSE "own"
  /\ refs' = IF conf.enrichment THEN refs ELSE [refs EXCEPT !.own = 1]
  /\ pc' = "monitors"
  /\ UNCHANGED <<conf, index, monitors, deps, nvalues, configAlive, taken>>

\* "Sensor with no name", "Could not obtain JSON sensors monitors"
NoAttrs ==
  /\ pc = "attrs"
  /\ ~(conf.name /\ conf.monitors # NULL)
  /\ pc' = "failed"
  /\ UNCHANGED <<conf, index, sensorVars, refs, configAlive, taken>>

\* extract_monitor_cmd: the first command key in the order of MONITOR_CMDS_X.
Command(json) ==
  CASE "system" \in json.cmds -> "system"
    [] json.cmds \cap {"system", "oid"} = {"oid"} -> "oid"
    [] json.cmds = {"op"} -> "op"
    [] OTHER -> NULL

\* A monitor needs a name and a command.
IsValid(json) == json.name # NULL /\ Command(json) # NULL

\* parse_rb_monitor0: an unknown split operation is none, and an operation
\* has no timestamp; rb_monitor_get_op_variables: only an operation has
\* variables.
Parsed(json) ==
  LET kind == Command(json)
  IN  [name |-> json.name, group |-> json.group, kind |-> kind,
       vars |-> IF kind = "op" THEN json.vars ELSE <<>>,
       stamped |-> json.stamped /\ kind # "op",
       splitop |-> IF json.splitop \in {"sum", "mean"} THEN json.splitop
                   ELSE "none"]

MoreMonitors == pc = "monitors" /\ index <= Len(conf.monitors)

AddMonitor ==
  /\ MoreMonitors
  /\ IsValid(conf.monitors[index])
  /\ monitors' = Append(monitors, Parsed(conf.monitors[index]))
  /\ taken' = Append(taken, index)
  /\ index' = index + 1
  /\ UNCHANGED <<conf, pc, deps, nvalues, enrichment, refs, configAlive>>

\* Mutation: an invalid monitor ends the loop.
StopAtInvalid ==
  /\ MoreMonitors
  /\ ~IsValid(conf.monitors[index])
  /\ index' = Len(conf.monitors) + 1
  /\ UNCHANGED <<conf, pc, sensorVars, refs, configAlive, taken>>

\* parse_rb_monitor returned NULL: no name, or no command.
SkipMonitor ==
  /\ MoreMonitors
  /\ ~IsValid(conf.monitors[index])
  /\ index' = index + 1
  /\ UNCHANGED <<conf, pc, sensorVars, refs, configAlive, taken>>

\* Mutation: the positions are those of the JSON array.
DependenciesOfConfig ==
  /\ pc = "monitors" /\ ~MoreMonitors
  /\ deps' = [i \in DOMAIN monitors |->
                MonitorDependencies(conf.monitors, taken[i])]
  /\ nvalues' = Len(monitors)
  /\ pc' = "check"
  /\ UNCHANGED <<conf, index, monitors, enrichment, refs, configAlive, taken>>

\* Mutation: room for the values of the invalid monitors too.
DependenciesJsonCount ==
  /\ pc = "monitors" /\ ~MoreMonitors
  /\ deps' = MonitorsDependencies(monitors)
  /\ nvalues' = Len(conf.monitors)
  /\ pc' = "check"
  /\ UNCHANGED <<conf, index, monitors, enrichment, refs, configAlive, taken>>

\* get_monitors_dependencies, and the array of the last values.
Dependencies ==
  /\ pc = "monitors" /\ ~MoreMonitors
  /\ deps' = MonitorsDependencies(monitors)
  /\ nvalues' = Len(monitors)
  /\ pc' = "check"
  /\ UNCHANGED <<conf, index, monitors, enrichment, refs, configAlive, taken>>

\* sensor_common_attrs_check_sensor
Check ==
  /\ pc = "check"
  /\ pc' = IF conf.ip /\ conf.community THEN "ready" ELSE "failed"
  /\ UNCHANGED <<conf, index, sensorVars, refs, configAlive, taken>>

-----------------------------------------------------------------------------
(* The end of the sensor and of the configuration.                         *)

\* Mutation: the enrichment is never put.
KeepEnrichment ==
  /\ pc \in {"ready", "failed"}
  /\ enrichment' = NULL /\ refs' = refs
  /\ monitors' = <<>> /\ deps' = NULL /\ nvalues' = 0
  /\ pc' = "done"
  /\ UNCHANGED <<conf, index, configAlive, taken>>

\* sensor_done, by the last rb_sensor_put: of parse_rb_sensor when it fails,
\* of the sensor's last owner otherwise.
SensorDone ==
  /\ pc \in {"ready", "failed"}
  /\ enrichment' = NULL
  /\ refs' = IF enrichment = NULL THEN refs
             ELSE [refs EXCEPT ![enrichment] = @ - 1]
  /\ monitors' = <<>> /\ deps' = NULL /\ nvalues' = 0
  /\ pc' = "done"
  /\ UNCHANGED <<conf, index, configAlive, taken>>

\* json_object_put of the configuration, at any time after the parse.
ConfigDone ==
  /\ configAlive
  /\ pc \in {"ready", "done"}
  /\ configAlive' = FALSE
  /\ refs' = IF conf.enrichment THEN [refs EXCEPT !.config = @ - 1] ELSE refs
  /\ UNCHANGED <<conf, pc, index, sensorVars, taken>>

Next ==
  \/ Attrs \/ NoAttrs
  \/ AddMonitor \/ SkipMonitor
  \/ Dependencies \/ Check
  \/ SensorDone \/ ConfigDone

Spec == Init /\ [][Next]_vars

-----------------------------------------------------------------------------
(* Properties.                                                             *)

\* The arrays that process_monitors_array indexes with one i have one size.
TypeOK ==
  /\ pc \in {"attrs", "monitors", "check", "ready", "failed", "done"}
  /\ refs \in [{"config", "own"} -> Int]
  /\ enrichment \in {NULL, "config", "own"}
  /\ pc = "ready" => /\ DOMAIN deps = DOMAIN monitors
                     /\ nvalues = Len(monitors)

\* README.md:173 of the groups: operations "between them without mix
\* variables".  Every dependency is the variable's namesake in the
\* operation's own group, in the order of the variables.
DependenciesInGroup ==
  pc = "ready" =>
    \A i \in DOMAIN monitors : deps[i] # NoDependencies =>
      /\ Len(deps[i]) = Len(monitors[i].vars)
      /\ \A v \in DOMAIN deps[i] :
           /\ deps[i][v] \in DOMAIN monitors
           /\ monitors[deps[i][v]].name = monitors[i].vars[v]
           /\ monitors[deps[i][v]].group = monitors[i].group

\* An operation whose variables the configuration all defines, validly and in
\* its group, is evaluated whatever invalid monitors stand between them.
DefinedOperationsResolve ==
  pc = "ready" =>
    \A k \in DOMAIN conf.monitors :
      LET op == conf.monitors[k]
          Defines(m, name) ==
            IsValid(m) /\ m.name = name /\ m.group = op.group
      IN  (/\ IsValid(op) /\ Command(op) = "op" /\ op.vars # <<>>
           /\ \A v \in DOMAIN op.vars : \E j \in DOMAIN conf.monitors :
                Defines(conf.monitors[j], op.vars[v]))
          => \E i \in DOMAIN monitors :
               monitors[i] = Parsed(op) /\ deps[i] # NoDependencies

\* Once the sensor is gone, its own enrichment object is freed.
OwnEnrichmentFreed == pc = "done" => refs.own = 0

\* The parts of the inductive invariant.

\* The array has what parse_rb_monitor made of valid JSON monitors, and of every
\* one gone through.
ValidMonitorsTaken ==
  /\ pc = "attrs" => index = 1 /\ monitors = <<>>
  /\ pc \in {"monitors", "check", "ready"} =>
       /\ conf.monitors # NULL
       /\ index \in 1..(Len(conf.monitors) + 1)
       /\ monitors \in
            Seq({Parsed(conf.monitors[k]) : k \in DOMAIN conf.monitors})
       /\ \A k \in 1..(index - 1) : IsValid(conf.monitors[k]) =>
            \E i \in DOMAIN monitors : monitors[i] = Parsed(conf.monitors[k])

\* The dependencies and the last values are those of the final array.
DependenciesOfArray ==
  pc \in {"check", "ready"} =>
    /\ index = Len(conf.monitors) + 1
    /\ deps = MonitorsDependencies(monitors)
    /\ nvalues = Len(monitors)

\* The sensor's own object is held once, as long as the sensor points to it.
OwnEnrichmentHeld ==
  /\ refs.own = IF enrichment = "own" THEN 1 ELSE 0
  /\ pc \in {"attrs", "done"} => enrichment = NULL

\* What parse_rb_sensor keeps true on its way (rb_sensor.c:175-282).
SetupInv ==
  /\ conf \in Configs
  /\ TypeOK
  /\ ValidMonitorsTaken
  /\ DependenciesOfArray
  /\ OwnEnrichmentHeld

\* tests/sensor_test.c:36-38 and 41-47 put the JSON object as soon as the sensor
\* is parsed and go on to use and put the sensor.  So what the sensor holds is
\* alive, and nobody puts an object that is already freed.
SensorOutlivesConfig ==
  /\ \A o \in {"config", "own"} : refs[o] >= 0
  /\ enrichment # NULL => refs[enrichment] > 0

\* The extent of that disagreement: without an enrichment object in the
\* configuration, or as long as the configuration is there, all is well.
OutlivesUnlessEnriched ==
  (~conf.enrichment \/ configAlive) => SensorOutlivesConfig

\* The configuration's object has the configuration's one reference, which both
\* the configuration and the sensor put.
ConfigEnrichmentHeldOnce ==
  LET puts == IF configAlive THEN 0 ELSE 1
  IN  /\ ~conf.enrichment => refs.config = 0 /\ enrichment # "config"
      /\ (conf.enrichment /\ pc # "done") => refs.config = 1 - puts
      /\ (conf.enrichment /\ pc = "done") => refs.config \in {1 - puts, 0 - puts}

=============================================================================
