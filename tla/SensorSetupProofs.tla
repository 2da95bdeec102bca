-------------------------- MODULE SensorSetupProofs ---------------------------
(***************************************************************************)
(* Proofs about SensorSetup for any set of JSON sensors.                   *)
(***************************************************************************)
EXTENDS SensorSetup, MonitorLemmas, SequenceTheorems

-----------------------------------------------------------------------------
(* Sequences.                                                              *)

LEMMA ArrayIsSequence ==
  ASSUME NEW s, IsArrayOf(s)
  PROVE  Len(s) \in Nat /\ DOMAIN s = 1..Len(s)
BY LenProperties DEF IsArrayOf

\* A function on the positions of an array is as long as the array.
LEMMA SameLength ==
  ASSUME NEW s, IsArrayOf(s), NEW f, NEW T, f \in [DOMAIN s -> T]
  PROVE  Len(f) = Len(s)
<1>1. Len(s) \in Nat /\ DOMAIN s = 1..Len(s)
  BY ArrayIsSequence
<1>2. f \in Seq(T)
  BY <1>1, SeqDef
<1> QED
  BY <1>1, <1>2, LenProperties

\* The variables of a parsed monitor are a sequence.
LEMMA ParsedVars ==
  ASSUME NEW json, IsArrayOf(json.vars)
  PROVE  IsArrayOf(Parsed(json).vars)
<1>1. Parsed(json).vars = json.vars \/ Parsed(json).vars = <<>>
  BY DEF Parsed
<1>2. IsArrayOf(<<>>)
  BY EmptySeq DEF IsArrayOf
<1> QED
  BY <1>1, <1>2

-----------------------------------------------------------------------------
(* The inductive invariant.                                                *)

LEMMA SetupInit == Init => SetupInv
BY NullAssumption DEF Init, SetupInv, TypeOK, ValidMonitorsTaken, DependenciesOfArray,
   OwnEnrichmentHeld

\* The facts on the configuration's monitors that every step needs.
LEMMA JsonMonitors ==
  ASSUME conf \in Configs, conf.monitors # NULL
  PROVE  /\ IsArrayOf(conf.monitors)
         /\ Len(conf.monitors) \in Nat
         /\ DOMAIN conf.monitors = 1..Len(conf.monitors)
         /\ \A k \in DOMAIN conf.monitors : IsArrayOf(conf.monitors[k].vars)
BY ConfigsAssumption, ArrayIsSequence

LEMMA AttrsInv ==
  ASSUME SetupInv, Attrs
  PROVE  SetupInv'
<1> USE DEF Attrs, SetupInv
<1>1. TypeOK'
  BY DEF TypeOK
<1>2. ValidMonitorsTaken'
  <2>1. Len(conf.monitors) \in Nat
    BY JsonMonitors
  <2>2. index = 1 /\ monitors = <<>>
    BY DEF ValidMonitorsTaken
  <2> QED
    BY <2>1, <2>2, EmptySeq DEF ValidMonitorsTaken
<1>3. DependenciesOfArray'
  BY DEF DependenciesOfArray
<1>4. OwnEnrichmentHeld'
  BY NullAssumption DEF OwnEnrichmentHeld, TypeOK
<1> QED
  BY <1>1, <1>2, <1>3, <1>4

LEMMA AddMonitorInv ==
  ASSUME SetupInv, AddMonitor
  PROVE  SetupInv'
<1> USE DEF AddMonitor, MoreMonitors, SetupInv
<1> DEFINE S == {Parsed(conf.monitors[k]) : k \in DOMAIN conf.monitors}
           new == Parsed(conf.monitors[index])
<1>1. TypeOK'
  BY DEF TypeOK
<1>2. ValidMonitorsTaken'
  <2>1. /\ Len(conf.monitors) \in Nat
        /\ DOMAIN conf.monitors = 1..Len(conf.monitors)
    BY JsonMonitors DEF ValidMonitorsTaken
  <2>2. index \in 1..Len(conf.monitors)
    BY <2>1 DEF ValidMonitorsTaken
  <2>3. new \in S
    BY <2>1, <2>2
  <2>4. monitors \in Seq(S)
    BY DEF ValidMonitorsTaken
  <2>5. monitors' = Append(monitors, new)
    OBVIOUS
  <2> HIDE DEF S, new
  <2>6. /\ monitors' \in Seq(S)
        /\ DOMAIN monitors' = 1..(Len(monitors) + 1)
        /\ DOMAIN monitors = 1..Len(monitors)
        /\ Len(monitors) \in Nat
        /\ \A i \in DOMAIN monitors : monitors'[i] = monitors[i]
        /\ monitors'[Len(monitors) + 1] = new
    BY <2>3, <2>4, <2>5, AppendProperties, LenProperties
  <2>7. ASSUME NEW k \in 1..index, IsValid(conf.monitors[k])
        PROVE  \E i \in DOMAIN monitors' : monitors'[i] = Parsed(conf.monitors[k])
    <3>1. CASE k = index
      <4>1. Len(monitors) + 1 \in DOMAIN monitors'
        BY <2>6
      <4> QED
        BY <3>1, <4>1, <2>6 DEF new
    <3>2. CASE k # index
      <4>1. k \in 1..(index - 1)
        BY <2>2, <3>2
      <4>2. PICK i \in DOMAIN monitors : monitors[i] = Parsed(conf.monitors[k])
        BY <4>1, <2>7 DEF ValidMonitorsTaken
      <4>3. i \in DOMAIN monitors' /\ monitors'[i] = monitors[i]
        BY <4>2, <2>6
      <4> QED
        BY <4>2, <4>3
    <3> QED
      BY <3>1, <3>2
  <2>8. /\ index' = index + 1 /\ conf' = conf /\ pc' = "monitors"
        /\ conf.monitors # NULL
    BY DEF ValidMonitorsTaken
  <2>9. index' \in 1..(Len(conf.monitors) + 1)
    BY <2>1, <2>2, <2>8
  <2>10. index' - 1 = index
    BY <2>2, <2>8
  <2>11. monitors' \in
           Seq({Parsed(conf'.monitors[k]) : k \in DOMAIN conf'.monitors})
    BY <2>6, <2>8 DEF S
  <2>12. \A k \in 1..(index' - 1) : IsValid(conf'.monitors[k]) =>
           \E i \in DOMAIN monitors' : monitors'[i] = Parsed(conf'.monitors[k])
    BY <2>7, <2>8, <2>10
  <2> QED
    BY <2>8, <2>9, <2>11, <2>12 DEF ValidMonitorsTaken
<1>3. DependenciesOfArray'
  BY DEF DependenciesOfArray
<1>4. OwnEnrichmentHeld'
  BY DEF OwnEnrichmentHeld
<1> QED
  BY <1>1, <1>2, <1>3, <1>4

LEMMA SkipMonitorInv ==
  ASSUME SetupInv, SkipMonitor
  PROVE  SetupInv'
<1> USE DEF SkipMonitor, MoreMonitors, SetupInv
<1>1. TypeOK'
  BY DEF TypeOK, sensorVars
<1>2. ValidMonitorsTaken'
  <2>1. Len(conf.monitors) \in Nat
    BY JsonMonitors DEF ValidMonitorsTaken
  <2>2. index \in 1..Len(conf.monitors)
    BY <2>1 DEF ValidMonitorsTaken
  <2>3. ASSUME NEW k \in 1..index, IsValid(conf.monitors[k])
        PROVE  k \in 1..(index - 1)
    BY <2>2, <2>3
  <2>4. index' \in 1..(Len(conf.monitors) + 1) /\ index' - 1 = index
    BY <2>1, <2>2
  <2> QED
    BY <2>3, <2>4 DEF ValidMonitorsTaken, sensorVars
<1>3. DependenciesOfArray'
  BY DEF DependenciesOfArray
<1>4. OwnEnrichmentHeld'
  BY DEF OwnEnrichmentHeld, sensorVars
<1> QED
  BY <1>1, <1>2, <1>3, <1>4

LEMMA DependenciesInv ==
  ASSUME SetupInv, Dependencies
  PROVE  SetupInv'
<1> USE DEF Dependencies, MoreMonitors, SetupInv
<1>1. TypeOK'
  BY DEF TypeOK
<1>2. ValidMonitorsTaken'
  BY DEF ValidMonitorsTaken
<1>3. DependenciesOfArray'
  <2>1. Len(conf.monitors) \in Nat
    BY JsonMonitors DEF ValidMonitorsTaken
  <2>2. index = Len(conf.monitors) + 1
    BY <2>1 DEF ValidMonitorsTaken
  <2> QED
    BY <2>2 DEF DependenciesOfArray
<1>4. OwnEnrichmentHeld'
  BY DEF OwnEnrichmentHeld
<1> QED
  BY <1>1, <1>2, <1>3, <1>4

LEMMA CheckInv ==
  ASSUME SetupInv, Check
  PROVE  SetupInv'
<1> USE DEF Check, SetupInv, sensorVars
<1>1. TypeOK'
  <2>1. DOMAIN deps = DOMAIN monitors /\ nvalues = Len(monitors)
    BY DEF DependenciesOfArray, MonitorsDependencies
  <2> QED
    BY <2>1 DEF TypeOK
<1>2. ValidMonitorsTaken'
  BY DEF ValidMonitorsTaken
<1>3. DependenciesOfArray'
  BY DEF DependenciesOfArray
<1>4. OwnEnrichmentHeld'
  BY DEF OwnEnrichmentHeld
<1> QED
  BY <1>1, <1>2, <1>3, <1>4

LEMMA SensorDoneInv ==
  ASSUME SetupInv, SensorDone
  PROVE  SetupInv'
<1> USE DEF SensorDone, SetupInv
<1>1. TypeOK'
  BY NullAssumption DEF TypeOK
<1>2. ValidMonitorsTaken'
  BY DEF ValidMonitorsTaken
<1>3. DependenciesOfArray'
  BY DEF DependenciesOfArray
<1>4. OwnEnrichmentHeld'
  BY NullAssumption DEF OwnEnrichmentHeld, TypeOK
<1> QED
  BY <1>1, <1>2, <1>3, <1>4

LEMMA ConfigDoneInv ==
  ASSUME SetupInv, ConfigDone
  PROVE  SetupInv'
<1> USE DEF ConfigDone, SetupInv, sensorVars
<1>1. TypeOK'
  BY DEF TypeOK
<1>2. ValidMonitorsTaken'
  BY DEF ValidMonitorsTaken
<1>3. DependenciesOfArray'
  BY DEF DependenciesOfArray
<1>4. OwnEnrichmentHeld'
  BY DEF OwnEnrichmentHeld, TypeOK
<1> QED
  BY <1>1, <1>2, <1>3, <1>4

LEMMA SetupStep == SetupInv /\ [Next]_vars => SetupInv'
<1> SUFFICES ASSUME SetupInv, [Next]_vars PROVE SetupInv'
  OBVIOUS
<1>1. CASE NoAttrs
  BY <1>1 DEF NoAttrs, sensorVars, SetupInv, TypeOK, ValidMonitorsTaken,
     DependenciesOfArray, OwnEnrichmentHeld
<1>2. CASE UNCHANGED vars
  BY <1>2 DEF vars, sensorVars, SetupInv, TypeOK, ValidMonitorsTaken,
     DependenciesOfArray, OwnEnrichmentHeld
<1> QED
  BY <1>1, <1>2, AttrsInv, AddMonitorInv, SkipMonitorInv, DependenciesInv,
     CheckInv, SensorDoneInv, ConfigDoneInv DEF Next

\* What parse_rb_sensor keeps true from its attributes to the sensor's end
\* (rb_sensor.c:175-282, 340-372).
THEOREM SetupInvariant == Spec => []SetupInv
BY SetupInit, SetupStep, PTL DEF Spec

-----------------------------------------------------------------------------
(* What follows from it.                                                   *)

\* The arrays that process_monitors_array indexes with one i have one size when
\* the sensor is handed to the workers (rb_sensor.c:230-244).
THEOREM TypeCorrect == Spec => []TypeOK
<1>1. SetupInv => TypeOK
  BY DEF SetupInv
<1> QED
  BY <1>1, SetupInvariant, PTL

\* The array of monitors has the variables of each as a sequence.
LEMMA MonitorsArray ==
  ASSUME SetupInv, pc = "ready"
  PROVE  /\ Len(monitors) \in Nat
         /\ DOMAIN monitors = 1..Len(monitors)
         /\ \A i \in DOMAIN monitors : IsArrayOf(monitors[i].vars)
<1> DEFINE S == {Parsed(conf.monitors[k]) : k \in DOMAIN conf.monitors}
<1>1. monitors \in Seq(S)
  BY DEF SetupInv, ValidMonitorsTaken
<1>2. \A m \in S : IsArrayOf(m.vars)
  <2>1. \A k \in DOMAIN conf.monitors : IsArrayOf(conf.monitors[k].vars)
    BY JsonMonitors DEF SetupInv, ValidMonitorsTaken
  <2> QED
    BY <2>1, ParsedVars
<1> HIDE DEF S
<1>3. Len(monitors) \in Nat /\ DOMAIN monitors = 1..Len(monitors)
  BY <1>1, LenProperties
<1>4. \A i \in DOMAIN monitors : monitors[i] \in S
  BY <1>1, <1>3, ElementOfSeq
<1> QED
  BY <1>2, <1>3, <1>4

LEMMA InvDependenciesInGroup == SetupInv => DependenciesInGroup
<1> SUFFICES ASSUME SetupInv, pc = "ready",
                    NEW i \in DOMAIN monitors, deps[i] # NoDependencies
             PROVE  /\ Len(deps[i]) = Len(monitors[i].vars)
                    /\ \A v \in DOMAIN deps[i] :
                         /\ deps[i][v] \in DOMAIN monitors
                         /\ monitors[deps[i][v]].name = monitors[i].vars[v]
                         /\ monitors[deps[i][v]].group = monitors[i].group
  BY DEF DependenciesInGroup
<1>1. deps[i] = MonitorDependencies(monitors, i)
  BY DEF SetupInv, DependenciesOfArray, MonitorsDependencies
<1>2. /\ DOMAIN monitors \subseteq Nat \ {0}
      /\ IsArrayOf(monitors[i].vars)
  BY MonitorsArray
<1>3. /\ DOMAIN deps[i] = DOMAIN monitors[i].vars
      /\ \A v \in DOMAIN deps[i] :
           /\ deps[i][v] \in DOMAIN monitors
           /\ monitors[deps[i][v]].name = monitors[i].vars[v]
           /\ monitors[deps[i][v]].group = monitors[i].group
  BY <1>1, <1>2, DependenciesFound
<1>4. deps[i] \in [DOMAIN monitors[i].vars -> DOMAIN monitors]
  <2>1. deps[i] = [v \in DOMAIN deps[i] |-> deps[i][v]]
    BY <1>1 DEF MonitorDependencies, NoDependencies
  <2> QED
    BY <1>3, <2>1
<1>5. Len(deps[i]) = Len(monitors[i].vars)
  BY <1>2, <1>4, SameLength
<1> QED
  BY <1>3, <1>5

\* README.md:173: operations do not mix the variables of different groups
\* (get_monitor_dependencies, rb_sensor_monitor_array.c:329-410).
THEOREM GroupsNotMixed == Spec => []DependenciesInGroup
BY SetupInvariant, InvDependenciesInGroup, PTL

LEMMA InvDefinedOperationsResolve == SetupInv => DefinedOperationsResolve
<1> SUFFICES ASSUME SetupInv, pc = "ready", NEW k \in DOMAIN conf.monitors,
                    IsValid(conf.monitors[k]), Command(conf.monitors[k]) = "op",
                    conf.monitors[k].vars # <<>>,
                    \A v \in DOMAIN conf.monitors[k].vars :
                      \E j \in DOMAIN conf.monitors :
                        /\ IsValid(conf.monitors[j])
                        /\ conf.monitors[j].name = conf.monitors[k].vars[v]
                        /\ conf.monitors[j].group = conf.monitors[k].group
             PROVE  \E i \in DOMAIN monitors :
                      /\ monitors[i] = Parsed(conf.monitors[k])
                      /\ deps[i] # NoDependencies
  BY DEF DefinedOperationsResolve
<1> DEFINE op == conf.monitors[k]
<1>1. /\ DOMAIN conf.monitors = 1..(index - 1)
      /\ IsArrayOf(op.vars)
  <2>1. /\ DOMAIN conf.monitors = 1..Len(conf.monitors)
        /\ Len(conf.monitors) \in Nat
        /\ IsArrayOf(op.vars)
    BY JsonMonitors DEF SetupInv, ValidMonitorsTaken
  <2>2. index = Len(conf.monitors) + 1
    BY DEF SetupInv, DependenciesOfArray
  <2> QED
    BY <2>1, <2>2
<1>2. \A j \in DOMAIN conf.monitors : IsValid(conf.monitors[j]) =>
        \E i \in DOMAIN monitors : monitors[i] = Parsed(conf.monitors[j])
  BY <1>1 DEF SetupInv, ValidMonitorsTaken
<1>3. PICK i \in DOMAIN monitors : monitors[i] = Parsed(op)
  BY <1>2
<1>4. /\ monitors[i].vars = op.vars
      /\ monitors[i].group = op.group
  BY <1>3 DEF Parsed
<1>5. DOMAIN op.vars # {}
  <2>1. op.vars \in Seq({op.vars[v] : v \in DOMAIN op.vars})
    BY <1>1 DEF IsArrayOf
  <2>2. Len(op.vars) \in Nat \ {0} /\ DOMAIN op.vars = 1..Len(op.vars)
    <3> DEFINE s == op.vars
               T == {s[v] : v \in DOMAIN s}
    <3>1. s \in Seq(T) /\ s # <<>>
      BY <2>1
    <3> HIDE DEF s, T
    <3>2. Len(s) \in Nat \ {0} /\ DOMAIN s = 1..Len(s)
      BY <3>1, EmptySeq, LenProperties
    <3> QED
      BY <3>2 DEF s
  <2> QED
    BY <2>2
<1>6. \A v \in DOMAIN op.vars : \E j \in DOMAIN monitors :
        monitors[j].name = op.vars[v] /\ monitors[j].group = op.group
  <2> SUFFICES ASSUME NEW v \in DOMAIN op.vars
               PROVE  \E j \in DOMAIN monitors :
                        monitors[j].name = op.vars[v] /\ monitors[j].group = op.group
    OBVIOUS
  <2>1. PICK j \in DOMAIN conf.monitors :
               /\ IsValid(conf.monitors[j])
               /\ conf.monitors[j].name = op.vars[v]
               /\ conf.monitors[j].group = op.group
    OBVIOUS
  <2>2. PICK l \in DOMAIN monitors : monitors[l] = Parsed(conf.monitors[j])
    BY <1>2, <2>1
  <2>3. /\ monitors[l].name = conf.monitors[j].name
        /\ monitors[l].group = conf.monitors[j].group
    BY <2>2 DEF Parsed
  <2> QED
    BY <2>1, <2>3
<1>7. deps[i] = MonitorDependencies(monitors, i)
  BY DEF SetupInv, DependenciesOfArray, MonitorsDependencies
<1>8. DOMAIN monitors \subseteq Nat \ {0}
  BY MonitorsArray
<1>9. MonitorDependencies(monitors, i) # NoDependencies
  <2> HIDE DEF op
  <2> QED
    BY <1>4, <1>5, <1>6, <1>8, DependenciesFound
<1> QED
  BY <1>3, <1>7, <1>9

\* An operation whose variables are all defined, validly and in its group, is
\* evaluated whatever invalid monitors stand between them
\* (parse_rb_monitors and get_monitor_dependencies).
THEOREM OperationsResolve == Spec => []DefinedOperationsResolve
BY SetupInvariant, InvDefinedOperationsResolve, PTL

\* The enrichment object a sensor made itself is freed with it (sensor_done,
\* rb_sensor.c:340-360).
THEOREM OwnEnrichmentPut == Spec => []OwnEnrichmentFreed
<1>1. SetupInv => OwnEnrichmentFreed
  BY NullAssumption DEF SetupInv, OwnEnrichmentHeld, OwnEnrichmentFreed
<1> QED
  BY <1>1, SetupInvariant, PTL

-----------------------------------------------------------------------------
(* The enrichment object of the configuration.                             *)

LEMMA EnrichmentStep ==
  ASSUME SetupInv, ConfigEnrichmentHeldOnce, [Next]_vars
  PROVE  ConfigEnrichmentHeldOnce'
<1> USE DEF SetupInv, TypeOK, ConfigEnrichmentHeldOnce
<1>1. CASE Attrs
  BY <1>1, NullAssumption DEF Attrs
<1>2. CASE NoAttrs \/ AddMonitor \/ SkipMonitor \/ Dependencies \/ Check \/ UNCHANGED vars
  BY <1>2 DEF NoAttrs, AddMonitor, MoreMonitors, SkipMonitor, Dependencies, Check, vars,
     sensorVars
<1>3. CASE SensorDone
  <2>1. /\ pc # "done" /\ pc' = "done" /\ conf' = conf /\ configAlive' = configAlive
        /\ enrichment' = NULL
    BY <1>3 DEF SensorDone
  <2>2. refs'.config = IF enrichment = "config" THEN refs.config - 1 ELSE refs.config
    BY <1>3, NullAssumption DEF SensorDone
  <2> QED
    BY <2>1, <2>2, NullAssumption
<1>4. CASE ConfigDone
  <2>1. /\ configAlive /\ ~configAlive' /\ conf' = conf /\ pc' = pc
        /\ enrichment' = enrichment
    BY <1>4 DEF ConfigDone, sensorVars
  <2>2. refs'.config = IF conf.enrichment THEN refs.config - 1 ELSE refs.config
    BY <1>4 DEF ConfigDone
  <2> QED
    BY <2>1, <2>2
<1> QED
  BY <1>1, <1>2, <1>3, <1>4 DEF Next

\* tests/sensor_test.c puts the configuration before the sensor.  That is safe
\* for every configuration without an enrichment object, and so is every use
\* of the sensor before (sensor_common_attrs_parse_json, sensor_done).
THEOREM OnlyEnrichmentOutlived == Spec => []OutlivesUnlessEnriched
<1>1. Init => ConfigEnrichmentHeldOnce
  BY NullAssumption DEF Init, ConfigEnrichmentHeldOnce
<1>2. SetupInv /\ ConfigEnrichmentHeldOnce => OutlivesUnlessEnriched
  <2> SUFFICES ASSUME SetupInv, ConfigEnrichmentHeldOnce, ~conf.enrichment \/ configAlive
               PROVE  SensorOutlivesConfig
    BY DEF OutlivesUnlessEnriched
  <2>1. /\ refs.own = (IF enrichment = "own" THEN 1 ELSE 0)
        /\ pc = "done" => enrichment = NULL
        /\ enrichment \in {NULL, "config", "own"}
    BY DEF SetupInv, TypeOK, OwnEnrichmentHeld
  <2>2. /\ refs.config >= 0
        /\ enrichment = "config" => refs.config > 0
    BY <2>1, NullAssumption DEF ConfigEnrichmentHeldOnce
  <2> QED
    BY <2>1, <2>2 DEF SensorOutlivesConfig
<1> QED
  BY <1>1, <1>2, EnrichmentStep, SetupInvariant, PTL DEF Spec

=============================================================================
