----------------------------- MODULE MonitorDeps -----------------------------
(***************************************************************************)
(* Where the variables of an operation are found in the array of monitors  *)
(* (rb_sensor_monitor_array.c).  A monitor is a record with at least its   *)
(* name, its group (a value of its own stands for none) and vars, the      *)
(* variables of its operation in the order libmatheval lists them, <<>>    *)
(* when it is no operation.                                                *)
(***************************************************************************)
EXTENDS Integers, Sequences, FiniteSets, FiniteSetsExt

\* The NULL that stands for the dependencies of a monitor that has none, and
\* of an operation that cannot be evaluated.
NoDependencies == <<>>

\* Equal names, and both without group or both in the same one.
Matching(monitors, name, group) ==
  {i \in DOMAIN monitors : monitors[i].name = name /\ monitors[i].group = group}

\* Positions count from 1 here; 0 stands for the -1 of the code.
NotFound == 0

\* find_monitor_pos: the first match.
FindMonitorPos(monitors, name, group) ==
  LET found == Matching(monitors, name, group)
  IN  IF found = {} THEN NotFound ELSE Min(found)

\* get_monitor_dependencies: every variable must be found.
MonitorDependencies(monitors, i) ==
  LET vars == monitors[i].vars
      pos == [v \in DOMAIN vars |->
                FindMonitorPos(monitors, vars[v], monitors[i].group)]
  IN  IF \E v \in DOMAIN vars : pos[v] = NotFound
      THEN NoDependencies
      ELSE pos

\* get_monitors_dependencies
MonitorsDependencies(monitors) ==
  [i \in DOMAIN monitors |-> MonitorDependencies(monitors, i)]

=============================================================================
