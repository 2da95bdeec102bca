---------------------------- MODULE MonitorValues ----------------------------
(***************************************************************************)
(* One sensor from iteration to iteration: process_monitors_array walks    *)
(* its monitors, reads or computes each, and replaces, merges or drops the *)
(* new value against the last known one, printing what a consumer must     *)
(* learn (rb_sensor_monitor_array.c, rb_sensor_monitor.c, rb_value.c).     *)
(* The sensor is locked meanwhile, so one worker at a time is here.        *)
(*                                                                         *)
(* Values live in a heap because last_known_monitor_values and the array   *)
(* of the current iteration alias each other.                              *)
(***************************************************************************)
EXTENDS VectorReading, MonitorDeps

CONSTANTS
  Monitors,        \* sensor->monitors: records with name, group, vars, kind
                   \*   ("scalar", "vector" or "op"), stamped, splitop, send
  Numbers,         \* what a scalar reading may be
  Texts(_),        \* what value_buf may be for vector monitor i
  Evaluate(_, _),  \* operation i of its arguments; NULL: not a number
  MaxChildren,     \* BOUND on the elements of a vector
  MaxClock         \* BOUND on time

N == Len(Monitors)
Ids == 1..N
Deps == MonitorsDependencies(Monitors)

\* At most one value more than the monitors is alive at a time.
Pointers == 1..(N + 1)

Arrays ==
  {a \in [type : {"array"}, children : Seq(Optional(Scalars)),
          split : Optional(Splits)] : Len(a.children) <= MaxChildren}
Values == Scalars \cup Arrays

ASSUME BoundsAssumption == MaxClock \in Nat \ {0} /\ MaxChildren \in Nat \ {0}
ASSUME NullAssumption == NULL \notin Pointers \cup Values

\* What parse_rb_monitor makes of the configuration (SensorSetup, Parsed).
ASSUME MonitorsAssumption ==
  /\ N \in Nat /\ DOMAIN Monitors = Ids
  /\ \A i \in Ids :
       LET m == Monitors[i] IN
       /\ m.kind \in {"scalar", "vector", "op"}
       /\ m.stamped \in BOOLEAN /\ m.send \in BOOLEAN
       /\ m.vars \in Seq({m.vars[v] : v \in DOMAIN m.vars})
       /\ m.kind # "op" => m.vars = <<>>
       /\ m.kind = "op" => ~m.stamped

ASSUME ReadingsAssumption ==
  /\ Numbers \subseteq Int
  /\ \A i \in Ids :
       Texts(i) \subseteq {t \in Seq(Elements(Nat, Int)) : Len(t) <= MaxChildren}

\* Instances count from 1 here; 0 is the message without instance.
NoInstance == 0
Instances == 0..MaxChildren

VARIABLES
  clock,     \* time(NULL)
  pos,       \* the monitor to be processed; 0 between two iterations
  last,      \* last_known_monitor_values->elms
  current,   \* current_iteration_values->elms
  heap,      \* the monitor values; NULL where nothing is allocated
  observed,  \* history: the last value read or computed for each monitor
  delivered, \* history: the last message of each monitor and instance
  sent       \* the messages of the last step: sets of <<instance, value>>

vars == <<clock, pos, last, current, heap, observed, delivered, sent>>

NoPointers == [i \in Ids |-> NULL]

Init ==
  /\ clock = 1
  /\ pos = 0
  /\ last = NoPointers
  /\ current = NoPointers
  /\ heap = [p \in Pointers |-> NULL]
  /\ observed = [i \in Ids |-> NULL]
  /\ delivered = [i \in Ids |-> [k \in Instances |-> NULL]]
  /\ sent = {}

-----------------------------------------------------------------------------
(* process_sensor_monitor: the values it may return for monitor i.         *)

Deref(p) == IF p = NULL THEN NULL ELSE heap[p]

\* rb_monitor_value_array_select on the current iteration.
Arguments(i) == [v \in DOMAIN Deps[i] |-> Deref(current[Deps[i][v]])]

IsValue(v) == v # NULL /\ v.type = "value"
IsArray(v) == v # NULL /\ v.type = "array"

\* op_libmatheval_vars: arrays as long as the first argument, if it is one.
SizesAgree(args) ==
  LET expected == IF IsArray(args[1]) THEN Len(args[1].children) ELSE 0
  IN  \A v \in DOMAIN args :
        IsArray(args[v]) => Len(args[v].children) = expected

\* rb_monitor_op_value0: isnormal refuses NaN, infinities and 0.
Computed(i, numbers) ==
  LET r == Evaluate(i, numbers)
  IN  IF r \in Int \ {0} THEN ValueAt(clock, r) ELSE NULL

\* rb_monitor_op_value, and the test rb_monitor_op_vector_i begins with.
ScalarOp(i, args) ==
  IF \E v \in DOMAIN args : ~IsValue(args[v])
  THEN NULL
  ELSE Computed(i, [v \in DOMAIN args |-> args[v].num])

\* rb_monitor_op_vector: every child goes through the test for a scalar.
VectorOp(i, args) ==
  LET children == [k \in DOMAIN args[1].children |-> ScalarOp(i, args)]
  IN  ArrayOf(children, SplitValue(Monitors[i].splitop, SumOf(children),
                                   Cardinality(Present(children)), clock))

\* rb_monitor_get_op_result
OpResult(i) ==
  LET args == Arguments(i)
  IN  IF Deps[i] = NoDependencies \/ args[1] = NULL \/ ~SizesAgree(args)
      THEN NULL
      ELSE IF IsArray(args[1]) THEN VectorOp(i, args) ELSE ScalarOp(i, args)

\* rb_monitor_get_external_value forces what it does not see to 0.
Results(i) ==
  LET m == Monitors[i]
  IN  CASE m.kind = "scalar" -> {ValueAt(clock, n) : n \in Numbers \cup {0}}
        [] m.kind = "vector" ->
             {VectorValue(t, m.stamped, m.splitop, clock)
                : t \in Texts(i) \cup {NoAnswer}}
        [] m.kind = "op" -> {OpResult(i)}

-----------------------------------------------------------------------------
(* print_monitor_value, whole or restricted to some children.              *)

Printed(v, ks) ==
  IF IsValue(v) THEN {<<NoInstance, v>>}
  ELSE {<<k, v.children[k]>> : k \in ks \cap Present(v.children)}
       \cup (IF v.split = NULL THEN {} ELSE {<<NoInstance, v.split>>})

AllOf(v) == IF IsValue(v) THEN {} ELSE DOMAIN v.children

Deliver(i, v, ks) ==
  LET msgs == IF Monitors[i].send THEN Printed(v, ks) ELSE {}
  IN  /\ sent' = msgs
      /\ delivered' = [delivered EXCEPT ![i] =
           [k \in Instances |->
              IF \E m \in msgs : m[1] = k
              THEN (CHOOSE m \in msgs : m[1] = k)[2]
              ELSE @[k]]]

-----------------------------------------------------------------------------
(* process_monitor_value                                                   *)

NewPointer == Min({p \in Pointers : heap[p] = NULL})

\* rb_monitor_value_cmp_timestamp, rd_dne
Newer(old, new) == old.ts < new.ts \/ old.num # new.num

\* Mutation: an equal number is never news.
UpdatesOnDifference(i, old, new) ==
  (old # NULL /\ Monitors[i].stamped) =>
    (IsValue(new) /\ old.num # new.num)

\* update_value
Updates(i, old, new) ==
  (old # NULL /\ Monitors[i].stamped) => (IsValue(new) /\ Newer(old, new))

\* Mutation: one turn too many.
AdvancePastEnd == pos' = pos + 1

Advance == pos' = IF pos = N THEN 0 ELSE pos + 1

\* Mutation: the operations of this iteration go on with the old value.
NoRefresh(i) == current' = IF pos = N THEN NoPointers ELSE current

\* current_iteration_values->elms[i] is refreshed; the array is freed at the
\* end of the iteration.
Refresh(i) ==
  current' = IF pos = N THEN NoPointers ELSE [current EXCEPT ![i] = last'[i]]

\* No value: the last one is kept.
NoResult(i) ==
  /\ NULL \in Results(i)
  /\ sent' = {}
  /\ Advance
  /\ UNCHANGED <<clock, last, heap, observed, delivered>>
  /\ Refresh(i)

\* Mutation: the old value is not freed.
ReplaceLeak(i, v) ==
  LET old == Deref(last[i]) IN
  /\ Updates(i, old, v)
  /\ heap' = [heap EXCEPT ![NewPointer] = v]
  /\ last' = [last EXCEPT ![i] = NewPointer]
  /\ observed' = [observed EXCEPT ![i] = v]
  /\ Deliver(i, v, AllOf(v))
  /\ Advance
  /\ Refresh(i)
  /\ UNCHANGED clock

\* print the new value, free the old one, keep the new one.
Replace(i, v) ==
  LET old == Deref(last[i]) IN
  /\ Updates(i, old, v)
  /\ heap' = [p \in Pointers |->
                IF p = NewPointer THEN v
                ELSE IF p = last[i] THEN NULL ELSE heap[p]]
  /\ last' = [last EXCEPT ![i] = NewPointer]
  /\ observed' = [observed EXCEPT ![i] = v]
  /\ Deliver(i, v, AllOf(v))
  /\ Advance
  /\ Refresh(i)
  /\ UNCHANGED clock

\* process_monitor_value_v_print: changed children, and those the old array
\* had not.
Changed(old, new) ==
  {k \in Present(new) : k \notin Present(old) \/ Newer(old[k], new[k])}

\* Mutation: the old children stay.
MergeNoSwap(i, v) ==
  LET old == Deref(last[i]) IN
  /\ ~Updates(i, old, v)
  /\ IsArray(v)
  /\ observed' = [observed EXCEPT ![i] = v]
  /\ Deliver(i, v, Changed(old.children, v.children))
  /\ Advance
  /\ UNCHANGED <<clock, heap, last>>
  /\ Refresh(i)

\* process_monitor_value_v: print the changes, swap the children, free the
\* new array with the old children.
Merge(i, v) ==
  LET old == Deref(last[i]) IN
  /\ ~Updates(i, old, v)
  /\ IsArray(v)
  /\ heap' = [heap EXCEPT ![last[i]] = ArrayOf(v.children, old.split)]
  /\ observed' = [observed EXCEPT ![i] = v]
  /\ Deliver(i, v, Changed(old.children, v.children))
  /\ Advance
  /\ UNCHANGED <<clock, last>>
  /\ Refresh(i)

\* "No use for the new monitor value"
Drop(i, v) ==
  /\ ~Updates(i, Deref(last[i]), v)
  /\ IsValue(v)
  /\ observed' = [observed EXCEPT ![i] = v]
  /\ sent' = {}
  /\ Advance
  /\ UNCHANGED <<clock, last, heap, delivered>>
  /\ Refresh(i)

-----------------------------------------------------------------------------
\* The copy of the last values at the start of process_monitors_array.
StartIteration ==
  /\ pos = 0
  /\ N > 0
  /\ pos' = 1
  /\ current' = last
  /\ sent' = {}
  /\ UNCHANGED <<clock, last, heap, observed, delivered>>

Tick ==
  /\ clock < MaxClock
  /\ clock' = clock + 1
  /\ sent' = {}
  /\ UNCHANGED <<pos, last, current, heap, observed, delivered>>

Process ==
  /\ pos \in Ids
  /\ \/ NoResult(pos)
     \/ \E v \in Results(pos) \ {NULL} :
          Replace(pos, v) \/ Merge(pos, v) \/ Drop(pos, v)

Next == StartIteration \/ Tick \/ Process

Spec == Init /\ [][Next]_vars

-----------------------------------------------------------------------------
(* Properties.                                                             *)

\* process_monitors_array never leaves the array of monitors, and both arrays
\* of values hold pointers to values or NULL.
TypeOK ==
  /\ clock \in 1..MaxClock
  /\ pos \in 0..N
  /\ last \in [Ids -> Optional(Pointers)]
  /\ current \in [Ids -> Optional(Pointers)]
  /\ heap \in [Pointers -> Optional(Values)]
  /\ observed \in [Ids -> Optional(Values)]
  /\ delivered \in [Ids -> [Instances -> Optional(Scalars \cup Splits)]]

\* Memory: the values alive are exactly those of last_known_monitor_values,
\* each held once, and the array of the current iteration, through which the
\* operations read, aliases them (no leak, no use after free).
HeapExact ==
  /\ \A p \in Pointers : heap[p] # NULL <=> \E i \in Ids : last[i] = p
  /\ \A i, j \in Ids : (i # j /\ last[i] # NULL) => last[i] # last[j]
  /\ pos # 0 => current = last

Knows(msg, v) == msg # NULL /\ msg.num = v.num /\ msg.ts >= v.ts

\* The last messages of monitor i tell every number of v, of no older a time.
Informed(i, v) ==
  IF IsValue(v)
  THEN Knows(delivered[i][NoInstance], v)
  ELSE \A k \in Present(v.children) : Knows(delivered[i][k], v.children[k])

\* Whatever is replaced, merged or dropped, and however timestamps go back, a
\* consumer that keeps the last message of each instance of a monitor knows
\* the last number read for each instance, with no older a timestamp.
ConsumersUpToDate ==
  \A i \in Ids :
    (Monitors[i].send /\ observed[i] # NULL) => Informed(i, observed[i])

\* Operations that only use monitors before them in the array.
InOrder(i) == \A v \in DOMAIN Deps[i] : Deps[i][v] < i

\* The value a monitor is left with from iteration to iteration.
LastKnown(i) == Deref(last[i])

\* An operation on scalars before it holds its result on what they hold.
OperationHolds(i) ==
  LET args == [v \in DOMAIN Deps[i] |-> LastKnown(Deps[i][v])]
  IN  (/\ Deps[i] # NoDependencies
       /\ InOrder(i)
       /\ \A v \in DOMAIN args : IsValue(args[v])) =>
        LET r == Evaluate(i, [v \in DOMAIN args |-> args[v].num])
        IN  r \in Int \ {0} => IsValue(LastKnown(i)) /\ LastKnown(i).num = r

\* When an iteration ends, an operation on scalars that stand before it holds
\* the result on the values they hold, unless that result is no normal number.
OperationsUpToDate == pos = 0 => \A i \in Ids : OperationHolds(i)

\* No message of this step repeats an element of the last vector read.
NothingRepeated ==
  \A m \in sent' :
    (/\ pos \in Ids /\ Monitors[pos].stamped /\ observed[pos] # NULL
     /\ m[1] # NoInstance /\ m[1] \in Present(observed[pos].children))
    => observed[pos].children[m[1]] # m[2]

\* What a monitor with timestamps reads twice in a row for an instance is sent
\* at most once.
UnchangedReadingSentOnce == [][NothingRepeated]_vars

\* The parts of the inductive invariant.

\* A reading keeps its kind from iteration to iteration.
KindKept ==
  \A i \in Ids : last[i] # NULL =>
    /\ Monitors[i].kind = "scalar" => IsValue(LastKnown(i))
    /\ Monitors[i].kind = "vector" => IsArray(LastKnown(i))

\* Consumers know the last value too, which the next one is compared with.
LastKnownDelivered ==
  \A i \in Ids : (Monitors[i].send /\ last[i] # NULL) => Informed(i, LastKnown(i))

\* Once something is read there is a last value, and the elements of a vector
\* with timestamps are the last ones read, merged or not.
LastRead ==
  \A i \in Ids :
    /\ observed[i] # NULL <=> last[i] # NULL
    /\ (Monitors[i].kind = "vector" /\ Monitors[i].stamped /\ last[i] # NULL) =>
         observed[i].children = LastKnown(i).children

\* The operations the current iteration has passed hold their results.
OperationsDone == \A i \in Ids : (pos = 0 \/ i < pos) => OperationHolds(i)

\* What an iteration keeps true from monitor to monitor
\* (rb_sensor_monitor_array.c:63-308).
ValuesInv ==
  /\ TypeOK
  /\ HeapExact
  /\ KindKept
  /\ LastKnownDelivered
  /\ LastRead
  /\ ConsumersUpToDate
  /\ OperationsDone

\* The extent of the disagreement below: whatever the vectors, an operation has
\* no element, so that none is ever sent for it.
OperationsHaveNoElements ==
  \A i \in Ids : Monitors[i].kind = "op" =>
    /\ IsArray(LastKnown(i)) => Present(LastKnown(i).children) = {}
    /\ \A k \in Instances \ {NoInstance} : delivered[i][k] = NULL

\* README.md:139: "If you have two vector monitors, you can operate on them as
\* same as you do with scalar monitors."
VectorOperationsComputed ==
  pos = 0 =>
    \A i \in Ids :
      LET args == [v \in DOMAIN Deps[i] |-> Deref(last[Deps[i][v]])]
      IN  (/\ Deps[i] # NoDependencies
           /\ InOrder(i)
           /\ \A v \in DOMAIN args : IsArray(args[v])
           /\ SizesAgree(args)) =>
            \A k \in DOMAIN args[1].children :
              (\A v \in DOMAIN args : args[v].children[k] # NULL) =>
                LET r == Evaluate(i, [v \in DOMAIN args |->
                                        args[v].children[k].num])
                IN  (r # NULL /\ r # 0) =>
                      /\ IsArray(Deref(last[i]))
                      /\ Deref(last[i]).children[k] # NULL
                      /\ Deref(last[i]).children[k].num = r

=============================================================================
