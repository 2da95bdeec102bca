------------------------- MODULE MonitorValuesProofs --------------------------
(***************************************************************************)
(* What MonitorValues keeps true for every array of monitors, every answer *)
(* to every reading and every evaluator of operations: the memory of the   *)
(* values, what consumers know, what operations hold.  The argument goes   *)
(* by cases on what process_monitor_value does with the new value.         *)
(***************************************************************************)
EXTENDS MonitorValues, MonitorLemmas, SequenceTheorems

-----------------------------------------------------------------------------
(* The types of what is read or computed.                                  *)

LEMMA Positions ==
  /\ N \in Nat
  /\ Ids \subseteq Nat \ {0}
  /\ DOMAIN Monitors = Ids
  /\ DOMAIN Deps = Ids
BY MonitorsAssumption DEF Ids, Deps, MonitorsDependencies

\* What the code's tests on the type of a value tell.
LEMMA Typed ==
  /\ NULL \notin Values
  /\ NULL \notin Pointers
  /\ \A v \in Values : IsValue(v) <=> v \in Scalars
  /\ \A v \in Values : IsArray(v) <=> v \in Arrays
  /\ \A v \in Values : IsArray(v) <=> ~IsValue(v)
<1>1. NULL \notin Values /\ NULL \notin Pointers
  BY NullAssumption
<1>2. \A v \in Scalars : v.type = "value"
  BY DEF Scalars
<1>3. \A v \in Arrays : v.type = "array"
  BY DEF Arrays
<1> QED
  BY <1>1, <1>2, <1>3 DEF Values, IsValue, IsArray

LEMMA ScalarTyped ==
  ASSUME NEW t \in Nat, NEW n \in Int
  PROVE  ValueAt(t, n) \in Scalars
BY DEF ValueAt, Scalars

\* The array the code allocates for the children, with its split value.
LEMMA ArrayTyped ==
  ASSUME NEW n \in Nat, n <= MaxChildren, NEW c,
         c = [k \in 1..n |-> c[k]], \A k \in 1..n : c[k] \in Optional(Scalars),
         NEW op, NEW t \in Nat
  PROVE  LET split == SplitValue(op, SumOf(c), Cardinality(Present(c)), t)
         IN  /\ split \in Optional(Splits)
             /\ ArrayOf(c, split) \in Arrays
             /\ Len(c) = n
<1> DEFINE split == SplitValue(op, SumOf(c), Cardinality(Present(c)), t)
<1>1. DOMAIN c = 1..n
  OBVIOUS
<1>2. \A k \in 1..n : c[k] # NULL => c[k].num \in Int
  BY DEF Optional, Scalars
<1>3. /\ Cardinality(Present(c)) \in Nat
      /\ SumOver(c, Present(c)) \in Int
  <2>1. /\ Present(c) \in SUBSET (1..n)
        /\ \A k \in Present(c) : c[k].num \in Int
    BY <1>1, <1>2 DEF Present
  <2> QED
    BY ONLY <2>1, n \in Nat, PositionsSum
<1>4. SumOf(c) \in Int
  BY <1>3 DEF SumOf, SumOver
<1>5. split \in Optional(Splits)
  BY <1>3, <1>4 DEF SplitValue, Optional, Splits
<1>6. c \in Seq(Optional(Scalars)) /\ Len(c) = n
  <2>1. c \in [1..n -> Optional(Scalars)]
    OBVIOUS
  <2> QED
    BY <2>1, SeqDef, LenProperties
<1> HIDE DEF split
<1>7. ArrayOf(c, split) \in Arrays
  BY <1>5, <1>6 DEF ArrayOf, Arrays
<1> QED
  BY <1>5, <1>6, <1>7 DEF split

\* Every element of a vector becomes a child or none.
LEMMA ChildTyped ==
  ASSUME NEW text \in Seq(Elements(Nat, Int)), NEW k \in 1..Len(text),
         NEW stamped \in BOOLEAN, NEW now \in Nat
  PROVE  ChildOf(text, k, stamped, now) \in Optional(Scalars)
<1>1. text[k] \in Elements(Nat, Int)
  BY ElementOfSeq
<1>2. text[k].ts \in Nat /\ text[k].num \in Int
  BY <1>1 DEF Elements
<1> DEFINE t == ExtractedTime(text[k], stamped)
           n == ExtractedNumber(text[k], stamped)
<1>3. t \in Nat /\ n \in Int
  BY <1>2 DEF ExtractedTime, ExtractedNumber
<1> HIDE DEF t, n
<1>4. ValueAt(IF t = 0 THEN now ELSE t, n) \in Scalars
  BY <1>3, ScalarTyped
<1> QED
  BY <1>4 DEF ChildOf, t, n, Optional

LEMMA VectorTyped ==
  ASSUME NEW text \in Seq(Elements(Nat, Int)), Len(text) <= MaxChildren,
         NEW stamped \in BOOLEAN, NEW op, NEW now \in Nat
  PROVE  VectorValue(text, stamped, op, now) \in Arrays
<1> DEFINE c == [k \in DOMAIN text |-> ChildOf(text, k, stamped, now)]
           n == Len(text)
<1>1. n \in Nat /\ DOMAIN text = 1..n
  BY LenProperties
<1>2. c = [k \in 1..n |-> c[k]]
  BY <1>1
<1>3. \A k \in 1..n : c[k] \in Optional(Scalars)
  BY <1>1, ChildTyped
<1>4. VectorValue(text, stamped, op, now)
        = ArrayOf(c, SplitValue(op, SumOf(c), Cardinality(Present(c)), now))
  BY DEF VectorValue
<1>5. n <= MaxChildren
  OBVIOUS
<1> HIDE DEF c, n
<1> QED
  BY <1>1, <1>2, <1>3, <1>4, <1>5, ArrayTyped

LEMMA NoAnswerTyped ==
  NoAnswer \in {t \in Seq(Elements(Nat, Int)) : Len(t) <= MaxChildren}
<1>1. Plain(0) \in Elements(Nat, Int)
  BY DEF Plain, Elements, Forms
<1>2. NoAnswer \in Seq(Elements(Nat, Int)) /\ Len(NoAnswer) = 1
  <2> HIDE DEF Plain
  <2> QED
    BY <1>1 DEF NoAnswer
<1> QED
  BY <1>2, BoundsAssumption

-----------------------------------------------------------------------------
(* The dependencies of operations.                                         *)

LEMMA EmptyFunction ==
  ASSUME NEW d, d = [v \in DOMAIN d |-> d[v]], DOMAIN d = {}
  PROVE  d = <<>>
<1>1. d \in [1..0 -> {}]
  OBVIOUS
<1>2. d \in Seq({}) /\ Len(d) = 0
  BY <1>1, SeqDef, LenProperties
<1> QED
  BY <1>2, EmptySeq

\* Only operations have dependencies: a first one, and all of them monitors.
LEMMA DependencyShape ==
  ASSUME NEW i \in Ids, Deps[i] # NoDependencies
  PROVE  /\ Monitors[i].kind = "op"
         /\ 1 \in DOMAIN Deps[i]
         /\ \A v \in DOMAIN Deps[i] : Deps[i][v] \in Ids
<1> DEFINE names == Monitors[i].vars
           d == MonitorDependencies(Monitors, i)
<1>1. Deps[i] = d
  BY Positions DEF Deps, MonitorsDependencies
<1>2. /\ DOMAIN d = DOMAIN names
      /\ \A v \in DOMAIN names : d[v] \in Ids
  BY <1>1, Positions, DependenciesFound
<1>3. d = [v \in DOMAIN d |-> d[v]]
  BY <1>1 DEF MonitorDependencies
<1>4. \E n \in Nat : DOMAIN names = 1..n
  BY MonitorsAssumption, LenProperties
<1>5. DOMAIN d # {}
  BY <1>1, <1>3, EmptyFunction DEF NoDependencies
<1>6. 1 \in DOMAIN d
  BY <1>2, <1>4, <1>5
<1>7. Monitors[i].kind = "op"
  <2>1. Monitors[i].kind # "op" => names = <<>>
    BY MonitorsAssumption
  <2>2. names = <<>> => DOMAIN names = {}
    OBVIOUS
  <2> QED
    BY <2>1, <2>2, <1>2, <1>5
<1> QED
  BY <1>1, <1>2, <1>6, <1>7

-----------------------------------------------------------------------------
(* The result of reading or computing monitor i.                           *)

LEMMA ScalarOpTyped ==
  ASSUME clock \in Nat, NEW i, NEW args
  PROVE  ScalarOp(i, args) \in Optional(Scalars)
<1> DEFINE r == Evaluate(i, [v \in DOMAIN args |-> args[v].num])
<1>1. r \in Int \ {0} => ValueAt(clock, r) \in Scalars
  BY ScalarTyped
<1> HIDE DEF r
<1> QED
  BY <1>1 DEF ScalarOp, Computed, Optional, r

LEMMA OperationTyped ==
  ASSUME TypeOK, NEW i \in Ids
  PROVE  OpResult(i) \in Optional(Values)
<1> DEFINE args == Arguments(i)
<1>1. clock \in Nat
  BY BoundsAssumption DEF TypeOK
<1>2. CASE Deps[i] = NoDependencies \/ args[1] = NULL \/ ~SizesAgree(args)
  BY <1>2 DEF OpResult, Optional
<1>3. CASE /\ Deps[i] # NoDependencies /\ args[1] # NULL /\ SizesAgree(args)
           /\ ~IsArray(args[1])
  <2>1. OpResult(i) = ScalarOp(i, args)
    BY <1>3 DEF OpResult
  <2> QED
    BY <2>1, <1>1, ScalarOpTyped DEF Optional, Values
<1>4. CASE /\ Deps[i] # NoDependencies /\ args[1] # NULL /\ SizesAgree(args)
           /\ IsArray(args[1])
  <2>1. args[1] \in Arrays
    <3>1. args[1] = Deref(current[Deps[i][1]]) /\ Deps[i][1] \in Ids
      BY <1>4, DependencyShape DEF Arguments
    <3>2. args[1] \in Values
      BY <3>1, <1>4 DEF Deref, TypeOK, Optional
    <3> HIDE DEF args
    <3> QED
      BY <3>2, <1>4, Typed
  <2>2. /\ args[1].children \in Seq(Optional(Scalars))
        /\ Len(args[1].children) <= MaxChildren
    <3> HIDE DEF args
    <3> QED
      BY <2>1 DEF Arrays
  <2> DEFINE n == Len(args[1].children)
             c == [k \in DOMAIN args[1].children |-> ScalarOp(i, args)]
  <2>3. n \in Nat /\ n <= MaxChildren /\ DOMAIN args[1].children = 1..n
    BY <2>2, LenProperties
  <2>4. c = [k \in 1..n |-> c[k]]
    BY <2>3
  <2>5. \A k \in 1..n : c[k] \in Optional(Scalars)
    BY <2>3, <1>1, ScalarOpTyped
  <2>6. OpResult(i) = ArrayOf(c, SplitValue(Monitors[i].splitop, SumOf(c),
                                   Cardinality(Present(c)), clock))
    BY <1>4 DEF OpResult, VectorOp
  <2>7. OpResult(i) \in Arrays
    <3> HIDE DEF c, n
    <3> QED
      BY <2>3, <2>4, <2>5, <2>6, <1>1, ArrayTyped
  <2> QED
    BY <2>7 DEF Optional, Values
<1> QED
  BY <1>2, <1>3, <1>4

LEMMA ResultTyped ==
  ASSUME TypeOK, NEW i \in Ids, NEW v \in Results(i), v # NULL
  PROVE  /\ v \in Values
         /\ Monitors[i].kind = "scalar" => v \in Scalars
         /\ Monitors[i].kind = "vector" => v \in Arrays
         /\ Monitors[i].kind = "op" => v = OpResult(i)
<1>1. clock \in Nat
  BY BoundsAssumption DEF TypeOK
<1>2. Monitors[i].kind \in {"scalar", "vector", "op"} /\ Monitors[i].stamped \in BOOLEAN
  BY MonitorsAssumption
<1>3. CASE Monitors[i].kind = "scalar"
  <2>1. PICK n \in Numbers \cup {0} : v = ValueAt(clock, n)
    BY <1>3 DEF Results
  <2>2. n \in Int
    BY ReadingsAssumption
  <2>3. v \in Scalars
    BY <2>1, <2>2, <1>1, ScalarTyped
  <2> QED
    BY <2>3, <1>3 DEF Values
<1>4. CASE Monitors[i].kind = "vector"
  <2>1. PICK t \in Texts(i) \cup {NoAnswer} :
          v = VectorValue(t, Monitors[i].stamped, Monitors[i].splitop, clock)
    BY <1>4 DEF Results
  <2>2. t \in Seq(Elements(Nat, Int)) /\ Len(t) <= MaxChildren
    BY ReadingsAssumption, NoAnswerTyped
  <2>3. v \in Arrays
    BY <2>1, <2>2, <1>1, <1>2, VectorTyped
  <2> QED
    BY <2>3, <1>4 DEF Values
<1>5. CASE Monitors[i].kind = "op"
  <2>1. v = OpResult(i)
    BY <1>5 DEF Results
  <2> QED
    BY <2>1, <1>5, OperationTyped DEF Optional
<1> QED
  BY <1>2, <1>3, <1>4, <1>5

-----------------------------------------------------------------------------
(* The memory of the values.                                               *)

\* Every value is held by one monitor.
OwnedOnce ==
  /\ \A p \in Pointers : heap[p] # NULL <=> \E i \in Ids : last[i] = p
  /\ \A i, j \in Ids : (i # j /\ last[i] # NULL) => last[i] # last[j]

MemoryOK ==
  /\ last \in [Ids -> Optional(Pointers)]
  /\ heap \in [Pointers -> Optional(Values)]
  /\ OwnedOnce

\* A step on monitor i leaves the last values of the others alone.
OthersKept(i) ==
  \A j \in Ids : j # i => last'[j] = last[j] /\ LastKnown(j)' = LastKnown(j)

LEMMA HeldValue ==
  ASSUME MemoryOK, NEW j \in Ids
  PROVE  /\ last[j] = NULL => LastKnown(j) = NULL
         /\ last[j] # NULL => /\ last[j] \in Pointers
                              /\ LastKnown(j) = heap[last[j]]
                              /\ LastKnown(j) \in Values
BY Typed DEF MemoryOK, OwnedOnce, LastKnown, Deref, Optional

\* One value more than the monitors fits: there is always room for a new one.
LEMMA NewPointerFree ==
  ASSUME MemoryOK
  PROVE  NewPointer \in Pointers /\ heap[NewPointer] = NULL
<1> DEFINE free == {p \in Pointers : heap[p] = NULL}
<1>1. free # {}
  <2> SUFFICES ASSUME free = {} PROVE FALSE
    OBVIOUS
  <2> DEFINE owner == [p \in Pointers |-> CHOOSE i \in Ids : last[i] = p]
  <2>1. \A p \in Pointers : owner[p] \in Ids /\ last[owner[p]] = p
    BY DEF MemoryOK, OwnedOnce
  <2>2. owner \in [Pointers -> Ids]
    BY <2>1
  <2>3. /\ IsFiniteSet(Pointers) /\ Cardinality(Pointers) = N + 1
        /\ IsFiniteSet(Ids) /\ Cardinality(Ids) = N
    <3>1. 1 \in Int /\ N \in Int /\ N + 1 \in Int
      BY Positions
    <3>2. /\ IsFiniteSet(1..(N + 1))
          /\ Cardinality(1..(N + 1)) = IF 1 > N + 1 THEN 0 ELSE (N + 1) - 1 + 1
      BY ONLY <3>1, FS_Interval
    <3>3. /\ IsFiniteSet(1..N)
          /\ Cardinality(1..N) = IF 1 > N THEN 0 ELSE N - 1 + 1
      BY ONLY <3>1, FS_Interval
    <3> QED
      BY <3>2, <3>3, Positions DEF Pointers, Ids
  <2>4. Cardinality(Ids) < Cardinality(Pointers)
    BY <2>3, Positions
  <2> HIDE DEF owner
  <2>5. \E p, q \in Pointers : p # q /\ owner[p] = owner[q]
    BY <2>2, <2>3, <2>4, FS_PigeonHole
  <2> QED
    BY <2>1, <2>5
<1>2. free \in SUBSET Nat
  BY Positions DEF Pointers
<1>3. NewPointer = Min(free)
  BY DEF NewPointer
<1>4. Min(free) \in free
  <2> HIDE DEF free
  <2> QED
    BY <1>1, <1>2, FirstPosition
<1> QED
  BY <1>3, <1>4

\* The new value takes the place of the old one, which is freed.
LEMMA ReplaceMemory ==
  ASSUME MemoryOK, NEW i \in Ids, NEW v \in Values, Replace(i, v)
  PROVE  /\ MemoryOK'
         /\ OthersKept(i)
         /\ last'[i] # NULL
         /\ LastKnown(i)' = v
<1> DEFINE q == NewPointer
<1>1. q \in Pointers /\ heap[q] = NULL
  BY NewPointerFree
<1>2. /\ last' = [last EXCEPT ![i] = q]
      /\ heap' = [p \in Pointers |->
                    IF p = q THEN v ELSE IF p = last[i] THEN NULL ELSE heap[p]]
  BY DEF Replace
<1> HIDE DEF q
<1>3. \A j \in Ids : last[j] # q
  BY <1>1 DEF MemoryOK, OwnedOnce
<1>4. \A j \in Ids : last'[j] = IF j = i THEN q ELSE last[j]
  BY <1>2 DEF MemoryOK
<1>5. last' \in [Ids -> Optional(Pointers)]
  BY <1>1, <1>2 DEF MemoryOK, Optional
<1>6. heap' \in [Pointers -> Optional(Values)]
  BY <1>2 DEF MemoryOK, Optional
<1>7. \A p \in Pointers :
        heap'[p] = IF p = q THEN v ELSE IF p = last[i] THEN NULL ELSE heap[p]
  BY <1>2
<1>8. \A j \in Ids : j # i /\ last[j] # NULL =>
        last[j] \in Pointers /\ last[j] # last[i] /\ heap'[last[j]] = heap[last[j]]
  BY <1>3, <1>7 DEF MemoryOK, OwnedOnce, Optional
<1>9. OthersKept(i)
  BY <1>4, <1>8 DEF OthersKept, LastKnown, Deref
<1>10. last'[i] # NULL /\ LastKnown(i)' = v
  BY <1>1, <1>4, <1>7, Typed DEF LastKnown, Deref
<1>11. ASSUME NEW p \in Pointers
       PROVE  heap'[p] # NULL <=> \E j \in Ids : last'[j] = p
  <2>1. CASE p = q
    BY <2>1, <1>4, <1>7, Typed
  <2>2. CASE p # q /\ p = last[i]
    BY <2>2, <1>4, <1>7, Typed DEF MemoryOK, OwnedOnce
  <2>3. CASE p # q /\ p # last[i]
    BY <2>3, <1>4, <1>7 DEF MemoryOK, OwnedOnce
  <2> QED
    BY <2>1, <2>2, <2>3
<1>12. \A j, k \in Ids : (j # k /\ last'[j] # NULL) => last'[j] # last'[k]
  BY <1>3, <1>4 DEF MemoryOK, OwnedOnce
<1>13. OwnedOnce'
  BY <1>11, <1>12 DEF OwnedOnce
<1> QED
  BY <1>5, <1>6, <1>9, <1>10, <1>13 DEF MemoryOK

\* The old array takes the new children.
LEMMA MergeMemory ==
  ASSUME MemoryOK, NEW i \in Ids, last[i] # NULL, NEW a \in Arrays,
         last' = last, heap' = [heap EXCEPT ![last[i]] = a]
  PROVE  /\ MemoryOK'
         /\ OthersKept(i)
         /\ LastKnown(i)' = a
<1>1. last[i] \in Pointers /\ heap[last[i]] # NULL
  BY HeldValue, Typed
<1>2. a \in Values /\ a # NULL
  BY Typed DEF Values
<1>3. heap' \in [Pointers -> Optional(Values)]
  BY <1>1, <1>2 DEF MemoryOK, Optional
<1>4. \A p \in Pointers : heap'[p] = IF p = last[i] THEN a ELSE heap[p]
  BY <1>1 DEF MemoryOK
<1>5. OthersKept(i)
  BY <1>4 DEF OthersKept, LastKnown, Deref, MemoryOK, OwnedOnce, Optional
<1>6. LastKnown(i)' = a
  BY <1>1, <1>4 DEF LastKnown, Deref
<1>7. OwnedOnce'
  BY <1>1, <1>2, <1>4 DEF MemoryOK, OwnedOnce
<1> QED
  BY <1>3, <1>5, <1>6, <1>7 DEF MemoryOK

LEMMA SameMemory ==
  ASSUME MemoryOK, last' = last, heap' = heap
  PROVE  /\ MemoryOK'
         /\ \A j \in Ids : last'[j] = last[j] /\ LastKnown(j)' = LastKnown(j)
BY DEF MemoryOK, OwnedOnce, LastKnown, Deref

-----------------------------------------------------------------------------
(* The messages.                                                           *)

Messages == Scalars \cup Splits

DeliveredOK == delivered \in [Ids -> [Instances -> Optional(Messages)]]

\* What is printed of a vector: a child under its own number, and the split
\* value without one.
LEMMA PrintedOf ==
  ASSUME NEW v \in Values, NEW ks, NEW m \in Printed(v, ks)
  PROVE  /\ m[2] \in Messages
         /\ m[1] # NoInstance => /\ IsArray(v)
                                /\ m[1] \in ks \cap Present(v.children)
                                /\ m[2] = v.children[m[1]]
         /\ IsValue(v) => m = <<NoInstance, v>>
<1>1. CASE IsValue(v)
  <2>1. m = <<NoInstance, v>> /\ v \in Scalars
    BY <1>1, Typed DEF Printed
  <2> QED
    BY <2>1, <1>1 DEF Messages
<1>2. CASE ~IsValue(v)
  <2>1. v \in Arrays /\ IsArray(v)
    BY <1>2, Typed
  <2>2. v.children \in Seq(Optional(Scalars)) /\ v.split \in Optional(Splits)
    BY <2>1 DEF Arrays
  <2>3. CASE m \in {<<k, v.children[k]>> : k \in ks \cap Present(v.children)}
    <3>1. PICK k \in ks \cap Present(v.children) : m = <<k, v.children[k]>>
      BY <2>3
    <3>2. v.children[k] \in Scalars
      BY <2>2, ElementOfSeq DEF Present, Optional
    <3> QED
      BY <3>1, <3>2, <2>1, <1>2 DEF Messages
  <2>4. CASE v.split # NULL /\ m = <<NoInstance, v.split>>
    BY <2>4, <2>2, <1>2 DEF Messages, Optional
  <2>5. m \in {<<k, v.children[k]>> : k \in ks \cap Present(v.children)}
          \/ (v.split # NULL /\ m = <<NoInstance, v.split>>)
    BY <1>2 DEF Printed
  <2> QED
    BY <2>3, <2>4, <2>5
<1> QED
  BY <1>1, <1>2

\* The positions of a vector are instances of its monitor.
LEMMA ChildrenAreInstances ==
  ASSUME NEW v \in Arrays
  PROVE  /\ DOMAIN v.children \subseteq Instances \ {NoInstance}
         /\ \A k \in Present(v.children) : v.children[k] \in Scalars
<1>1. v.children \in Seq(Optional(Scalars)) /\ Len(v.children) <= MaxChildren
  BY DEF Arrays
<1>2. DOMAIN v.children = 1..Len(v.children) /\ Len(v.children) \in Nat
  BY <1>1, LenProperties
<1>3. DOMAIN v.children \subseteq Instances \ {NoInstance}
  BY <1>1, <1>2, BoundsAssumption DEF Instances, NoInstance
<1>4. \A k \in Present(v.children) : v.children[k] \in Scalars
  BY <1>1, ElementOfSeq DEF Present, Optional
<1> QED
  BY <1>3, <1>4

\* What the consumers of monitor i have after v, or some of its children, is
\* printed; the messages of the other monitors stay.
LEMMA DeliverTold ==
  ASSUME DeliveredOK, NEW i \in Ids, NEW v \in Values, NEW ks, Deliver(i, v, ks)
  PROVE  /\ DeliveredOK'
         /\ \A j \in Ids : j # i => delivered'[j] = delivered[j]
         /\ sent' \subseteq Printed(v, ks)
         /\ (Monitors[i].send /\ IsValue(v)) => delivered'[i][NoInstance] = v
         /\ (Monitors[i].send /\ IsArray(v)) =>
              \A k \in Present(v.children) :
                delivered'[i][k] = IF k \in ks THEN v.children[k] ELSE delivered[i][k]
<1> DEFINE msgs == IF Monitors[i].send THEN Printed(v, ks) ELSE {}
           at(k) == CHOOSE m \in msgs : m[1] = k
           told(k) == \E m \in msgs : m[1] = k
           new == [k \in Instances |-> IF told(k) THEN at(k)[2] ELSE delivered[i][k]]
<1>1. sent' = msgs /\ delivered' = [delivered EXCEPT ![i] = new]
  BY DEF Deliver
<1>2. \A m \in msgs : m \in Printed(v, ks)
  OBVIOUS
<1>3. \A k : told(k) => at(k) \in msgs /\ at(k)[1] = k
  OBVIOUS
<1>4. \A k \in Instances :
        new[k] = IF told(k) THEN at(k)[2] ELSE delivered[i][k]
  OBVIOUS
<1>5. new \in [Instances -> Optional(Messages)]
  <2>1. \A k \in Instances : told(k) => at(k)[2] \in Messages
    <3> HIDE DEF at, told, msgs
    <3> QED
      BY <1>2, <1>3, PrintedOf
  <2>2. \A k \in Instances : delivered[i][k] \in Optional(Messages)
    BY DEF DeliveredOK
  <2>3. \A k \in Instances : new[k] \in Optional(Messages)
    <3> HIDE DEF at, told, new
    <3> QED
      BY <2>1, <2>2, <1>4 DEF Optional
  <2> QED
    BY <2>3
<1>6. delivered'[i] = new /\ \A j \in Ids : j # i => delivered'[j] = delivered[j]
  <2> HIDE DEF new
  <2> QED
    BY <1>1 DEF DeliveredOK
<1>7. DeliveredOK'
  <2> HIDE DEF new
  <2> QED
    BY <1>1, <1>5 DEF DeliveredOK
<1>8. sent' \subseteq Printed(v, ks)
  BY <1>1, <1>2
<1>9. ASSUME Monitors[i].send, IsValue(v) PROVE new[NoInstance] = v
  <2>1. <<NoInstance, v>> \in msgs
    BY <1>9 DEF Printed
  <2>2. told(NoInstance)
    BY <2>1
  <2>3. at(NoInstance) = <<NoInstance, v>>
    <3> HIDE DEF at, told, msgs
    <3> QED
      BY <2>2, <1>2, <1>3, <1>9, PrintedOf
  <2>4. NoInstance \in Instances
    BY BoundsAssumption DEF NoInstance, Instances
  <2> HIDE DEF at, told, msgs, new
  <2> QED
    BY <2>2, <2>3, <2>4, <1>4
<1>10. ASSUME Monitors[i].send, IsArray(v), NEW k \in Present(v.children)
       PROVE  new[k] = IF k \in ks THEN v.children[k] ELSE delivered[i][k]
  <2>1. v \in Arrays /\ ~IsValue(v)
    BY <1>10, Typed
  <2>2. k \in Instances /\ k # NoInstance
    BY <2>1, ChildrenAreInstances DEF Present
  <2>3. CASE k \in ks
    <3>1. <<k, v.children[k]>> \in msgs
      BY <1>10, <2>1, <2>3 DEF Printed
    <3>2. told(k)
      BY <3>1
    <3>3. at(k)[2] = v.children[k]
      <4> HIDE DEF at, told, msgs
      <4> QED
        BY <3>2, <1>2, <1>3, <2>2, PrintedOf
    <3> HIDE DEF at, told, msgs, new
    <3> QED
      BY <3>2, <3>3, <2>2, <2>3, <1>4
  <2>4. CASE k \notin ks
    <3>1. ~told(k)
      <4> HIDE DEF at, msgs
      <4> QED
        BY <1>2, <2>2, <2>4, PrintedOf
    <3> HIDE DEF at, told, msgs, new
    <3> QED
      BY <3>1, <2>2, <2>4, <1>4
  <2> QED
    BY <2>3, <2>4
<1> HIDE DEF new
<1> QED
  BY <1>6, <1>7, <1>8, <1>9, <1>10

-----------------------------------------------------------------------------
(* The invariant monitor by monitor.                                       *)

\* What the invariant says of monitor i apart from its operation.
SlotOK(i) ==
  /\ last[i] # NULL =>
       /\ Monitors[i].kind = "scalar" => IsValue(LastKnown(i))
       /\ Monitors[i].kind = "vector" => IsArray(LastKnown(i))
  /\ (Monitors[i].send /\ last[i] # NULL) => Informed(i, LastKnown(i))
  /\ observed[i] # NULL <=> last[i] # NULL
  /\ (Monitors[i].kind = "vector" /\ Monitors[i].stamped /\ last[i] # NULL) =>
       observed[i].children = LastKnown(i).children
  /\ (Monitors[i].send /\ observed[i] # NULL) => Informed(i, observed[i])

CursorOK ==
  /\ clock \in 1..MaxClock
  /\ pos \in 0..N
  /\ current \in [Ids -> Optional(Pointers)]
  /\ pos # 0 => current = last

ObservedOK == observed \in [Ids -> Optional(Values)]

LEMMA InvParts ==
  ValuesInv <=> /\ MemoryOK /\ CursorOK /\ ObservedOK /\ DeliveredOK
                /\ \A i \in Ids : SlotOK(i)
                /\ OperationsDone
BY DEF ValuesInv, TypeOK, HeapExact, KindKept, LastKnownDelivered, LastRead,
       ConsumersUpToDate, MemoryOK, OwnedOnce, CursorOK, ObservedOK, DeliveredOK,
       SlotOK, Messages

LEMMA InvPartsPrimed ==
  ASSUME MemoryOK', CursorOK', ObservedOK', DeliveredOK',
         \A i \in Ids : SlotOK(i)', OperationsDone'
  PROVE  ValuesInv'
BY DEF ValuesInv, TypeOK, HeapExact, KindKept, LastKnownDelivered, LastRead,
       ConsumersUpToDate, MemoryOK, OwnedOnce, CursorOK, ObservedOK, DeliveredOK,
       SlotOK, Messages

\* What stays the same of a monitor the step is not about.
SlotKept(j) ==
  /\ last'[j] = last[j]
  /\ LastKnown(j)' = LastKnown(j)
  /\ observed'[j] = observed[j]
  /\ delivered'[j] = delivered[j]

LEMMA SlotStays ==
  ASSUME NEW j \in Ids, SlotOK(j), SlotKept(j)
  PROVE  SlotOK(j)'
<1> DEFINE told(d, v) ==
      IF IsValue(v) THEN Knows(d[NoInstance], v)
      ELSE \A k \in Present(v.children) : Knows(d[k], v.children[k])
<1>1. Informed(j, LastKnown(j)) <=> told(delivered[j], LastKnown(j))
  BY DEF Informed
<1>2. Informed(j, LastKnown(j))' <=> told(delivered'[j], LastKnown(j)')
  BY DEF Informed
<1>3. Informed(j, observed[j]) <=> told(delivered[j], observed[j])
  BY DEF Informed
<1>4. Informed(j, observed[j])' <=> told(delivered'[j], observed'[j])
  BY DEF Informed
<1>5. /\ IsValue(LastKnown(j))' <=> IsValue(LastKnown(j)')
      /\ IsArray(LastKnown(j))' <=> IsArray(LastKnown(j)')
  BY DEF IsValue, IsArray
<1> HIDE DEF told
<1> QED
  BY <1>1, <1>2, <1>3, <1>4, <1>5 DEF SlotOK, SlotKept

\* The cursor goes on, and the values of this iteration follow the last known.
LEMMA CursorMoves ==
  ASSUME MemoryOK, CursorOK, pos \in Ids, Advance, Refresh(pos), clock' = clock,
         last' \in [Ids -> Optional(Pointers)],
         \A j \in Ids : j # pos => last'[j] = last[j]
  PROVE  /\ CursorOK'
         /\ \A j \in Ids : (pos' = 0 \/ j < pos') => j <= pos
<1>1. pos \in Nat /\ 1 <= pos /\ pos <= N /\ N \in Nat
  BY Positions DEF Ids
<1>2. pos' \in 0..N /\ (pos' = 0 <=> pos = N)
  BY <1>1 DEF Advance
<1>3. \A j \in Ids : (pos' = 0 \/ j < pos') => j <= pos
  BY <1>1 DEF Advance, Ids
<1>4. CASE pos = N
  <2>1. current' = NoPointers
    BY <1>4 DEF Refresh
  <2>2. current' \in [Ids -> Optional(Pointers)]
    BY <2>1 DEF NoPointers, Optional
  <2> QED
    BY <1>2, <1>3, <1>4, <2>2 DEF CursorOK
<1>5. CASE pos # N
  <2>1. current' = [last EXCEPT ![pos] = last'[pos]]
    <3>1. current = last
      BY <1>1 DEF CursorOK
    <3>2. current' = [current EXCEPT ![pos] = last'[pos]]
      BY <1>5 DEF Refresh
    <3> QED
      BY <3>1, <3>2
  <2>2. current' = last'
    BY <2>1 DEF MemoryOK
  <2> QED
    BY <1>2, <1>3, <2>2 DEF CursorOK
<1> QED
  BY <1>4, <1>5

-----------------------------------------------------------------------------
(* The operations.                                                         *)

LEMMA OperationStays ==
  ASSUME NEW i \in Ids, OthersKept(i), NEW j \in Ids, j < i, OperationHolds(j)
  PROVE  OperationHolds(j)'
<1>1. CASE Deps[j] = NoDependencies
  BY <1>1 DEF OperationHolds
<1>2. CASE Deps[j] # NoDependencies /\ ~InOrder(j)
  BY <1>2 DEF OperationHolds
<1>3. CASE Deps[j] # NoDependencies /\ InOrder(j)
  <2> DEFINE args == [v \in DOMAIN Deps[j] |-> LastKnown(Deps[j][v])]
             newArgs == [v \in DOMAIN Deps[j] |-> LastKnown(Deps[j][v])']
  <2>1. \A v \in DOMAIN Deps[j] : LastKnown(Deps[j][v])' = LastKnown(Deps[j][v])
    <3>1. \A v \in DOMAIN Deps[j] : Deps[j][v] \in Ids /\ Deps[j][v] < j
      BY <1>3, DependencyShape DEF InOrder
    <3>2. \A v \in DOMAIN Deps[j] : Deps[j][v] # i
      BY <3>1, Positions
    <3> QED
      BY <3>1, <3>2 DEF OthersKept
  <2>2. newArgs = args
    BY <2>1
  <2>3. LastKnown(j)' = LastKnown(j)
    BY Positions DEF OthersKept
  <2> DEFINE r(a) == Evaluate(j, [v \in DOMAIN a |-> a[v].num])
             holds(a, last_) ==
               (\A v \in DOMAIN a : IsValue(a[v])) =>
                 (r(a) \in Int \ {0} => IsValue(last_) /\ last_.num = r(a))
  <2>4. OperationHolds(j) => holds(args, LastKnown(j))
    BY <1>3 DEF OperationHolds
  <2>5. holds(newArgs, LastKnown(j)') => OperationHolds(j)'
    BY DEF OperationHolds, IsValue
  <2> HIDE DEF holds, args, newArgs
  <2> QED
    BY <2>2, <2>3, <2>4, <2>5
<1> QED
  BY <1>1, <1>2, <1>3

\* The operation the step is about holds its result on the values before it,
\* which the current iteration reads as they will be known from now on.
LEMMA OperationComputed ==
  ASSUME TypeOK, CursorOK, NEW i \in Ids, pos = i, OthersKept(i), NEW v \in Results(i),
         (Monitors[i].kind = "op" /\ v # NULL) => LastKnown(i)' = v
  PROVE  OperationHolds(i)'
<1>1. CASE Deps[i] = NoDependencies \/ ~InOrder(i)
  BY <1>1 DEF OperationHolds
<1>2. CASE Deps[i] # NoDependencies /\ InOrder(i)
  <2> DEFINE args == [u \in DOMAIN Deps[i] |-> LastKnown(Deps[i][u])']
             now == LastKnown(i)'
             r == Evaluate(i, [u \in DOMAIN args |-> args[u].num])
  <2>1. SUFFICES ASSUME \A u \in DOMAIN args : IsValue(args[u]), r \in Int \ {0}
                 PROVE  IsValue(now) /\ now.num = r
    <3>1. \A u \in DOMAIN Deps[i] : IsValue(LastKnown(Deps[i][u]))' <=> IsValue(args[u])
      BY DEF IsValue
    <3>2. IsValue(LastKnown(i))' <=> IsValue(now)
      BY DEF IsValue
    <3> QED
      BY <2>1, <3>1, <3>2 DEF OperationHolds
  <2>2. Arguments(i) = args
    <3>1. \A u \in DOMAIN Deps[i] : Deps[i][u] \in Ids /\ Deps[i][u] < i
      BY <1>2, DependencyShape DEF InOrder
    <3>2. \A u \in DOMAIN Deps[i] : Deps[i][u] # i
      BY <3>1, Positions
    <3>3. \A u \in DOMAIN Deps[i] :
            LastKnown(Deps[i][u])' = LastKnown(Deps[i][u])
      BY <3>1, <3>2 DEF OthersKept
    <3>4. current = last
      BY Positions DEF CursorOK
    <3> QED
      BY <3>3, <3>4 DEF Arguments, LastKnown
  <2>3. 1 \in DOMAIN args /\ Monitors[i].kind = "op"
    BY <1>2, DependencyShape
  <2> HIDE DEF args
  <2>4. \A u \in DOMAIN args : args[u] # NULL /\ ~IsArray(args[u])
    BY <2>1 DEF IsValue, IsArray
  <2>5. SizesAgree(args)
    BY <2>4 DEF SizesAgree
  <2>6. OpResult(i) = ScalarOp(i, args)
    BY <1>2, <2>2, <2>3, <2>4, <2>5 DEF OpResult
  <2>7. ScalarOp(i, args) = ValueAt(clock, r)
    BY <2>1 DEF ScalarOp, Computed
  <2>8. v = ValueAt(clock, r)
    BY <2>3, <2>6, <2>7 DEF Results
  <2> HIDE DEF r
  <2>9. v \in Scalars
    <3>1. clock \in Nat
      BY BoundsAssumption DEF TypeOK
    <3> QED
      BY <3>1, <2>1, <2>8, ScalarTyped
  <2>10. v # NULL
    BY <2>9, Typed DEF Values
  <2>11. LastKnown(i)' = v
    BY <2>3, <2>10
  <2> QED
    BY <2>8, <2>10, <2>11 DEF ValueAt, IsValue
<1> QED
  BY <1>1, <1>2

\* All the operations passed, when the step is over.
LEMMA OperationsGoOn ==
  ASSUME OperationsDone, NEW i \in Ids, pos = i, OthersKept(i), OperationHolds(i)',
         \A j \in Ids : (pos' = 0 \/ j < pos') => j <= i
  PROVE  OperationsDone'
<1>1. ASSUME NEW j \in Ids, pos' = 0 \/ j < pos' PROVE OperationHolds(j)'
  <2>1. j <= i /\ j \in Nat /\ i \in Nat
    BY <1>1, Positions
  <2>2. CASE j = i
    BY <2>2
  <2>3. CASE j # i
    <3>1. j < i
      BY <2>1, <2>3
    <3> QED
      BY <3>1, OperationStays DEF OperationsDone
  <2> QED
    BY <2>2, <2>3
<1> QED
  BY <1>1 DEF OperationsDone

-----------------------------------------------------------------------------
(* What consumers know after each outcome of process_monitor_value.        *)

LEMMA KnowsItself ==
  ASSUME NEW v \in Scalars
  PROVE  Knows(v, v)
<1>1. v # NULL
  BY Typed DEF Values
<1> QED
  BY <1>1 DEF Knows, Scalars

\* A new value is sent as a whole.
LEMMA ReplaceSlot ==
  ASSUME MemoryOK, ObservedOK, DeliveredOK, TypeOK, NEW i \in Ids,
         NEW v \in Results(i), v # NULL, Replace(i, v)
  PROVE  SlotOK(i)'
<1>1. /\ v \in Values
      /\ Monitors[i].kind = "scalar" => v \in Scalars
      /\ Monitors[i].kind = "vector" => v \in Arrays
  BY ResultTyped
<1>2. last'[i] # NULL /\ LastKnown(i)' = v
  BY <1>1, ReplaceMemory
<1>3. observed'[i] = v
  BY DEF Replace, ObservedOK
<1>4. Deliver(i, v, AllOf(v))
  BY DEF Replace
<1>5. ASSUME Monitors[i].send PROVE Informed(i, v)'
  <2>1. CASE IsValue(v)
    <3>1. delivered'[i][NoInstance] = v /\ v \in Scalars
      BY <1>1, <1>4, <1>5, <2>1, DeliverTold, Typed
    <3>2. Knows(delivered'[i][NoInstance], v)
      BY <3>1, KnowsItself
    <3> QED
      BY <2>1, <3>2 DEF Informed, IsValue, Knows
  <2>2. CASE ~IsValue(v)
    <3>1. v \in Arrays /\ IsArray(v)
      BY <1>1, <2>2, Typed
    <3>2. \A k \in Present(v.children) : delivered'[i][k] = v.children[k]
      <4>1. \A k \in Present(v.children) : k \in AllOf(v)
        BY <2>2 DEF AllOf, Present
      <4> QED
        BY <1>1, <1>4, <1>5, <3>1, <4>1, DeliverTold
    <3>3. \A k \in Present(v.children) : Knows(delivered'[i][k], v.children[k])
      BY <3>1, <3>2, ChildrenAreInstances, KnowsItself
    <3> QED
      BY <2>2, <3>3 DEF Informed, IsValue, Present, Knows
  <2> QED
    BY <2>1, <2>2
<1>6. /\ (Monitors[i].send => Informed(i, LastKnown(i))')
      /\ (Monitors[i].send => Informed(i, observed[i])')
  BY <1>2, <1>3, <1>5 DEF Informed, IsValue, Present, Knows
<1>7. /\ Monitors[i].kind = "scalar" => IsValue(LastKnown(i))'
      /\ Monitors[i].kind = "vector" => IsArray(LastKnown(i))'
  BY <1>1, <1>2, Typed DEF IsValue, IsArray, Values
<1>8. observed'[i] # NULL
  BY <1>1, <1>3, Typed
<1>9. observed'[i].children = (LastKnown(i)').children
  BY <1>2, <1>3
<1> QED
  BY <1>2, <1>6, <1>7, <1>8, <1>9 DEF SlotOK

\* What is no update is about a monitor with timestamps that has a value.
LEMMA NoUpdate ==
  ASSUME TypeOK, MemoryOK, NEW i \in Ids, SlotOK(i), NEW v \in Results(i), v # NULL,
         ~Updates(i, LastKnown(i), v)
  PROVE  /\ Monitors[i].stamped
         /\ last[i] # NULL
         /\ Monitors[i].kind # "op"
         /\ IsValue(v) => /\ v \in Scalars
                          /\ LastKnown(i) \in Scalars
                          /\ ~Newer(LastKnown(i), v)
         /\ IsArray(v) => /\ v \in Arrays
                          /\ LastKnown(i) \in Arrays
                          /\ Monitors[i].kind = "vector"
<1>1. LastKnown(i) # NULL /\ Monitors[i].stamped
  BY DEF Updates
<1>2. last[i] # NULL /\ LastKnown(i) \in Values
  BY <1>1, HeldValue
<1>3. Monitors[i].kind # "op"
  BY <1>1, MonitorsAssumption
<1>4. Monitors[i].kind \in {"scalar", "vector"}
  BY <1>3, MonitorsAssumption
<1>5. /\ v \in Values
      /\ Monitors[i].kind = "scalar" => v \in Scalars
      /\ Monitors[i].kind = "vector" => v \in Arrays
  BY ResultTyped
<1>6. /\ Monitors[i].kind = "scalar" => LastKnown(i) \in Scalars
      /\ Monitors[i].kind = "vector" => LastKnown(i) \in Arrays
  BY <1>2, Typed DEF SlotOK
<1>7. ASSUME IsValue(v) PROVE v \in Scalars /\ LastKnown(i) \in Scalars
  BY <1>4, <1>5, <1>6, <1>7, Typed
<1>8. ASSUME IsArray(v)
      PROVE  v \in Arrays /\ LastKnown(i) \in Arrays /\ Monitors[i].kind = "vector"
  BY <1>4, <1>5, <1>6, <1>8, Typed
<1>9. IsValue(v) => ~Newer(LastKnown(i), v)
  BY DEF Updates
<1> QED
  BY <1>1, <1>2, <1>3, <1>7, <1>8, <1>9

LEMMA MergeFacts ==
  ASSUME TypeOK, MemoryOK, NEW i \in Ids, SlotOK(i), NEW v \in Results(i), v # NULL,
         Merge(i, v)
  PROVE  /\ Monitors[i].kind = "vector"
         /\ v \in Arrays /\ LastKnown(i) \in Arrays
         /\ last[i] # NULL /\ last'[i] # NULL
         /\ MemoryOK' /\ OthersKept(i)
         /\ LastKnown(i)' \in Arrays
         /\ (LastKnown(i)').children = v.children
         /\ Deliver(i, v, Changed(LastKnown(i).children, v.children))
<1> DEFINE old == LastKnown(i)
           a == ArrayOf(v.children, old.split)
<1>1. ~Updates(i, old, v) /\ IsArray(v)
  BY DEF Merge, LastKnown
<1>2. /\ Monitors[i].kind = "vector" /\ v \in Arrays /\ old \in Arrays
      /\ last[i] # NULL
  BY <1>1, NoUpdate
<1>3. a \in Arrays /\ a.children = v.children
  <2>1. /\ v.children \in Seq(Optional(Scalars)) /\ Len(v.children) <= MaxChildren
        /\ old.split \in Optional(Splits)
    BY <1>2 DEF Arrays
  <2> QED
    BY <2>1 DEF ArrayOf, Arrays
<1>4. last' = last /\ heap' = [heap EXCEPT ![last[i]] = a]
  BY DEF Merge, LastKnown
<1>5. Deliver(i, v, Changed(old.children, v.children))
  BY DEF Merge, LastKnown
<1> HIDE DEF a
<1>6. MemoryOK' /\ OthersKept(i) /\ LastKnown(i)' = a
  BY <1>2, <1>3, <1>4, MergeMemory
<1>7. last'[i] # NULL
  BY <1>2, <1>4
<1> QED
  BY <1>2, <1>3, <1>5, <1>6, <1>7

\* The changes and the new elements are sent: consumers know the others.
LEMMA MergeSlot ==
  ASSUME TypeOK, MemoryOK, ObservedOK, DeliveredOK, NEW i \in Ids, SlotOK(i),
         NEW v \in Results(i), v # NULL, Merge(i, v)
  PROVE  SlotOK(i)'
<1> DEFINE old == LastKnown(i)
           changed == Changed(old.children, v.children)
<1>1. /\ v \in Arrays /\ old \in Arrays /\ last[i] # NULL /\ last'[i] # NULL
      /\ LastKnown(i)' \in Arrays /\ (LastKnown(i)').children = v.children
      /\ Deliver(i, v, changed)
      /\ Monitors[i].kind = "vector"
  BY MergeFacts
<1>2. observed'[i] = v
  BY DEF Merge, ObservedOK
<1>3. v \in Values /\ v # NULL /\ IsArray(v) /\ ~IsValue(v)
      /\ old \in Values /\ ~IsValue(old)
  BY <1>1, Typed DEF Values
<1>4. ASSUME Monitors[i].send, NEW k \in Present(v.children)
      PROVE  Knows(delivered'[i][k], v.children[k])
  <2>1. v.children[k] \in Scalars
    BY <1>1, ChildrenAreInstances
  <2>2. delivered'[i][k] = IF k \in changed THEN v.children[k] ELSE delivered[i][k]
    <3> HIDE DEF changed
    <3> QED
      BY <1>1, <1>3, <1>4, DeliverTold
  <2>3. CASE k \in changed
    BY <2>1, <2>2, <2>3, KnowsItself
  <2>4. CASE k \notin changed
    <3>1. k \in Present(old.children) /\ ~Newer(old.children[k], v.children[k])
      BY <2>4, <1>4 DEF Changed
    <3>2. old.children[k] \in Scalars
      BY <3>1, <1>1, ChildrenAreInstances
    <3>3. Knows(delivered[i][k], old.children[k])
      BY <1>1, <1>3, <1>4, <3>1 DEF SlotOK, Informed
    <3>4. delivered[i][k] \in Messages
      <4>1. k \in Instances
        BY <1>1, <1>4, ChildrenAreInstances DEF Present
      <4> QED
        BY <3>3, <4>1 DEF DeliveredOK, Optional, Knows
    <3>5. Knows(delivered[i][k], v.children[k])
      <4>1. delivered[i][k].ts \in Nat
        BY <3>4 DEF Messages, Scalars, Splits
      <4>2. /\ old.children[k].ts \in Nat /\ v.children[k].ts \in Nat
            /\ old.children[k].num = v.children[k].num
            /\ ~(old.children[k].ts < v.children[k].ts)
        BY <2>1, <3>1, <3>2 DEF Scalars, Newer
      <4> QED
        BY <4>1, <4>2, <3>3 DEF Knows
    <3> QED
      BY <2>2, <2>4, <3>5
  <2> QED
    BY <2>3, <2>4
<1>5. ~IsValue(LastKnown(i))' /\ IsArray(LastKnown(i))'
  BY <1>1, Typed DEF IsValue, IsArray, Values
<1>6. Monitors[i].send => Informed(i, LastKnown(i))'
  BY <1>1, <1>4, <1>5 DEF Informed, Present, Knows
<1>7. Monitors[i].send => Informed(i, observed[i])'
  BY <1>2, <1>3, <1>4 DEF Informed, IsValue, Present, Knows
<1> HIDE DEF old, changed
<1> QED
  BY <1>1, <1>2, <1>3, <1>5, <1>6, <1>7 DEF SlotOK

\* What is dropped tells nothing new.
LEMMA DropSlot ==
  ASSUME TypeOK, MemoryOK, ObservedOK, DeliveredOK, NEW i \in Ids, SlotOK(i),
         NEW v \in Results(i), v # NULL, Drop(i, v)
  PROVE  SlotOK(i)'
<1> DEFINE old == LastKnown(i)
<1>1. ~Updates(i, old, v) /\ IsValue(v)
  BY DEF Drop, LastKnown
<1>2. /\ v \in Scalars /\ old \in Scalars /\ ~Newer(old, v) /\ last[i] # NULL
      /\ Monitors[i].kind = "scalar"
  <2>1. /\ v \in Scalars /\ old \in Scalars /\ ~Newer(old, v) /\ last[i] # NULL
        /\ Monitors[i].kind # "op"
    BY <1>1, NoUpdate
  <2>2. Monitors[i].kind # "vector"
    BY <1>1, ResultTyped, Typed
  <2> QED
    BY <2>1, <2>2, MonitorsAssumption
<1>3. last' = last /\ heap' = heap /\ delivered' = delivered /\ observed'[i] = v
  BY DEF Drop, ObservedOK
<1>4. last'[i] = last[i] /\ LastKnown(i)' = old
  BY <1>3, SameMemory
<1>5. v # NULL /\ IsValue(old)
  BY <1>2, Typed DEF Values
<1>6. ASSUME Monitors[i].send
      PROVE  Knows(delivered[i][NoInstance], old) /\ Knows(delivered[i][NoInstance], v)
  <2>1. Knows(delivered[i][NoInstance], old)
    BY <1>2, <1>5, <1>6 DEF SlotOK, Informed
  <2>2. NoInstance \in Instances
    BY BoundsAssumption DEF NoInstance, Instances
  <2>3. delivered[i][NoInstance] \in Messages
    BY <2>1, <2>2 DEF DeliveredOK, Optional, Knows
  <2>4. delivered[i][NoInstance].ts \in Nat
    BY <2>3 DEF Messages, Scalars, Splits
  <2>5. /\ old.ts \in Nat /\ v.ts \in Nat /\ old.num = v.num /\ ~(old.ts < v.ts)
    BY <1>2 DEF Scalars, Newer
  <2> HIDE DEF old
  <2> QED
    BY <2>1, <2>4, <2>5 DEF Knows
<1>7. Monitors[i].send => Informed(i, LastKnown(i))' /\ Informed(i, observed[i])'
  BY <1>1, <1>3, <1>4, <1>5, <1>6 DEF Informed, IsValue, Knows
<1>8. IsValue(LastKnown(i))'
  BY <1>4, <1>5 DEF IsValue
<1> QED
  BY <1>2, <1>3, <1>4, <1>5, <1>7, <1>8 DEF SlotOK

-----------------------------------------------------------------------------
(* The steps of an iteration.                                              *)

\* Whatever became of v, once the memory, the messages and the monitor itself
\* are in order.
LEMMA StepDone ==
  ASSUME ValuesInv, NEW i \in Ids, pos = i, NEW v \in Results(i),
         (Monitors[i].kind = "op" /\ v # NULL) => LastKnown(i)' = v,
         MemoryOK', OthersKept(i), SlotOK(i)',
         ObservedOK', \A j \in Ids : j # i => observed'[j] = observed[j],
         DeliveredOK', \A j \in Ids : j # i => delivered'[j] = delivered[j],
         Advance, Refresh(i), clock' = clock
  PROVE  ValuesInv'
<1>1. /\ TypeOK /\ MemoryOK /\ CursorOK /\ OperationsDone
      /\ \A j \in Ids : SlotOK(j)
  BY InvParts DEF ValuesInv
<1>2. \A j \in Ids : SlotOK(j)'
  <2>1. ASSUME NEW j \in Ids, j # i PROVE SlotOK(j)'
    BY <1>1, <2>1, SlotStays DEF SlotKept, OthersKept
  <2> QED
    BY <2>1
<1>3. /\ CursorOK'
      /\ \A j \in Ids : (pos' = 0 \/ j < pos') => j <= i
  <2>1. last' \in [Ids -> Optional(Pointers)]
    BY DEF MemoryOK
  <2>2. \A j \in Ids : j # i => last'[j] = last[j]
    BY DEF OthersKept
  <2> QED
    BY <1>1, <2>1, <2>2, CursorMoves
<1>4. OperationHolds(i)'
  BY <1>1, OperationComputed
<1>5. OperationsDone'
  BY <1>1, <1>3, <1>4, OperationsGoOn
<1> QED
  BY <1>2, <1>3, <1>5, InvPartsPrimed

LEMMA NoResultStep ==
  ASSUME ValuesInv, NEW i \in Ids, pos = i, NoResult(i)
  PROVE  ValuesInv' /\ NothingRepeated
<1>1. /\ MemoryOK /\ ObservedOK /\ DeliveredOK /\ SlotOK(i)
  BY InvParts
<1>2. /\ NULL \in Results(i) /\ sent' = {} /\ Advance /\ Refresh(i)
      /\ clock' = clock /\ last' = last /\ heap' = heap
      /\ observed' = observed /\ delivered' = delivered
  BY DEF NoResult
<1>3. /\ MemoryOK' /\ \A j \in Ids : last'[j] = last[j] /\ LastKnown(j)' = LastKnown(j)
  BY <1>1, <1>2, SameMemory
<1>4. SlotOK(i)'
  BY <1>1, <1>2, <1>3, SlotStays DEF SlotKept
<1>5. ObservedOK' /\ DeliveredOK'
  BY <1>1, <1>2 DEF ObservedOK, DeliveredOK
<1>6. OthersKept(i)
  BY <1>3 DEF OthersKept
<1>7. ValuesInv'
  BY <1>2, <1>3, <1>4, <1>5, <1>6, StepDone
<1> QED
  BY <1>2, <1>7 DEF NothingRepeated

LEMMA ReplaceStep ==
  ASSUME ValuesInv, NEW i \in Ids, pos = i, NEW v \in Results(i), v # NULL, Replace(i, v)
  PROVE  ValuesInv' /\ NothingRepeated
<1>1. /\ MemoryOK /\ ObservedOK /\ DeliveredOK /\ SlotOK(i) /\ TypeOK
  BY InvParts DEF ValuesInv
<1>2. v \in Values
  BY <1>1, ResultTyped
<1>3. /\ Advance /\ Refresh(i) /\ clock' = clock /\ Deliver(i, v, AllOf(v))
      /\ observed' = [observed EXCEPT ![i] = v]
      /\ Updates(i, LastKnown(i), v)
  BY DEF Replace, LastKnown
<1>4. MemoryOK' /\ OthersKept(i) /\ LastKnown(i)' = v
  BY <1>1, <1>2, ReplaceMemory
<1>5. SlotOK(i)'
  BY <1>1, ReplaceSlot
<1>6. ObservedOK' /\ \A j \in Ids : j # i => observed'[j] = observed[j]
  BY <1>1, <1>2, <1>3 DEF ObservedOK, Optional
<1>7. /\ DeliveredOK' /\ \A j \in Ids : j # i => delivered'[j] = delivered[j]
      /\ sent' \subseteq Printed(v, AllOf(v))
  BY <1>1, <1>2, <1>3, DeliverTold
<1>8. ValuesInv'
  BY <1>3, <1>4, <1>5, <1>6, <1>7, StepDone
<1>9. NothingRepeated
  <2> SUFFICES ASSUME NEW m \in sent', Monitors[i].stamped, observed[i] # NULL,
                      m[1] # NoInstance
               PROVE  FALSE
    BY DEF NothingRepeated
  <2>1. LastKnown(i) # NULL
    BY <1>1, HeldValue, Typed DEF SlotOK
  <2>2. IsValue(v)
    BY <1>3, <2>1 DEF Updates
  <2> QED
    BY <1>2, <1>7, <2>2, PrintedOf
<1> QED
  BY <1>8, <1>9

LEMMA MergeStep ==
  ASSUME ValuesInv, NEW i \in Ids, pos = i, NEW v \in Results(i), v # NULL, Merge(i, v)
  PROVE  ValuesInv' /\ NothingRepeated
<1> DEFINE old == LastKnown(i)
           changed == Changed(old.children, v.children)
<1>1. /\ MemoryOK /\ ObservedOK /\ DeliveredOK /\ SlotOK(i) /\ TypeOK
  BY InvParts DEF ValuesInv
<1>2. /\ Monitors[i].kind = "vector" /\ v \in Arrays /\ v \in Values
      /\ last[i] # NULL /\ MemoryOK' /\ OthersKept(i)
      /\ Deliver(i, v, changed)
  BY <1>1, MergeFacts DEF Values
<1>3. /\ Advance /\ Refresh(i) /\ clock' = clock
      /\ observed' = [observed EXCEPT ![i] = v]
  BY DEF Merge
<1>4. SlotOK(i)'
  BY <1>1, MergeSlot
<1>5. ObservedOK' /\ \A j \in Ids : j # i => observed'[j] = observed[j]
  BY <1>1, <1>2, <1>3 DEF ObservedOK, Optional
<1>6. /\ DeliveredOK' /\ \A j \in Ids : j # i => delivered'[j] = delivered[j]
      /\ sent' \subseteq Printed(v, changed)
  <2> HIDE DEF changed
  <2> QED
    BY <1>1, <1>2, DeliverTold
<1>7. ValuesInv'
  BY <1>2, <1>3, <1>4, <1>5, <1>6, StepDone
<1>8. NothingRepeated
  <2> SUFFICES ASSUME NEW m \in sent', Monitors[i].stamped, m[1] # NoInstance,
                      m[1] \in Present(observed[i].children)
               PROVE  observed[i].children[m[1]] # m[2]
    BY DEF NothingRepeated
  <2>1. observed[i].children = old.children
    BY <1>1, <1>2 DEF SlotOK
  <2>2. m[1] \in changed /\ m[1] \in Present(v.children) /\ m[2] = v.children[m[1]]
    <3> HIDE DEF changed
    <3> QED
      BY <1>2, <1>6, PrintedOf
  <2>3. Newer(old.children[m[1]], v.children[m[1]])
    BY <2>1, <2>2 DEF Changed
  <2>4. v.children[m[1]].ts \in Nat
    BY <1>2, <2>2, ChildrenAreInstances DEF Scalars
  <2> QED
    BY <2>1, <2>2, <2>3, <2>4 DEF Newer
<1> QED
  BY <1>7, <1>8

LEMMA DropStep ==
  ASSUME ValuesInv, NEW i \in Ids, pos = i, NEW v \in Results(i), v # NULL, Drop(i, v)
  PROVE  ValuesInv' /\ NothingRepeated
<1>1. /\ MemoryOK /\ ObservedOK /\ DeliveredOK /\ SlotOK(i) /\ TypeOK
  BY InvParts DEF ValuesInv
<1>2. /\ Advance /\ Refresh(i) /\ clock' = clock /\ sent' = {}
      /\ last' = last /\ heap' = heap /\ delivered' = delivered
      /\ observed' = [observed EXCEPT ![i] = v]
      /\ ~Updates(i, LastKnown(i), v)
  BY DEF Drop, LastKnown
<1>3. v \in Values /\ Monitors[i].kind # "op"
  BY <1>1, <1>2, ResultTyped, NoUpdate
<1>4. /\ MemoryOK' /\ \A j \in Ids : last'[j] = last[j] /\ LastKnown(j)' = LastKnown(j)
  BY <1>1, <1>2, SameMemory
<1>5. SlotOK(i)'
  BY <1>1, DropSlot
<1>6. ObservedOK' /\ \A j \in Ids : j # i => observed'[j] = observed[j]
  BY <1>1, <1>2, <1>3 DEF ObservedOK, Optional
<1>7. DeliveredOK' /\ \A j \in Ids : j # i => delivered'[j] = delivered[j]
  BY <1>1, <1>2 DEF DeliveredOK
<1>8. OthersKept(i)
  BY <1>4 DEF OthersKept
<1>9. ValuesInv'
  BY <1>2, <1>3, <1>4, <1>5, <1>6, <1>7, <1>8, StepDone
<1> QED
  BY <1>2, <1>9 DEF NothingRepeated

\* Steps that touch no value.
LEMMA OutsideStep ==
  ASSUME ValuesInv, StartIteration \/ Tick \/ UNCHANGED vars
  PROVE  ValuesInv'
<1>1. /\ MemoryOK /\ CursorOK /\ ObservedOK /\ DeliveredOK
      /\ \A i \in Ids : SlotOK(i)
      /\ OperationsDone
  BY InvParts
<1>2. /\ last' = last /\ heap' = heap /\ observed' = observed /\ delivered' = delivered
  BY DEF StartIteration, Tick, vars
<1>3. /\ MemoryOK' /\ \A j \in Ids : last'[j] = last[j] /\ LastKnown(j)' = LastKnown(j)
  BY <1>1, <1>2, SameMemory
<1>4. ObservedOK' /\ DeliveredOK'
  BY <1>1, <1>2 DEF ObservedOK, DeliveredOK
<1>5. \A i \in Ids : SlotOK(i)'
  BY <1>1, <1>2, <1>3, SlotStays DEF SlotKept
<1>6. /\ CursorOK'
      /\ \A i \in Ids : (pos' = 0 \/ i < pos') => (pos = 0 \/ i < pos)
  <2>1. CASE StartIteration
    BY <2>1, <1>1, Positions DEF StartIteration, CursorOK, MemoryOK
  <2>2. CASE Tick
    BY <2>2, <1>1, BoundsAssumption DEF Tick, CursorOK
  <2>3. CASE UNCHANGED vars
    BY <2>3, <1>1 DEF vars, CursorOK
  <2> QED
    BY <2>1, <2>2, <2>3
<1>7. OperationsDone'
  <2>1. \A i \in Ids : OperationHolds(i) => OperationHolds(i)'
    BY <1>2 DEF OperationHolds, LastKnown, Deref, IsValue
  <2> QED
    BY <1>1, <1>6, <2>1 DEF OperationsDone
<1> QED
  BY <1>3, <1>4, <1>5, <1>6, <1>7, InvPartsPrimed

LEMMA ProcessStep ==
  ASSUME ValuesInv, Process
  PROVE  ValuesInv' /\ NothingRepeated
<1>1. PICK i \in Ids : pos = i
  BY DEF Process
<1>2. NoResult(i) \/ \E v \in Results(i) \ {NULL} : Replace(i, v) \/ Merge(i, v) \/ Drop(i, v)
  BY <1>1 DEF Process
<1>3. CASE NoResult(i)
  BY <1>1, <1>3, NoResultStep
<1>4. ASSUME NEW v \in Results(i), v # NULL, Replace(i, v) \/ Merge(i, v) \/ Drop(i, v)
      PROVE  ValuesInv' /\ NothingRepeated
  BY <1>1, <1>4, ReplaceStep, MergeStep, DropStep
<1> QED
  BY <1>2, <1>3, <1>4

-----------------------------------------------------------------------------
(* The theorems.                                                           *)

LEMMA InitInv ==
  ASSUME Init
  PROVE  ValuesInv
<1>1. \A i \in Ids : last[i] = NULL /\ observed[i] = NULL /\ LastKnown(i) = NULL
  BY DEF Init, NoPointers, LastKnown, Deref
<1>2. last \in [Ids -> Optional(Pointers)] /\ current \in [Ids -> Optional(Pointers)]
  BY DEF Init, NoPointers, Optional
<1>3. heap \in [Pointers -> Optional(Values)]
  BY DEF Init, Optional
<1>4. OwnedOnce
  <2>1. \A p \in Pointers : heap[p] = NULL
    BY DEF Init
  <2>2. \A p \in Pointers : p # NULL
    BY Typed
  <2> QED
    BY <1>1, <2>1, <2>2 DEF OwnedOnce
<1>5. MemoryOK
  BY <1>2, <1>3, <1>4 DEF MemoryOK
<1>6. CursorOK
  BY <1>2, BoundsAssumption, Positions DEF Init, CursorOK
<1>7. ObservedOK /\ DeliveredOK
  BY DEF Init, ObservedOK, DeliveredOK, Optional
<1>8. \A i \in Ids : SlotOK(i)
  BY <1>1 DEF SlotOK
<1>9. \A i \in Ids : OperationHolds(i)
  <2> SUFFICES ASSUME NEW i \in Ids, Deps[i] # NoDependencies
               PROVE  \E v \in DOMAIN Deps[i] : ~IsValue(LastKnown(Deps[i][v]))
    BY DEF OperationHolds
  <2>1. 1 \in DOMAIN Deps[i] /\ Deps[i][1] \in Ids
    BY DependencyShape
  <2> QED
    BY <2>1, <1>1 DEF IsValue
<1> QED
  BY <1>5, <1>6, <1>7, <1>8, <1>9, InvParts DEF OperationsDone

LEMMA StepInv ==
  ASSUME ValuesInv, [Next]_vars
  PROVE  ValuesInv'
BY OutsideStep, ProcessStep DEF Next

\* Whatever is read, every iteration keeps the invariant of the two arrays of
\* values, of what consumers know and of what the operations hold
\* (process_monitors_array, rb_sensor_monitor_array.c:63-308).
THEOREM ValuesInvariant == Spec => []ValuesInv
BY InitInv, StepInv, PTL DEF Spec

\* process_monitors_array stays inside the array of monitors, and both arrays
\* of values hold allocated values or NULL.
THEOREM TypeCorrect == Spec => []TypeOK
<1>1. ValuesInv => TypeOK
  BY DEF ValuesInv
<1> QED
  BY <1>1, ValuesInvariant, PTL

\* No value leaks and none is freed while an array holds it: the values alive
\* are those of last_known_monitor_values (process_monitor_value).
THEOREM MemoryExact == Spec => []HeapExact
<1>1. ValuesInv => HeapExact
  BY DEF ValuesInv
<1> QED
  BY <1>1, ValuesInvariant, PTL

\* Replaced, merged or dropped, a reading leaves the consumers of a monitor
\* with its number, for every order of timestamps (update_value,
\* process_monitor_value_v).
THEOREM ConsumersKnow == Spec => []ConsumersUpToDate
<1>1. ValuesInv => ConsumersUpToDate
  BY DEF ValuesInv
<1> QED
  BY <1>1, ValuesInvariant, PTL

\* An operation on scalars that stand before it is never left behind by them
\* when an iteration ends (rb_monitor_get_op_result).
THEOREM OperationsKeepUp == Spec => []OperationsUpToDate
<1>1. ValuesInv => OperationsUpToDate
  BY DEF ValuesInv, OperationsDone, OperationsUpToDate
<1> QED
  BY <1>1, ValuesInvariant, PTL

\* An element of a vector with timestamps that is read twice in a row is sent
\* at most once (process_monitor_value_v_print).
THEOREM NeverRepeated == Spec => UnchangedReadingSentOnce
<1>1. ValuesInv /\ [Next]_vars => [NothingRepeated]_vars
  <2> SUFFICES ASSUME ValuesInv, Next PROVE NothingRepeated
    OBVIOUS
  <2>1. CASE StartIteration \/ Tick
    BY <2>1 DEF StartIteration, Tick, NothingRepeated
  <2>2. CASE Process
    BY <2>2, ProcessStep
  <2> QED
    BY <2>1, <2>2 DEF Next
<1> QED
  BY <1>1, ValuesInvariant, PTL DEF Spec, UnchangedReadingSentOnce

-----------------------------------------------------------------------------
(* Operations on vectors.                                                  *)

\* What is computed for a vector has only missing children: each goes through
\* the test for a scalar with the whole arguments.
LEMMA NoElementComputed ==
  ASSUME TypeOK, NEW i \in Ids, Monitors[i].kind = "op",
         NEW v \in Results(i), v # NULL, IsArray(v)
  PROVE  Present(v.children) = {}
<1> DEFINE args == Arguments(i)
<1>1. v = OpResult(i) /\ v \in Arrays
  BY ResultTyped, Typed
<1>2. /\ Deps[i] # NoDependencies
      /\ v = IF IsArray(args[1]) THEN VectorOp(i, args) ELSE ScalarOp(i, args)
  BY <1>1 DEF OpResult
<1>3. 1 \in DOMAIN args
  BY <1>2, DependencyShape DEF Arguments
<1> HIDE DEF args
<1>4. CASE IsArray(args[1])
  <2>1. ~IsValue(args[1])
    BY <1>4 DEF IsArray, IsValue
  <2>2. ScalarOp(i, args) = NULL
    BY <1>3, <2>1 DEF ScalarOp
  <2>3. v = VectorOp(i, args)
    BY <1>2, <1>4
  <2>4. v.children = [k \in DOMAIN args[1].children |-> ScalarOp(i, args)]
    BY <2>3 DEF VectorOp, ArrayOf
  <2> QED
    BY <2>2, <2>4 DEF Present
<1>5. CASE ~IsArray(args[1])
  <2>1. v = ScalarOp(i, args)
    BY <1>2, <1>5
  <2>2. clock \in Nat
    BY BoundsAssumption DEF TypeOK
  <2>3. v \in Scalars
    BY <2>1, <2>2, ScalarOpTyped DEF Optional
  <2> QED
    BY <2>3, <1>1, Typed DEF Values
<1> QED
  BY <1>4, <1>5

\* A value without elements is printed without instance only.
LEMMA NoElementTold ==
  ASSUME DeliveredOK, NEW i \in Ids, NEW v \in Values, NEW ks, Deliver(i, v, ks),
         IsArray(v) => Present(v.children) = {},
         NEW k \in Instances, k # NoInstance
  PROVE  delivered'[i][k] = delivered[i][k]
<1> DEFINE msgs == IF Monitors[i].send THEN Printed(v, ks) ELSE {}
           new == [j \in Instances |->
                     IF \E m \in msgs : m[1] = j
                     THEN (CHOOSE m \in msgs : m[1] = j)[2]
                     ELSE delivered[i][j]]
<1>1. delivered' = [delivered EXCEPT ![i] = new]
  BY DEF Deliver
<1>2. \A m \in msgs : m[1] # k
  BY PrintedOf
<1>3. new[k] = delivered[i][k]
  BY <1>2
<1> HIDE DEF new
<1> QED
  BY <1>1, <1>3 DEF DeliveredOK

LEMMA OperationStep ==
  ASSUME ValuesInv, OperationsHaveNoElements, NEW i \in Ids, pos = i,
         \/ NoResult(i)
         \/ \E v \in Results(i) \ {NULL} : Replace(i, v) \/ Merge(i, v) \/ Drop(i, v)
  PROVE  OperationsHaveNoElements'
<1> DEFINE bare(j) ==
      /\ IsArray(LastKnown(j)) => Present(LastKnown(j).children) = {}
      /\ \A k \in Instances \ {NoInstance} : delivered[j][k] = NULL
<1>1. /\ TypeOK /\ MemoryOK /\ DeliveredOK /\ SlotOK(i)
      /\ \A j \in Ids : Monitors[j].kind = "op" => bare(j)
  BY InvParts DEF ValuesInv, OperationsHaveNoElements
<1>2. SUFFICES ASSUME NEW j \in Ids, Monitors[j].kind = "op"
               PROVE  bare(j)'
  BY DEF OperationsHaveNoElements
<1>3. ASSUME LastKnown(j)' = LastKnown(j), delivered'[j] = delivered[j]
      PROVE  bare(j)'
  BY <1>1, <1>2, <1>3 DEF IsArray
<1>4. CASE NoResult(i)
  <2>1. last' = last /\ heap' = heap /\ delivered' = delivered
    BY <1>4 DEF NoResult
  <2> QED
    BY <1>1, <1>3, <2>1, SameMemory
<1>5. ASSUME NEW v \in Results(i), v # NULL, Replace(i, v)
      PROVE  bare(j)'
  <2>1. v \in Values
    BY <1>1, <1>5, ResultTyped
  <2>2. Deliver(i, v, AllOf(v))
    BY <1>5 DEF Replace
  <2>3. OthersKept(i) /\ LastKnown(i)' = v
    BY <1>1, <1>5, <2>1, ReplaceMemory
  <2>4. \A l \in Ids : l # i => delivered'[l] = delivered[l]
    BY <1>1, <2>1, <2>2, DeliverTold
  <2>5. CASE j # i
    BY <1>3, <2>3, <2>4, <2>5 DEF OthersKept
  <2>6. CASE j = i
    <3>1. IsArray(v) => Present(v.children) = {}
      BY <1>1, <1>2, <1>5, <2>6, NoElementComputed
    <3>2. \A k \in Instances \ {NoInstance} : delivered'[i][k] = delivered[i][k]
      BY <1>1, <2>1, <2>2, <3>1, NoElementTold
    <3>3. \A k \in Instances \ {NoInstance} : delivered[i][k] = NULL
      BY <1>1, <1>2, <2>6
    <3> QED
      BY <2>3, <2>6, <3>1, <3>2, <3>3 DEF IsArray
  <2> QED
    BY <2>5, <2>6
<1>6. ASSUME NEW v \in Results(i), v # NULL, Merge(i, v)
      PROVE  bare(j)'
  <2>1. /\ Monitors[i].kind = "vector" /\ v \in Arrays /\ OthersKept(i)
        /\ Deliver(i, v, Changed(LastKnown(i).children, v.children))
    BY <1>1, <1>6, MergeFacts
  <2>2. j # i /\ v \in Values
    BY <1>2, <2>1 DEF Values
  <2>3. delivered'[j] = delivered[j]
    BY <1>1, <2>1, <2>2, DeliverTold
  <2> QED
    BY <1>3, <2>1, <2>2, <2>3 DEF OthersKept
<1>7. ASSUME NEW v \in Results(i), Drop(i, v)
      PROVE  bare(j)'
  <2>1. last' = last /\ heap' = heap /\ delivered' = delivered
    BY <1>7 DEF Drop
  <2> QED
    BY <1>1, <1>3, <2>1, SameMemory
<1> QED
  BY <1>4, <1>5, <1>6, <1>7

\* README.md:139 promises operations on vectors.  No operation ever holds an
\* element, and no message ever carries an instance of one (rb_monitor_op_vector_i,
\* rb_sensor_monitor.c:677).
THEOREM OperationsYieldNoElement == Spec => []OperationsHaveNoElements
<1>1. Init => OperationsHaveNoElements
  BY DEF Init, OperationsHaveNoElements, NoPointers, LastKnown, Deref, IsArray
<1>2. ValuesInv /\ OperationsHaveNoElements /\ [Next]_vars => OperationsHaveNoElements'
  <2> SUFFICES ASSUME ValuesInv, OperationsHaveNoElements, [Next]_vars
               PROVE  OperationsHaveNoElements'
    OBVIOUS
  <2>1. CASE StartIteration \/ Tick \/ UNCHANGED vars
    BY <2>1 DEF StartIteration, Tick, vars, OperationsHaveNoElements, LastKnown, Deref,
       IsArray
  <2>2. CASE Process
    BY <2>2, OperationStep DEF Process
  <2> QED
    BY <2>1, <2>2 DEF Next
<1> QED
  BY <1>1, <1>2, ValuesInvariant, PTL DEF Spec

=============================================================================
