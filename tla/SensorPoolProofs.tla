-------------------------- MODULE SensorPoolProofs ---------------------------
(***************************************************************************)
(* Proofs about SensorPool for any number of sensors, monitors and worker  *)
(* threads and any bounds.                                                 *)
(***************************************************************************)
EXTENDS SensorPool, FiniteSetTheorems, TLAPS

-----------------------------------------------------------------------------
(* Counting the copies of a sensor in the queue.                           *)

LEMMA OccurrencesFinite ==
  ASSUME NEW q \in Seq(Sensors), NEW s
  PROVE  IsFiniteSet(Occurrences(q, s))
<1>1. IsFiniteSet(1..Len(q))
  BY FS_Interval
<1>2. Occurrences(q, s) \in SUBSET (1..Len(q))
  BY DEF Occurrences
<1> QED
  BY <1>1, <1>2, FS_Subset

\* queue_sensor adds one copy of the sensor it queues and of no other.
LEMMA OccurrencesAppend ==
  ASSUME NEW q \in Seq(Sensors), NEW t \in Sensors, NEW s \in Sensors
  PROVE  Cardinality(Occurrences(Append(q, t), s)) =
           Cardinality(Occurrences(q, s)) + (IF t = s THEN 1 ELSE 0)
<1>1. IsFiniteSet(Occurrences(q, s))
  BY OccurrencesFinite
<1>2. Len(q) + 1 \notin Occurrences(q, s)
  BY DEF Occurrences
<1>3. CASE t = s
  <2>1. Occurrences(Append(q, t), s) = Occurrences(q, s) \cup {Len(q) + 1}
    BY <1>3 DEF Occurrences
  <2> QED
    BY <1>1, <1>2, <1>3, <2>1, FS_AddElement, FS_CardinalityType
<1>4. CASE t # s
  <2>1. Occurrences(Append(q, t), s) = Occurrences(q, s)
    BY <1>4 DEF Occurrences
  <2> QED
    BY <1>1, <1>4, <2>1, FS_CardinalityType
<1> QED
  BY <1>3, <1>4

\* pop_sensor removes one copy of the head and of no other sensor.
LEMMA OccurrencesTail ==
  ASSUME NEW q \in Seq(Sensors), q # <<>>, NEW s \in Sensors
  PROVE  Cardinality(Occurrences(q, s)) =
           Cardinality(Occurrences(Tail(q), s)) + (IF Head(q) = s THEN 1 ELSE 0)
<1> DEFINE Later == Occurrences(q, s) \ {1}
           Shift == [i \in Occurrences(Tail(q), s) |-> i + 1]
<1>0. Tail(q) \in Seq(Sensors)
  OBVIOUS
<1>1. IsFiniteSet(Occurrences(q, s)) /\ IsFiniteSet(Occurrences(Tail(q), s))
  BY <1>0, OccurrencesFinite
<1>2. Shift \in Bijection(Occurrences(Tail(q), s), Later)
  <2>1. ASSUME NEW i \in Occurrences(Tail(q), s)
        PROVE  i + 1 \in Later
    BY DEF Occurrences
  <2>2. ASSUME NEW j \in Later
        PROVE  \E i \in Occurrences(Tail(q), s) : Shift[i] = j
    <3>1. j - 1 \in Occurrences(Tail(q), s)
      BY DEF Occurrences
    <3>2. Shift[j - 1] = j
      BY <3>1 DEF Occurrences
    <3> QED
      BY <3>1, <3>2
  <2>3. ASSUME NEW i \in Occurrences(Tail(q), s),
               NEW j \in Occurrences(Tail(q), s), Shift[i] = Shift[j]
        PROVE  i = j
    BY <2>3 DEF Occurrences
  <2>4. Shift \in [Occurrences(Tail(q), s) -> Later]
    BY <2>1
  <2> HIDE DEF Shift, Later
  <2> QED
    BY <2>2, <2>3, <2>4 DEF Bijection, Injection, Surjection, IsInjective
<1>3. Cardinality(Later) = Cardinality(Occurrences(Tail(q), s))
  BY <1>1, <1>2, FS_Bijection DEF ExistsBijection
<1>4. 1 \in Occurrences(q, s) <=> Head(q) = s
  BY DEF Occurrences
<1>5. /\ Cardinality(Occurrences(q, s)) \in Nat
      /\ Cardinality(Later) = IF 1 \in Occurrences(q, s)
                               THEN Cardinality(Occurrences(q, s)) - 1
                               ELSE Cardinality(Occurrences(q, s))
  BY <1>1, FS_RemoveElement, FS_CardinalityType
<1> QED
  BY <1>3, <1>4, <1>5

-----------------------------------------------------------------------------
(* Type correctness.                                                       *)

\* Every step of every thread keeps the variables within their types.
LEMMA TypeStep ==
  ASSUME PoolInv, [Next]_vars
  PROVE  TypeOK'
<1> USE CountsAssumption DEF PoolInv, TypeOK, WorkerHasSensor, Sensors, NoSensor
<1>1. CASE Signal
  BY <1>1 DEF Signal, vars, mainVars, workerVars, snmpVars, kafkaVars, history
<1>2. CASE MainLoop
  BY <1>2 DEF MainLoop, MainGoto, vars, mainVars, workerVars, snmpVars, kafkaVars, history
<1>3. CASE MainGet
  BY <1>3 DEF MainGet, MainGoto, vars, mainVars, workerVars, snmpVars, kafkaVars, history
<1>4. CASE MainAdd
  BY SMTT(30), <1>4 DEF MainAdd, MainGoto, vars, mainVars, workerVars, snmpVars, kafkaVars, history
<1>5. CASE MainPassEnd
  BY <1>5 DEF MainPassEnd, MainGoto, vars, mainVars, workerVars, snmpVars, kafkaVars, history
<1>6. CASE MainJoinWorkers
  BY <1>6 DEF MainJoinWorkers, MainGoto, vars, mainVars, workerVars, snmpVars, kafkaVars, history
<1>7. CASE MainJoinPoll
  BY <1>7 DEF MainJoinPoll, MainGoto, vars, mainVars, workerVars, snmpVars, kafkaVars, history
<1>8. CASE MainDrain
  BY <1>8 DEF MainDrain, MainGoto, vars, mainVars, workerVars, snmpVars, kafkaVars, history
<1>9. CASE MainExit
  BY <1>9 DEF MainExit, MainGoto, vars, mainVars, workerVars, snmpVars, kafkaVars, history
<1>10. ASSUME NEW w \in Workers, WorkerOuter(w)
       PROVE  TypeOK'
  BY <1>10 DEF WorkerOuter, WorkerGoto, vars, mainVars, workerVars, snmpVars, kafkaVars, history
<1>11. ASSUME NEW w \in Workers, WorkerPop(w)
       PROVE  TypeOK'
  <2>1. Head(queue) \in Sensors /\ Tail(queue) \in Seq(Sensors)
    BY <1>11 DEF WorkerPop
  <2>2. /\ queue' \in Seq(Sensors)
        /\ wsensor' \in [Workers -> Sensors \cup {NoSensor}]
        /\ wpc' \in [Workers -> {"outer", "pop", "popped", "trylock", "open",
                                "opening", "process", "unlock", "put",
                                "ended"}]
    BY <1>11, <2>1 DEF WorkerPop, WorkerGoto
  <2> QED
    BY <1>11, <2>2 DEF WorkerPop, vars, mainVars, workerVars, snmpVars, kafkaVars, history
<1>12. ASSUME NEW w \in Workers, WorkerPopTimeout(w)
       PROVE  TypeOK'
  BY <1>12 DEF WorkerPopTimeout, WorkerGoto, vars, mainVars, workerVars, snmpVars, kafkaVars, history
<1>13. ASSUME NEW w \in Workers, WorkerCheckRun(w)
       PROVE  TypeOK'
  BY <1>13 DEF WorkerCheckRun, WorkerGoto, vars, mainVars, workerVars, snmpVars, kafkaVars, history
<1>14. ASSUME NEW w \in Workers, WorkerLock(w)
       PROVE  TypeOK'
  BY SMTT(30), <1>14 DEF WorkerLock, WorkerGoto, vars, mainVars, workerVars, snmpVars, kafkaVars, history
<1>15. ASSUME NEW w \in Workers, WorkerSkip(w)
       PROVE  TypeOK'
  BY <1>15 DEF WorkerSkip, WorkerGoto, vars, mainVars, workerVars, snmpVars, kafkaVars, history
<1>16. ASSUME NEW w \in Workers, WorkerMonitorQuiet(w)
       PROVE  TypeOK'
  <2>1. wstep' \in [Workers -> 0..NMonitors]
    <3>1. wstep[w] + 1 \in 0..NMonitors
      BY <1>16 DEF WorkerMonitorQuiet
    <3> QED
      BY <1>16, <3>1 DEF WorkerMonitorQuiet
  <2> QED
    BY <1>16, <2>1 DEF WorkerMonitorQuiet, vars, mainVars, workerVars, snmpVars, kafkaVars, history
<1>17. ASSUME NEW w \in Workers, WorkerMonitorSend(w)
       PROVE  TypeOK'
  <2>1. wstep[w] + 1 \in 0..NMonitors
    BY <1>17 DEF WorkerMonitorSend
  <2>2. /\ wstep' \in [Workers -> 0..NMonitors]
        /\ sent' \in [Sensors -> 0..NMonitors]
        /\ pending' \in Nat
    BY <1>17, <2>1 DEF WorkerMonitorSend
  <2> QED
    BY <1>17, <2>2 DEF WorkerMonitorSend, vars, mainVars, workerVars, snmpVars, kafkaVars, history
<1>18. ASSUME NEW w \in Workers, WorkerProcessed(w)
       PROVE  TypeOK'
  BY <1>18 DEF WorkerProcessed, WorkerGoto, vars, mainVars, workerVars, snmpVars, kafkaVars, history
<1>19. ASSUME NEW w \in Workers, WorkerUnlock(w)
       PROVE  TypeOK'
  BY <1>19 DEF WorkerUnlock, WorkerGoto, vars, mainVars, workerVars, snmpVars, kafkaVars, history
<1>20. ASSUME NEW w \in Workers, WorkerPut(w)
       PROVE  TypeOK'
  <2>1. wsensor[w] \in Sensors
    BY <1>20 DEF WorkerPut, WorkerGoto
  <2>2. /\ refcnt' \in [Sensors -> Int]
        /\ alive' \subseteq Sensors
        /\ wsensor' \in [Workers -> Sensors \cup {NoSensor}]
    BY <1>20, <2>1 DEF WorkerPut
  <2> QED
    BY <1>20, <2>2 DEF WorkerPut, WorkerGoto, vars, mainVars, workerVars, snmpVars, kafkaVars, history
<1>21. CASE PollCheck
  BY <1>21 DEF PollCheck, vars, mainVars, workerVars, snmpVars, kafkaVars, history
<1>22. CASE PollServe
  BY <1>22 DEF PollServe, vars, mainVars, workerVars, snmpVars, kafkaVars, history
<1>23. CASE BrokerSettles
  BY <1>23 DEF BrokerSettles, vars, mainVars, workerVars, snmpVars, kafkaVars, history
<1>24. CASE UNCHANGED vars
  BY <1>24 DEF vars, mainVars, workerVars, snmpVars, kafkaVars, history
<1>25. ASSUME NEW w \in Workers, WorkerNoAddress(w)
       PROVE  TypeOK'
  BY <1>25 DEF WorkerNoAddress, WorkerGoto, vars, mainVars, workerVars, snmpVars, kafkaVars, history
<1>26. ASSUME NEW w \in Workers, WorkerPeer(w)
       PROVE  TypeOK'
  BY <1>26 DEF WorkerPeer, WorkerGoto, vars, mainVars, workerVars, snmpVars, kafkaVars, history
<1>27. ASSUME NEW w \in Workers, WorkerOpen(w)
       PROVE  TypeOK'
  BY <1>27 DEF WorkerOpen, WorkerGoto, vars, mainVars, workerVars, snmpVars, kafkaVars, history
<1>28. ASSUME NEW w \in Workers, WorkerOpenFails(w)
       PROVE  TypeOK'
  BY <1>28 DEF WorkerOpenFails, WorkerGoto, vars, mainVars, workerVars, snmpVars, kafkaVars, history
<1> QED
  BY <1>1, <1>2, <1>3, <1>4, <1>5, <1>6, <1>7, <1>8, <1>9, <1>10, <1>11,
     <1>12, <1>13, <1>14, <1>15, <1>16, <1>17, <1>18, <1>19, <1>20, <1>21,
     <1>22, <1>23, <1>24, <1>25, <1>26, <1>27, <1>28
     DEF Next, Main, Worker, Exited

-----------------------------------------------------------------------------
(* Reference counting.                                                     *)

\* Pointing one worker at x instead of the sensor it had.
LEMMA HoldersUpdate ==
  ASSUME wsensor \in [Workers -> Sensors \cup {NoSensor}],
         NEW w \in Workers, NEW x \in Sensors \cup {NoSensor},
         wsensor' = [wsensor EXCEPT ![w] = x],
         NEW s \in Sensors
  PROVE  /\ Cardinality(Holders(s)) \in Nat
         /\ Cardinality(Holders(s)') = Cardinality(Holders(s))
              + (IF x = s THEN 1 ELSE 0) - (IF wsensor[w] = s THEN 1 ELSE 0)
<1> DEFINE Others == Holders(s) \ {w}
<1>1. IsFiniteSet(Holders(s))
  <2>1. Holders(s) \in SUBSET Workers
    BY DEF Holders
  <2> QED
    BY <2>1, WorkersAssumption, FS_Subset
<1>2. /\ IsFiniteSet(Others)
      /\ Cardinality(Holders(s)) \in Nat
      /\ Cardinality(Others) =
           Cardinality(Holders(s)) - (IF w \in Holders(s) THEN 1 ELSE 0)
  BY <1>1, FS_RemoveElement, FS_CardinalityType
<1>3. w \in Holders(s) <=> wsensor[w] = s
  BY DEF Holders
<1>4. Holders(s)' = IF x = s THEN Others \cup {w} ELSE Others
  BY DEF Holders
<1>5. Cardinality(Others \cup {w}) = Cardinality(Others) + 1
  BY <1>2, FS_AddElement
<1> QED
  BY <1>2, <1>3, <1>4, <1>5

LEMMA HoldersFinite ==
  ASSUME NEW s
  PROVE  IsFiniteSet(Holders(s))
<1>1. Holders(s) \in SUBSET Workers
  BY DEF Holders
<1> QED
  BY <1>1, WorkersAssumption, FS_Subset

LEMMA CardinalitiesNat ==
  ASSUME queue \in Seq(Sensors)
  PROVE  \A s \in Sensors : /\ Cardinality(Occurrences(queue, s)) \in Nat
                            /\ Cardinality(Holders(s)) \in Nat
BY OccurrencesFinite, HoldersFinite, FS_CardinalityType

\* A step that moves no reference keeps the counters exact.
LEMMA ReferencesFrame ==
  ASSUME ReferencesExact, UNCHANGED <<queue, wsensor, refcnt>>,
         \A s \in Sensors : MainHolds(s)' <=> MainHolds(s)
  PROVE  ReferencesExact'
BY DEF ReferencesExact, References, Occurrences, Holders

\* Every step moves as many references as it counts.
LEMMA ReferencesStep ==
  ASSUME PoolInv, [Next]_vars
  PROVE  ReferencesExact' /\ alive' = Sensors
<1> USE DEF PoolInv
<1>0. \A s \in Sensors : /\ Cardinality(Occurrences(queue, s)) \in Nat
                         /\ Cardinality(Holders(s)) \in Nat
  BY CardinalitiesNat DEF TypeOK
<1>1. CASE MainGet
  <2>1. ASSUME NEW s \in Sensors
        PROVE  refcnt'[s] = References(s)'
    <3>1. /\ refcnt'[s] = refcnt[s] + (IF next = s THEN 1 ELSE 0)
          /\ ~MainHolds(s)
          /\ MainHolds(s)' <=> next = s
      BY <1>1 DEF MainGet, MainGoto, MainHolds, TypeOK
    <3>2. /\ Occurrences(queue, s)' = Occurrences(queue, s)
          /\ Holders(s)' = Holders(s)
      BY <1>1 DEF MainGet, workerVars, Occurrences, Holders
    <3>3. refcnt[s] = References(s) /\ refcnt[s] \in Int
      BY DEF ReferencesExact, TypeOK
    <3> QED
      BY <3>1, <3>2, <3>3, <1>0 DEF References
  <2> QED
    BY <1>1, <2>1 DEF MainGet, ReferencesExact
<1>2. CASE MainAdd
  <2>1. ASSUME NEW s \in Sensors
        PROVE  refcnt'[s] = References(s)'
    <3>1. next \in Sensors /\ queue \in Seq(Sensors)
      BY <1>2 DEF MainAdd, MainGoto, TypeOK
    <3>2. /\ refcnt'[s] = refcnt[s]
          /\ MainHolds(s) <=> next = s
          /\ ~MainHolds(s)'
      BY <1>2 DEF MainAdd, MainGoto, MainHolds
    <3>3. Holders(s)' = Holders(s)
      BY <1>2 DEF MainAdd, workerVars, Holders
    <3>4. Cardinality(Occurrences(queue, s)') =
            Cardinality(Occurrences(queue, s)) + (IF next = s THEN 1 ELSE 0)
      BY <1>2, <3>1, OccurrencesAppend DEF MainAdd, Occurrences
    <3>5. refcnt[s] = References(s)
      BY DEF ReferencesExact
    <3> QED
      BY <3>2, <3>3, <3>4, <3>5, <1>0 DEF References
  <2> QED
    BY <1>2, <2>1 DEF MainAdd, ReferencesExact
<1>3. ASSUME NEW w \in Workers, WorkerPop(w)
      PROVE  ReferencesExact' /\ alive' = Sensors
  <2>1. ASSUME NEW s \in Sensors
        PROVE  refcnt'[s] = References(s)'
    <3>1. /\ queue \in Seq(Sensors) /\ queue # <<>>
          /\ Head(queue) \in Sensors
          /\ wsensor[w] = NoSensor
      BY <1>3 DEF WorkerPop, WorkerGoto, TypeOK, WorkerHasSensor
    <3>2. refcnt'[s] = refcnt[s] /\ (MainHolds(s)' <=> MainHolds(s))
      BY <1>3 DEF WorkerPop, mainVars, MainHolds
    <3>3. Cardinality(Holders(s)') =
            Cardinality(Holders(s)) + (IF Head(queue) = s THEN 1 ELSE 0)
      <4>1. wsensor[w] # s
        BY <3>1 DEF Sensors, NoSensor
      <4>2. /\ wsensor' = [wsensor EXCEPT ![w] = Head(queue)]
            /\ wsensor \in [Workers -> Sensors \cup {NoSensor}]
        BY <1>3 DEF WorkerPop, TypeOK
      <4>3. /\ Cardinality(Holders(s)) \in Nat
            /\ Cardinality(Holders(s)') = Cardinality(Holders(s))
                 + (IF Head(queue) = s THEN 1 ELSE 0)
                 - (IF wsensor[w] = s THEN 1 ELSE 0)
        BY <3>1, <4>2, HoldersUpdate
      <4> QED
        BY <4>1, <4>3
    <3>4. Cardinality(Occurrences(queue, s)) =
            Cardinality(Occurrences(queue, s)')
              + (IF Head(queue) = s THEN 1 ELSE 0)
      BY <1>3, <3>1, OccurrencesTail DEF WorkerPop, Occurrences
    <3>5. refcnt[s] = References(s)
      BY DEF ReferencesExact
    <3>6. Cardinality(Occurrences(queue, s)') \in Nat
      <4>1. queue' \in Seq(Sensors)
        <5>1. Tail(queue) \in Seq(Sensors)
          BY <3>1
        <5> QED
          BY <1>3, <5>1 DEF WorkerPop
      <4>2. IsFiniteSet(Occurrences(queue', s))
        BY <4>1, OccurrencesFinite
      <4> QED
        BY <4>2, FS_CardinalityType DEF Occurrences
    <3> QED
      BY <3>2, <3>3, <3>4, <3>5, <3>6, <1>0 DEF References
  <2> QED
    BY <1>3, <2>1 DEF WorkerPop, ReferencesExact
<1>4. ASSUME NEW w \in Workers, WorkerPut(w)
      PROVE  ReferencesExact' /\ alive' = Sensors
  <2>1. wsensor[w] \in Sensors
    BY <1>4 DEF WorkerPut, WorkerGoto, WorkerHasSensor
  <2>2. ASSUME NEW s \in Sensors
        PROVE  /\ Cardinality(Holders(s)') = Cardinality(Holders(s))
                    - (IF wsensor[w] = s THEN 1 ELSE 0)
               /\ Cardinality(Holders(s)) \in Nat
    <3>1. NoSensor # s
      BY DEF Sensors, NoSensor
    <3>2. /\ wsensor' = [wsensor EXCEPT ![w] = NoSensor]
          /\ wsensor \in [Workers -> Sensors \cup {NoSensor}]
      BY <1>4 DEF WorkerPut, TypeOK
    <3>3. /\ Cardinality(Holders(s)) \in Nat
          /\ Cardinality(Holders(s)') = Cardinality(Holders(s))
               + (IF NoSensor = s THEN 1 ELSE 0)
               - (IF wsensor[w] = s THEN 1 ELSE 0)
      BY <3>2, HoldersUpdate
    <3> QED
      BY <3>1, <3>3
  <2>3. ASSUME NEW s \in Sensors
        PROVE  refcnt'[s] = References(s)'
    <3>1. refcnt'[s] = refcnt[s] - (IF wsensor[w] = s THEN 1 ELSE 0)
      <4>1. refcnt' = [refcnt EXCEPT ![wsensor[w]] = @ - 1]
        BY <1>4 DEF WorkerPut
      <4>2. refcnt \in [Sensors -> Int]
        BY DEF TypeOK
      <4> QED
        BY <2>1, <4>1, <4>2
    <3>3. /\ MainHolds(s)' <=> MainHolds(s)
          /\ Occurrences(queue, s)' = Occurrences(queue, s)
      BY <1>4 DEF WorkerPut, mainVars, MainHolds, Occurrences
    <3>2. refcnt[s] = References(s)
      BY DEF ReferencesExact
    <3> QED
      BY <2>2, <3>1, <3>2, <3>3, <1>0 DEF References
  <2>4. refcnt[wsensor[w]] > 1
    <3> DEFINE s == wsensor[w]
    <3>1. refcnt[s] = References(s)
      BY <2>1 DEF ReferencesExact
    <3>2. Cardinality(Holders(s)) >= 1
      <4>1. w \in Holders(s)
        BY DEF Holders
      <4>2. IsFiniteSet(Holders(s))
        BY HoldersFinite
      <4> QED
        BY <4>1, <4>2, FS_EmptySet, FS_CardinalityType
    <3> QED
      BY <2>1, <3>1, <3>2, <1>0 DEF References
  <2> QED
    BY <1>4, <2>3, <2>4 DEF WorkerPut, ReferencesExact
<1>5. ASSUME NEW w \in Workers, WorkerOuter(w)
      PROVE  ReferencesExact' /\ alive' = Sensors
  <2>1. wsensor' = wsensor
    BY <1>5 DEF WorkerOuter, WorkerGoto, WorkerHasSensor, TypeOK
  <2> QED
    BY <1>5, <2>1, ReferencesFrame DEF WorkerOuter, mainVars, MainHolds
<1>6. CASE MainLoop
  BY <1>6, ReferencesFrame
     DEF MainLoop, MainGoto, MainHolds, vars, mainVars, workerVars, snmpVars, kafkaVars, history
<1>7. CASE MainPassEnd
  BY <1>7, ReferencesFrame
     DEF MainPassEnd, MainGoto, MainHolds, vars, mainVars, workerVars, snmpVars, kafkaVars, history
<1>8. CASE MainJoinWorkers
  BY <1>8, ReferencesFrame
     DEF MainJoinWorkers, MainGoto, MainHolds, vars, mainVars, workerVars, snmpVars, kafkaVars, history
<1>9. CASE MainJoinPoll
  BY <1>9, ReferencesFrame
     DEF MainJoinPoll, MainGoto, MainHolds, vars, mainVars, workerVars, snmpVars, kafkaVars, history
<1>10. CASE MainDrain
  BY <1>10, ReferencesFrame
     DEF MainDrain, MainGoto, MainHolds, vars, mainVars, workerVars, snmpVars, kafkaVars, history
<1>11. CASE MainExit
  BY <1>11, ReferencesFrame
     DEF MainExit, MainGoto, MainHolds, vars, mainVars, workerVars, snmpVars, kafkaVars, history
<1>12. ASSUME NEW w \in Workers, WorkerPopTimeout(w)
      PROVE  ReferencesExact' /\ alive' = Sensors
  BY <1>12, ReferencesFrame
     DEF WorkerPopTimeout, MainHolds, vars, mainVars, workerVars, snmpVars, kafkaVars, history
<1>13. ASSUME NEW w \in Workers, WorkerCheckRun(w)
      PROVE  ReferencesExact' /\ alive' = Sensors
  BY <1>13, ReferencesFrame
     DEF WorkerCheckRun, MainHolds, vars, mainVars, workerVars, snmpVars, kafkaVars, history
<1>14. ASSUME NEW w \in Workers, WorkerLock(w)
      PROVE  ReferencesExact' /\ alive' = Sensors
  BY <1>14, ReferencesFrame
     DEF WorkerLock, MainHolds, vars, mainVars, workerVars, snmpVars, kafkaVars, history
<1>15. ASSUME NEW w \in Workers, WorkerSkip(w)
      PROVE  ReferencesExact' /\ alive' = Sensors
  BY <1>15, ReferencesFrame
     DEF WorkerSkip, MainHolds, vars, mainVars, workerVars, snmpVars, kafkaVars, history
<1>16. ASSUME NEW w \in Workers, WorkerMonitorQuiet(w)
      PROVE  ReferencesExact' /\ alive' = Sensors
  BY <1>16, ReferencesFrame
     DEF WorkerMonitorQuiet, MainHolds, vars, mainVars, workerVars, snmpVars, kafkaVars, history
<1>17. ASSUME NEW w \in Workers, WorkerMonitorSend(w)
      PROVE  ReferencesExact' /\ alive' = Sensors
  BY <1>17, ReferencesFrame
     DEF WorkerMonitorSend, MainHolds, vars, mainVars, workerVars, snmpVars, kafkaVars, history
<1>18. ASSUME NEW w \in Workers, WorkerProcessed(w)
      PROVE  ReferencesExact' /\ alive' = Sensors
  BY <1>18, ReferencesFrame
     DEF WorkerProcessed, MainHolds, vars, mainVars, workerVars, snmpVars, kafkaVars, history
<1>19. ASSUME NEW w \in Workers, WorkerUnlock(w)
      PROVE  ReferencesExact' /\ alive' = Sensors
  BY <1>19, ReferencesFrame
     DEF WorkerUnlock, MainHolds, vars, mainVars, workerVars, snmpVars, kafkaVars, history
<1>20. CASE Signal
  BY <1>20, ReferencesFrame
     DEF Signal, MainHolds, vars, mainVars, workerVars, snmpVars, kafkaVars, history
<1>21. CASE PollCheck
  BY <1>21, ReferencesFrame
     DEF PollCheck, MainHolds, vars, mainVars, workerVars, snmpVars, kafkaVars, history
<1>22. CASE PollServe
  BY <1>22, ReferencesFrame
     DEF PollServe, MainHolds, vars, mainVars, workerVars, snmpVars, kafkaVars, history
<1>23. CASE BrokerSettles
  BY <1>23, ReferencesFrame
     DEF BrokerSettles, MainHolds, vars, mainVars, workerVars, snmpVars, kafkaVars, history
<1>24. CASE UNCHANGED vars
  BY <1>24, ReferencesFrame
     DEF MainHolds, vars, mainVars, workerVars, snmpVars, kafkaVars, history
<1>25. ASSUME NEW w \in Workers, WorkerNoAddress(w)
       PROVE  ReferencesExact' /\ alive' = Sensors
  BY <1>25, ReferencesFrame
     DEF WorkerNoAddress, MainHolds, vars, mainVars, workerVars, snmpVars, kafkaVars, history
<1>26. ASSUME NEW w \in Workers, WorkerPeer(w)
       PROVE  ReferencesExact' /\ alive' = Sensors
  BY <1>26, ReferencesFrame
     DEF WorkerPeer, MainHolds, vars, mainVars, workerVars, snmpVars, kafkaVars, history
<1>27. ASSUME NEW w \in Workers, WorkerOpen(w)
       PROVE  ReferencesExact' /\ alive' = Sensors
  BY <1>27, ReferencesFrame
     DEF WorkerOpen, MainHolds, vars, mainVars, workerVars, snmpVars, kafkaVars, history
<1>28. ASSUME NEW w \in Workers, WorkerOpenFails(w)
       PROVE  ReferencesExact' /\ alive' = Sensors
  BY <1>28, ReferencesFrame
     DEF WorkerOpenFails, MainHolds, vars, mainVars, workerVars, snmpVars, kafkaVars, history
<1> QED
  BY <1>1, <1>2, <1>3, <1>4, <1>5, <1>6, <1>7, <1>8, <1>9, <1>10, <1>11,
     <1>12, <1>13, <1>14, <1>15, <1>16, <1>17, <1>18, <1>19, <1>20, <1>21,
     <1>22, <1>23, <1>24, <1>25, <1>26, <1>27, <1>28
     DEF Next, Main, Worker, Exited

-----------------------------------------------------------------------------
(* Who owns what, and what the shutdown has waited for.                    *)

\* The parts of PoolInv that are about control, not about counting.
Control ==
  /\ mainPc = "add" => next \in Sensors
  /\ WorkerHasSensor
  /\ LockOwned
  /\ ShutdownOrder
  /\ LateOnlyAfterLock
  /\ OneSensorAfterSignal
  /\ SentByOwner

\* What pop_sensor returns is a sensor, and nobody else's sensor changes.
LEMMA PopHasSensor ==
  ASSUME PoolInv, NEW w \in Workers, WorkerPop(w)
  PROVE  WorkerHasSensor'
<1>1. /\ wpc \in [Workers -> {"outer", "pop", "popped", "trylock", "open",
                             "opening", "process", "unlock", "put", "ended"}]
      /\ wsensor \in [Workers -> Sensors \cup {NoSensor}]
      /\ queue \in Seq(Sensors)
      /\ WorkerHasSensor
  BY DEF PoolInv, TypeOK
<1>2. /\ wpc' = [wpc EXCEPT ![w] = "popped"]
      /\ wsensor' = [wsensor EXCEPT ![w] = Head(queue)]
      /\ queue # <<>>
      /\ run' = run
  BY DEF WorkerPop, WorkerGoto
<1>3. Head(queue) \in Sensors
  BY <1>1, <1>2
<1>4. wpc'[w] = "popped" /\ wsensor'[w] = Head(queue)
  BY <1>1, <1>2
<1>5. \A v \in Workers \ {w} : wpc'[v] = wpc[v] /\ wsensor'[v] = wsensor[v]
  BY <1>1, <1>2
<1> QED
  BY <1>1, <1>2, <1>3, <1>4, <1>5 DEF WorkerHasSensor

LEMMA ControlStep ==
  ASSUME PoolInv, [Next]_vars
  PROVE  Control'
<1> USE CountsAssumption, WorkersAssumption
    DEF PoolInv, TypeOK, Control, WorkerHasSensor, LockOwned, Critical,
        ShutdownOrder, LateOnlyAfterLock, OneSensorAfterSignal, SentByOwner,
        Sensors, NoSensor, Outq
<1>1. CASE Signal
  BY <1>1 DEF Signal, vars, mainVars, workerVars, snmpVars, kafkaVars, history
<1>2. CASE MainLoop
  BY <1>2 DEF MainLoop, MainGoto, vars, mainVars, workerVars, snmpVars, kafkaVars, history
<1>3. CASE MainGet
  BY <1>3 DEF MainGet, MainGoto, vars, mainVars, workerVars, snmpVars, kafkaVars, history
<1>4. CASE MainAdd
  BY <1>4 DEF MainAdd, MainGoto, vars, mainVars, workerVars, snmpVars, kafkaVars, history
<1>5. CASE MainPassEnd
  BY <1>5 DEF MainPassEnd, MainGoto, vars, mainVars, workerVars, snmpVars, kafkaVars, history
<1>6. CASE MainJoinWorkers
  BY <1>6 DEF MainJoinWorkers, MainGoto, vars, mainVars, workerVars, snmpVars, kafkaVars, history
<1>7. CASE MainJoinPoll
  BY <1>7 DEF MainJoinPoll, MainGoto, vars, mainVars, workerVars, snmpVars, kafkaVars, history
<1>8. CASE MainDrain
  BY <1>8 DEF MainDrain, MainGoto, vars, mainVars, workerVars, snmpVars, kafkaVars, history
<1>9. CASE MainExit
  BY <1>9 DEF MainExit, MainGoto, vars, mainVars, workerVars, snmpVars, kafkaVars, history
<1>10. ASSUME NEW w \in Workers, WorkerOuter(w)
      PROVE  Control'
  <2>1. wsensor' = wsensor
    BY <1>10 DEF WorkerOuter, WorkerGoto
  <2> QED
    BY SMTT(30), <1>10, <2>1 DEF WorkerOuter, WorkerGoto, vars, mainVars, workerVars, snmpVars, kafkaVars, history
<1>11. ASSUME NEW w \in Workers, WorkerPop(w)
      PROVE  Control'
  <2>1. Head(queue) \in Sensors
    BY <1>11 DEF WorkerPop
  <2>2. (mainPc = "add" => next \in Sensors)'
    BY <1>11, <2>1 DEF WorkerPop, WorkerGoto, vars, mainVars, workerVars, snmpVars, kafkaVars, history
  <2>3. (WorkerHasSensor)'
    BY <1>11, PopHasSensor
  <2>4. (LockOwned)'
    BY SMTT(30), <1>11, <2>1 DEF WorkerPop, WorkerGoto, vars, mainVars, workerVars, snmpVars, kafkaVars, history
  <2>5. (ShutdownOrder)'
    BY <1>11, <2>1 DEF WorkerPop, WorkerGoto, vars, mainVars, workerVars, snmpVars, kafkaVars, history
  <2>6. (LateOnlyAfterLock)'
    BY <1>11, <2>1 DEF WorkerPop, WorkerGoto, vars, mainVars, workerVars, snmpVars, kafkaVars, history
  <2>7. (OneSensorAfterSignal)'
    BY <1>11, <2>1 DEF WorkerPop, WorkerGoto, vars, mainVars, workerVars, snmpVars, kafkaVars, history
  <2>8. (SentByOwner)'
    BY <1>11, <2>1 DEF WorkerPop, WorkerGoto, vars, mainVars, workerVars, snmpVars, kafkaVars, history
  <2> QED
    BY <2>2, <2>3, <2>4, <2>5, <2>6, <2>7, <2>8
<1>12. ASSUME NEW w \in Workers, WorkerPopTimeout(w)
      PROVE  Control'
  BY <1>12 DEF WorkerPopTimeout, WorkerGoto, vars, mainVars, workerVars, snmpVars, kafkaVars, history
<1>13. ASSUME NEW w \in Workers, WorkerCheckRun(w)
      PROVE  Control'
  BY SMTT(30), <1>13 DEF WorkerCheckRun, WorkerGoto, vars, mainVars, workerVars, snmpVars, kafkaVars, history
<1>14. ASSUME NEW w \in Workers, WorkerLock(w)
      PROVE  Control'
  <2>1. wsensor[w] \in Sensors
    BY <1>14 DEF WorkerLock, WorkerGoto
  <2>2. (mainPc = "add" => next \in Sensors)'
    BY <1>14, <2>1 DEF WorkerLock, WorkerGoto, vars, mainVars, workerVars, snmpVars, kafkaVars, history
  <2>3. (WorkerHasSensor)'
    BY <1>14, <2>1 DEF WorkerLock, WorkerGoto, vars, mainVars, workerVars, snmpVars, kafkaVars, history
  <2>4. (LockOwned)'
    BY <1>14, <2>1 DEF WorkerLock, WorkerGoto, vars, mainVars, workerVars, snmpVars, kafkaVars, history
  <2>5. (ShutdownOrder)'
    BY <1>14, <2>1 DEF WorkerLock, WorkerGoto, vars, mainVars, workerVars, snmpVars, kafkaVars, history
  <2>6. (LateOnlyAfterLock)'
    BY <1>14, <2>1 DEF WorkerLock, WorkerGoto, vars, mainVars, workerVars, snmpVars, kafkaVars, history
  <2>7. (OneSensorAfterSignal)'
    BY <1>14, <2>1 DEF WorkerLock, WorkerGoto, vars, mainVars, workerVars, snmpVars, kafkaVars, history
  <2>8. (SentByOwner)'
    BY <1>14, <2>1 DEF WorkerLock, WorkerGoto, vars, mainVars, workerVars, snmpVars, kafkaVars, history
  <2> QED
    BY <2>2, <2>3, <2>4, <2>5, <2>6, <2>7, <2>8
<1>15. ASSUME NEW w \in Workers, WorkerSkip(w)
      PROVE  Control'
  BY SMTT(30), <1>15 DEF WorkerSkip, WorkerGoto, vars, mainVars, workerVars, snmpVars, kafkaVars, history
<1>16. ASSUME NEW w \in Workers, WorkerMonitorQuiet(w)
      PROVE  Control'
  <2>1. wstep[w] \in Nat /\ wstep'[w] = wstep[w] + 1
    BY <1>16 DEF WorkerMonitorQuiet
  <2>2. (mainPc = "add" => next \in Sensors)'
    BY <1>16, <2>1 DEF WorkerMonitorQuiet, WorkerGoto, vars, mainVars, workerVars, snmpVars, kafkaVars, history
  <2>3. (WorkerHasSensor)'
    BY <1>16, <2>1 DEF WorkerMonitorQuiet, WorkerGoto, vars, mainVars, workerVars, snmpVars, kafkaVars, history
  <2>4. (LockOwned)'
    BY <1>16, <2>1 DEF WorkerMonitorQuiet, WorkerGoto, vars, mainVars, workerVars, snmpVars, kafkaVars, history
  <2>5. (ShutdownOrder)'
    BY <1>16, <2>1 DEF WorkerMonitorQuiet, WorkerGoto, vars, mainVars, workerVars, snmpVars, kafkaVars, history
  <2>6. (LateOnlyAfterLock)'
    BY <1>16, <2>1 DEF WorkerMonitorQuiet, WorkerGoto, vars, mainVars, workerVars, snmpVars, kafkaVars, history
  <2>7. (OneSensorAfterSignal)'
    BY <1>16, <2>1 DEF WorkerMonitorQuiet, WorkerGoto, vars, mainVars, workerVars, snmpVars, kafkaVars, history
  <2>8. (SentByOwner)'
    BY SMTT(30), <1>16, <2>1 DEF WorkerMonitorQuiet, WorkerGoto, vars, mainVars, workerVars, snmpVars, kafkaVars, history
  <2> QED
    BY <2>2, <2>3, <2>4, <2>5, <2>6, <2>7, <2>8
<1>17. ASSUME NEW w \in Workers, WorkerMonitorSend(w)
      PROVE  Control'
  BY <1>17 DEF WorkerMonitorSend, WorkerGoto, vars, mainVars, workerVars, snmpVars, kafkaVars, history
<1>18. ASSUME NEW w \in Workers, WorkerProcessed(w)
      PROVE  Control'
  BY SMTT(30), <1>18 DEF WorkerProcessed, WorkerGoto, vars, mainVars, workerVars, snmpVars, kafkaVars, history
<1>19. ASSUME NEW w \in Workers, WorkerUnlock(w)
      PROVE  Control'
  BY <1>19 DEF WorkerUnlock, WorkerGoto, vars, mainVars, workerVars, snmpVars, kafkaVars, history
<1>20. ASSUME NEW w \in Workers, WorkerPut(w)
      PROVE  Control'
  BY SMTT(30), <1>20 DEF WorkerPut, WorkerGoto, vars, mainVars, workerVars, snmpVars, kafkaVars, history
<1>21. CASE PollCheck
  BY <1>21 DEF PollCheck, vars, mainVars, workerVars, snmpVars, kafkaVars, history
<1>22. CASE PollServe
  BY <1>22 DEF PollServe, vars, mainVars, workerVars, snmpVars, kafkaVars, history
<1>23. CASE BrokerSettles
  BY <1>23 DEF BrokerSettles, vars, mainVars, workerVars, snmpVars, kafkaVars, history
<1>24. CASE UNCHANGED vars
  BY <1>24 DEF vars, mainVars, workerVars, snmpVars, kafkaVars, history
<1>25. ASSUME NEW w \in Workers, WorkerNoAddress(w)
       PROVE  Control'
  BY SMTT(30), <1>25 DEF WorkerNoAddress, WorkerGoto, vars, mainVars, workerVars, snmpVars, kafkaVars, history
<1>26. ASSUME NEW w \in Workers, WorkerPeer(w)
       PROVE  Control'
  BY SMTT(30), <1>26 DEF WorkerPeer, WorkerGoto, vars, mainVars, workerVars, snmpVars, kafkaVars, history
<1>27. ASSUME NEW w \in Workers, WorkerOpen(w)
       PROVE  Control'
  BY SMTT(30), <1>27 DEF WorkerOpen, WorkerGoto, vars, mainVars, workerVars, snmpVars, kafkaVars, history
<1>28. ASSUME NEW w \in Workers, WorkerOpenFails(w)
       PROVE  Control'
  BY SMTT(30), <1>28 DEF WorkerOpenFails, WorkerGoto, vars, mainVars, workerVars, snmpVars, kafkaVars, history
<1> QED
  BY <1>1, <1>2, <1>3, <1>4, <1>5, <1>6, <1>7, <1>8, <1>9, <1>10, <1>11,
     <1>12, <1>13, <1>14, <1>15, <1>16, <1>17, <1>18, <1>19, <1>20, <1>21,
     <1>22, <1>23, <1>24, <1>25, <1>26, <1>27, <1>28
     DEF Next, Main, Worker, Exited

-----------------------------------------------------------------------------
(* The template of the SNMP sessions.                                      *)

\* The parts of PoolInv that are about it.
Snmp == SnmpMutexOwned /\ SessionOfOwnSensor

\* The template is written under its mutex only, and each session is opened
\* before the mutex is given back.
LEMMA SnmpStep ==
  ASSUME PoolInv, [Next]_vars
  PROVE  Snmp'
<1> USE WorkersAssumption
    DEF PoolInv, TypeOK, Snmp, SnmpMutexOwned, SessionOfOwnSensor
<1>1. ASSUME NEW w \in Workers, WorkerOuter(w)
      PROVE  Snmp'
  BY <1>1 DEF WorkerOuter, WorkerGoto, snmpVars
<1>2. ASSUME NEW w \in Workers, WorkerPop(w)
      PROVE  Snmp'
  BY <1>2 DEF WorkerPop, WorkerGoto, snmpVars
<1>3. ASSUME NEW w \in Workers,
             \/ WorkerPopTimeout(w) \/ WorkerCheckRun(w) \/ WorkerSkip(w)
             \/ WorkerLock(w) \/ WorkerUnlock(w) \/ WorkerNoAddress(w)
      PROVE  Snmp'
  BY <1>3
     DEF WorkerPopTimeout, WorkerCheckRun, WorkerSkip, WorkerLock,
         WorkerUnlock, WorkerNoAddress, WorkerGoto, snmpVars
<1>4. ASSUME NEW w \in Workers, WorkerPeer(w)
      PROVE  Snmp'
  BY <1>4 DEF WorkerPeer, WorkerGoto
<1>5. ASSUME NEW w \in Workers, WorkerOpen(w) \/ WorkerOpenFails(w)
      PROVE  Snmp'
  BY <1>5 DEF WorkerOpen, WorkerOpenFails, WorkerGoto
<1>6. ASSUME NEW w \in Workers, WorkerMonitorQuiet(w) \/ WorkerMonitorSend(w)
      PROVE  Snmp'
  BY <1>6 DEF WorkerMonitorQuiet, WorkerMonitorSend, snmpVars
<1>7. ASSUME NEW w \in Workers, WorkerProcessed(w)
      PROVE  Snmp'
  BY <1>7 DEF WorkerProcessed, WorkerGoto
<1>8. ASSUME NEW w \in Workers, WorkerPut(w)
      PROVE  Snmp'
  BY <1>8 DEF WorkerPut, WorkerGoto, snmpVars
<1>9. CASE UNCHANGED <<wpc, wsensor, snmpVars>>
  BY <1>9 DEF snmpVars
<1>10. \/ UNCHANGED <<wpc, wsensor, snmpVars>>
       \/ \E w \in Workers : Worker(w)
  BY DEF Next, Exited, Signal, Main, MainLoop, MainGet, MainAdd, MainPassEnd,
         MainJoinWorkers, MainJoinPoll, MainDrain, MainExit, PollCheck,
         PollServe, BrokerSettles, vars, workerVars
<1> QED
  BY <1>1, <1>2, <1>3, <1>4, <1>5, <1>6, <1>7, <1>8, <1>9, <1>10 DEF Worker

-----------------------------------------------------------------------------
(* The invariants.                                                         *)

\* At start only the configuration array has references.
LEMMA PoolInvInit == Init => PoolInv
<1> SUFFICES ASSUME Init
             PROVE  PoolInv
  OBVIOUS
<1>1. TypeOK /\ alive = Sensors /\ Control /\ Snmp
  BY CountsAssumption, WorkersAssumption
     DEF Init, TypeOK, Control, WorkerHasSensor, LockOwned, Critical,
         ShutdownOrder, LateOnlyAfterLock, OneSensorAfterSignal, SentByOwner,
         Snmp, SnmpMutexOwned, SessionOfOwnSensor, Sensors, NoSensor
<1>2. ReferencesExact
  <2>1. ASSUME NEW s \in Sensors
        PROVE  refcnt[s] = References(s)
    <3>1. Occurrences(queue, s) = {} /\ Holders(s) = {} /\ ~MainHolds(s)
      BY DEF Init, Occurrences, Holders, MainHolds, Sensors, NoSensor
    <3>2. Cardinality(Occurrences(queue, s)) = 0 /\ Cardinality(Holders(s)) = 0
      BY <3>1, FS_EmptySet
    <3> QED
      BY <3>1, <3>2 DEF Init, References
  <2> QED
    BY <2>1 DEF ReferencesExact
<1> QED
  BY <1>1, <1>2 DEF PoolInv, Control, Snmp

LEMMA PoolInvStep == PoolInv /\ [Next]_vars => PoolInv'
BY TypeStep, ReferencesStep, ControlStep, SnmpStep DEF PoolInv, Control, Snmp

\* PoolInv is inductive: what every other proof below starts from.
THEOREM PoolInvariant == Spec => []PoolInv
BY PoolInvInit, PoolInvStep, PTL DEF Spec

\* Every variable keeps to its type, whatever the threads do.
THEOREM TypeCorrect == Spec => []TypeOK
<1>1. PoolInv => TypeOK
  BY DEF PoolInv
<1> QED
  BY <1>1, PoolInvariant, PTL

\* rb_sensor_get and rb_sensor_put balance on every path but the one of a
\* worker that stops with a sensor in its hand.
THEOREM CountingExact == Spec => []ReferencesExact
<1>1. PoolInv => ReferencesExact
  BY DEF PoolInv
<1> QED
  BY <1>1, PoolInvariant, PTL

\* sensor_done never runs while a thread can still reach the sensor.
THEOREM MemorySafe == Spec => []NoUseAfterFree
<1>1. PoolInv => NoUseAfterFree
  BY DEF PoolInv, NoUseAfterFree
<1> QED
  BY <1>1, PoolInvariant, PTL

\* trylock and unlock make the processing of a sensor exclusive.
THEOREM MutualExclusion == Spec => []ExclusiveProcessing
<1>1. PoolInv => ExclusiveProcessing
  <2> SUFFICES ASSUME PoolInv, NEW v \in Workers, NEW w \in Workers,
                      Critical(v), Critical(w), wsensor[v] = wsensor[w]
               PROVE  v = w
    BY DEF ExclusiveProcessing
  <2>1. wsensor[w] \in Sensors
    BY DEF PoolInv, WorkerHasSensor, Critical
  <2>2. lock[wsensor[w]] = v /\ lock[wsensor[w]] = w
    BY <2>1 DEF PoolInv, LockOwned
  <2> QED
    BY <2>2
<1> QED
  BY <1>1, PoolInvariant, PTL

\* The address of one sensor never ends in the session of another.
THEOREM OwnSession == Spec => []SessionOfOwnSensor
<1>1. PoolInv => SessionOfOwnSensor
  BY DEF PoolInv
<1> QED
  BY <1>1, PoolInvariant, PTL

\* A backlog in the queue never delays the shutdown by more than one sensor.
THEOREM PromptStop == Spec => []OneSensorAfterSignal
<1>1. PoolInv => OneSensorAfterSignal
  BY DEF PoolInv
<1> QED
  BY <1>1, PoolInvariant, PTL

\* The order of the joins and of the drain makes the exit clean.
THEOREM ExitIsClean == Spec => []CleanExit
<1>1. PoolInv => CleanExit
  BY DEF PoolInv, ShutdownOrder, CleanExit
<1> QED
  BY <1>1, PoolInvariant, PTL

\* Messages of two iterations over a sensor do not interleave.
THEOREM MessageOrder == Spec => OrderedMessages
<1> DEFINE Ordered == \A s \in Sensors : sent'[s] = 0 \/ sent'[s] >= sent[s]
<1>1. ASSUME PoolInv, [Next]_vars
      PROVE  Ordered
  <2>1. sent \in [Sensors -> Nat] /\ \A s \in Sensors : sent[s] >= sent[s]
    BY <1>1, CountsAssumption DEF PoolInv, TypeOK
  <2>2. ASSUME NEW w \in Workers, WorkerLock(w)
        PROVE  Ordered
    BY <2>1, <2>2 DEF WorkerLock
  <2>3. ASSUME NEW w \in Workers, WorkerMonitorSend(w)
        PROVE  Ordered
    <3>1. /\ wsensor[w] \in Sensors
          /\ sent[wsensor[w]] <= wstep[w]
          /\ wstep[w] \in Nat
      BY <1>1, <2>3, CountsAssumption
         DEF WorkerMonitorSend, PoolInv, TypeOK, WorkerHasSensor, SentByOwner,
             Critical
    <3> QED
      BY <2>1, <2>3, <3>1 DEF WorkerMonitorSend
  <2>4. CASE UNCHANGED sent
    BY <2>1, <2>4
  <2>5. UNCHANGED sent
          \/ \E w \in Workers : WorkerLock(w) \/ WorkerMonitorSend(w)
    BY <1>1
       DEF Next, Exited, Signal, Main, MainLoop, MainGet, MainAdd, MainPassEnd,
           MainJoinWorkers, MainJoinPoll, MainDrain, MainExit, Worker,
           WorkerOuter, WorkerPop, WorkerPopTimeout, WorkerCheckRun, WorkerSkip,
           WorkerNoAddress, WorkerPeer, WorkerOpen, WorkerOpenFails,
           WorkerMonitorQuiet, WorkerProcessed, WorkerUnlock, WorkerPut,
           PollCheck, PollServe, BrokerSettles, vars, history
  <2> QED
    BY <2>2, <2>3, <2>4, <2>5
<1>2. PoolInv /\ [Next]_vars => [Ordered]_vars
  BY <1>1
<1> QED
  BY <1>2, PoolInvariant, PTL DEF Spec, OrderedMessages

-----------------------------------------------------------------------------
(* The pool implements SensorService.                                      *)

\* Steps that do not show: the service sees neither the queue, nor counters,
\* nor where the threads are.
LEMMA Invisible ==
  ASSUME PoolInv,
         UNCHANGED <<run, lock, pending, reports, sent>>,
         mainPc' = "done" <=> mainPc = "done"
  PROVE  UNCHANGED Service!vars
BY DEF Service!vars, Phase, Busy, Outq

LEMMA ServiceInit == Init => Service!Init
<1> SUFFICES ASSUME Init
             PROVE  Service!Init
  OBVIOUS
<1>1. {s \in Sensors : Busy(s)} = {}
  BY DEF Init, Busy
<1> QED
  BY <1>1 DEF Init, Service!Init, Service!Sensors, Sensors, Phase, Outq

LEMMA ServiceStep ==
  ASSUME PoolInv, [Next]_vars
  PROVE  [Service!Next]_(Service!vars)
<1> DEFINE Serving == {s \in Sensors : Busy(s)}
<1>0. /\ run => mainPc # "done"
      /\ pollPc = "poll" => mainPc # "done"
      /\ \A w \in Workers : wpc[w] # "ended" => mainPc # "done"
      /\ \A w \in Workers : Critical(w) =>
           wsensor[w] \in Sensors /\ lock[wsensor[w]] = w
  BY DEF PoolInv, ShutdownOrder, LockOwned, WorkerHasSensor, Critical
<1>1. CASE Signal
  <2>1. Phase = "up" /\ Phase' = "stopping"
    BY <1>0, <1>1 DEF Signal, Phase, mainVars
  <2>2. UNCHANGED <<Serving, sent, Outq>>
    BY <1>1 DEF Signal, Busy, Outq, history, kafkaVars
  <2> QED
    BY <2>1, <2>2 DEF Service!Next, Service!Stop
<1>2. CASE MainExit
  <2>1. Phase = "stopping" /\ Phase' = "stopped"
    BY <1>2 DEF MainExit, MainGoto, Phase, PoolInv, ShutdownOrder
  <2>2. Serving = {}
    <3>1. \A s \in Sensors, w \in Workers : lock[s] # w
      BY <1>2 DEF MainExit, MainGoto, PoolInv, ShutdownOrder, LockOwned, Critical
    <3> QED
      BY <3>1 DEF Busy, PoolInv, TypeOK
  <2>3. Outq = 0 /\ UNCHANGED <<Serving, sent, Outq>>
    BY <1>2 DEF MainExit, Busy, Outq, history, kafkaVars
  <2> QED
    BY <2>1, <2>2, <2>3 DEF Service!Next, Service!Exit
<1>3. CASE MainDrain \/ PollServe
  <2>1. Phase # "stopped" /\ UNCHANGED Phase
    BY <1>0, <1>3 DEF MainDrain, PollServe, Phase, mainVars
  <2>2. Outq' \in 0..Outq
    BY <1>3 DEF MainDrain, PollServe, Outq, PoolInv, TypeOK
  <2>3. UNCHANGED <<Serving, sent>>
    BY <1>3 DEF MainDrain, PollServe, Busy, history
  <2> QED
    BY <2>1, <2>2, <2>3 DEF Service!Next, Service!Settle
<1>4. ASSUME NEW w \in Workers, WorkerLock(w)
      PROVE  Service!Next
  <2> DEFINE s == wsensor[w]
  <2>1. s \in Sensors /\ wpc[w] = "trylock"
    BY <1>4 DEF WorkerLock, WorkerGoto, PoolInv, WorkerHasSensor
  <2>2. Phase # "stopped" /\ UNCHANGED <<Phase, Outq>>
    BY <1>0, <1>4, <2>1 DEF WorkerLock, Phase, Outq, mainVars, kafkaVars
  <2>3. s \notin Serving /\ Serving' = Serving \cup {s}
    BY <1>4, <2>1, WorkersAssumption
       DEF WorkerLock, Busy, PoolInv, TypeOK
  <2>4. sent' = [sent EXCEPT ![s] = 0]
    BY <1>4 DEF WorkerLock
  <2>5. Service!Begin(s)
    BY <2>2, <2>3, <2>4 DEF Service!Begin
  <2> QED
    BY <2>1, <2>5 DEF Service!Next, Service!Sensors, Sensors
<1>5. ASSUME NEW w \in Workers, WorkerMonitorSend(w)
      PROVE  Service!Next
  <2> DEFINE s == wsensor[w]
             m == wstep[w] + 1
  <2>1. /\ s \in Serving
        /\ s \in Sensors
        /\ sent[s] <= wstep[w]
    BY <1>0, <1>5, WorkersAssumption
       DEF WorkerMonitorSend, Busy, Critical, PoolInv, SentByOwner
  <2>2. m \in 1..NMonitors /\ m > sent[s]
    BY <1>5, <2>1, CountsAssumption DEF WorkerMonitorSend, PoolInv, TypeOK
  <2>3. sent' = [sent EXCEPT ![s] = m]
    BY <1>5 DEF WorkerMonitorSend
  <2>4. Outq' = IF Outq < MaxOutq THEN Outq + 1 ELSE Outq
    BY <1>5 DEF WorkerMonitorSend, Outq, PoolInv, TypeOK
  <2>5. UNCHANGED <<Phase, Serving>>
    BY <1>5 DEF WorkerMonitorSend, Phase, Busy, mainVars
  <2>6. Service!Report(s)
    BY <2>1, <2>2, <2>3, <2>4, <2>5 DEF Service!Report
  <2> QED
    BY <2>1, <2>6 DEF Service!Next, Service!Sensors, Sensors
<1>6. ASSUME NEW w \in Workers, WorkerUnlock(w)
      PROVE  Service!Next
  <2> DEFINE s == wsensor[w]
  <2>1. s \in Sensors /\ lock[s] = w
    BY <1>0, <1>6 DEF WorkerUnlock, WorkerGoto, Critical
  <2>2. s \in Serving /\ Serving' = Serving \ {s}
    BY <1>6, <2>1, WorkersAssumption DEF WorkerUnlock, Busy, PoolInv, TypeOK
  <2>3. UNCHANGED <<Phase, sent, Outq>>
    BY <1>6 DEF WorkerUnlock, Phase, Outq, mainVars, snmpVars, kafkaVars, history
  <2>4. Service!Finish(s)
    BY <2>2, <2>3 DEF Service!Finish
  <2> QED
    BY <2>1, <2>4 DEF Service!Next, Service!Sensors, Sensors
<1>7. CASE BrokerSettles
  <2>1. Outq' = Outq
    BY <1>7 DEF BrokerSettles, Outq, PoolInv, TypeOK
  <2> QED
    BY <1>7, <2>1 DEF BrokerSettles, Service!vars, Phase, Busy, mainVars, history
<1>8. CASE MainLoop \/ MainGet \/ MainAdd \/ MainPassEnd \/ MainJoinWorkers
             \/ MainJoinPoll
  BY <1>8, Invisible
     DEF MainLoop, MainGet, MainAdd, MainPassEnd, MainJoinWorkers,
         MainJoinPoll, MainGoto, snmpVars, kafkaVars, history
<1>9. ASSUME NEW w \in Workers,
             \/ WorkerOuter(w) \/ WorkerPop(w) \/ WorkerPopTimeout(w)
             \/ WorkerCheckRun(w) \/ WorkerSkip(w) \/ WorkerMonitorQuiet(w)
             \/ WorkerNoAddress(w) \/ WorkerPeer(w) \/ WorkerOpen(w)
             \/ WorkerOpenFails(w) \/ WorkerProcessed(w) \/ WorkerPut(w)
      PROVE  UNCHANGED Service!vars
  BY <1>9, Invisible
     DEF WorkerOuter, WorkerPop, WorkerPopTimeout, WorkerCheckRun, WorkerSkip,
         WorkerNoAddress, WorkerPeer, WorkerOpen, WorkerOpenFails,
         WorkerMonitorQuiet, WorkerProcessed, WorkerPut, mainVars, kafkaVars,
         history
<1>10. CASE PollCheck \/ UNCHANGED vars
  BY <1>10, Invisible DEF PollCheck, vars, mainVars, snmpVars, kafkaVars, history
<1> QED
  BY <1>1, <1>2, <1>3, <1>4, <1>5, <1>6, <1>7, <1>8, <1>9, <1>10
     DEF Next, Exited, Main, Worker

\* Whatever the number of sensors and workers, every behaviour of the threads
\* is a behaviour of the service.
THEOREM Refinement == Spec => ImplementsService
<1>1. PoolInv /\ [Next]_vars => [Service!Next]_(Service!vars)
  BY ServiceStep
<1> QED
  BY <1>1, ServiceInit, PoolInvariant, PTL
     DEF Spec, ImplementsService, Service!Spec

=============================================================================
