---------------------------- MODULE ZkLeaderProofs ----------------------------
(***************************************************************************)
(* Proofs about ZkLeader: the leader's mutex is that of ZkMutex, and only  *)
(* the instance that has it pushes, for any set of instances, any          *)
(* configuration and any bounds.                                           *)
(***************************************************************************)
EXTENDS ZkLeader, ZkMutexProofs

\* Every step of the leader is one of its mutex, or leaves the mutex alone.
LEMMA LeaderStep ==
  ASSUME [LeaderNext]_leaderVars
  PROVE  [Next]_vars
<1>1. CASE UNCHANGED leaderVars
  BY <1>1 DEF leaderVars
<1>2. ASSUME NEW p \in Procs, Electing(p) PROVE [Next]_vars
  BY <1>2 DEF Electing, Keeping, LoseLead, BecomeLeader, Next, Session, Ordinary
<1>3. ASSUME NEW p \in Procs, TimerFires(p) \/ Working(p) PROVE UNCHANGED vars
  BY <1>3 DEF TimerFires, Working, PushSensors, PushArrives, PushUnconnected,
              Advance
<1>4. ASSUME NEW p \in Procs, LeaderFaults(p) PROVE [Next]_vars
  BY <1>4 DEF LeaderFaults, Next, Faults
<1>5. CASE LeftoverExpires
  BY <1>5 DEF Next
<1> QED
  BY <1>1, <1>2, <1>3, <1>4, <1>5 DEF LeaderNext

\* The election is the mutex of ZkMutex, so what is proved of the mutex holds
\* of it (rb_monitor_zk.c:340-397 over rb_zk.c).
THEOREM LeaderMutex == LeaderSpec => Spec
<1>1. LeaderInit => Init
  BY DEF LeaderInit
<1> QED
  BY <1>1, LeaderStep, PTL DEF LeaderSpec, Spec

THEOREM LeaderMutexInvariant == LeaderSpec => []MutexInv
BY LeaderMutex, MutexInvariant, PTL

\* The instances never all wait to become the leader: where no request, reply or
\* event is left one of them is, unless a node of a mutex that was freed or
\* stranded by the error answer to its listing is kept alive
\* (try_to_be_master, rb_monitor_zk.c:376-397).
THEOREM LeaderAtRest == LeaderSpec => []AtRestSomeoneHolds
BY LeaderMutex, NoCircleOfWaits, PTL

-----------------------------------------------------------------------------
(* Only the instance that has the mutex pushes.                            *)

TimerOfHolder ==
  \A p \in Procs : timer[p] <=> \E s \in Slots : mutex[p][s].st = "first"

LeaderInv == MutexInv /\ LeaderTypeOK /\ TimerOfHolder

LEMMA SinglePusherByInv == LeaderInv => SinglePusher
<1> SUFFICES ASSUME LeaderInv PROVE SinglePusher
  OBVIOUS
<1>1. \A p \in Procs, s \in Slots : Holds(p, s) <=> mutex[p][s].st = "first"
  BY HoldsFirst DEF LeaderInv
<1>2. MutualExclusion
  BY InvExcludes DEF LeaderInv
<1> QED
  BY <1>1, <1>2 DEF LeaderInv, TimerOfHolder, SinglePusher, MutualExclusion

LEMMA LeaderInitInv == LeaderInit => LeaderInv
<1> SUFFICES ASSUME LeaderInit PROVE LeaderInv
  OBVIOUS
<1>1. MutexInv
  BY InitInv DEF LeaderInit
<1>2. \A p \in Procs, s \in Slots : mutex[p][s].st # "first"
  BY DEF LeaderInit, Init, Mutex
<1>3. LeaderTypeOK
  BY <1>1, CallsAssumption, PushedAssumption DEF LeaderInit, LeaderTypeOK, MutexInv
<1> QED
  BY <1>1, <1>2, <1>3 DEF LeaderInv, TimerOfHolder, LeaderInit

\* A step that leaves the timers alone and makes or ends no holder.
LEMMA SameHolders ==
  ASSUME TimerOfHolder, UNCHANGED timer,
         \A p \in Procs, s \in Slots :
           mutex'[p][s].st = "first" <=> mutex[p][s].st = "first"
  PROVE  TimerOfHolder'
BY DEF TimerOfHolder

LEMMA BecomeLeaderStep ==
  ASSUME LeaderInv, MutexInv', NEW p \in Procs, NEW s \in Slots,
         BecomeLeader(p, s)
  PROVE  LeaderInv'
<1> DEFINE m == [mutex[p][s] EXCEPT !.st = "first", !.obtained = TRUE]
<1>1. /\ MutexInv /\ LeaderTypeOK /\ TimerOfHolder
      /\ Delivering(p) /\ Set(p, s, m) /\ UNCHANGED <<conn, worker>>
      /\ timer' = [timer EXCEPT ![p] = TRUE]
  BY DEF LeaderInv, BecomeLeader, Obtained
<1>2. m \in Mutexes /\ m.st = "first"
  BY <1>1, SlotFacts DEF Mutexes, Paths
<1>3. /\ mutex'[p][s] = m
      /\ \A q \in Procs, t \in Slots :
           q # p \/ t # s => mutex'[q][t] = mutex[q][t]
  BY <1>1, <1>2, SetSlot
<1>4. timer \in [Procs -> BOOLEAN]
  BY <1>1 DEF LeaderTypeOK
<1>5. TimerOfHolder'
  <2> HIDE DEF m
  <2>1. timer'[p] /\ \E t \in Slots : mutex'[p][t].st = "first"
    BY <1>1, <1>2, <1>3, <1>4
  <2>2. ASSUME NEW q \in Procs, q # p
        PROVE  timer'[q] <=> \E t \in Slots : mutex'[q][t].st = "first"
    BY <1>1, <1>3, <1>4, <2>2 DEF TimerOfHolder
  <2> QED
    BY <2>1, <2>2 DEF TimerOfHolder
<1>6. LeaderTypeOK'
  <2>1. conn[p] # "dead"
    BY <1>1 DEF Delivering
  <2> QED
    BY <1>1, <2>1 DEF LeaderTypeOK, MutexInv, worker
<1> QED
  BY <1>5, <1>6 DEF LeaderInv

LEMMA LoseLeadStep ==
  ASSUME LeaderInv, MutexInv', NEW p \in Procs, LoseLead(p)
  PROVE  LeaderInv'
<1>1. /\ MutexInv /\ LeaderTypeOK /\ TimerOfHolder
      /\ conn' = [conn EXCEPT ![p] = "down"]
      /\ mutex' = [mutex EXCEPT ![p] = [s \in Slots |->
                     IF @[s].st \in {"free", "pending"} THEN @[s]
                     ELSE Mutex("pending")]]
      /\ UNCHANGED worker
      /\ timer' = [timer EXCEPT ![p] =
           @ /\ \A s \in Slots : mutex[p][s].st \in {"free", "pending"}]
  BY DEF LeaderInv, LoseLead, CleanMutex
<1>2. /\ timer \in [Procs -> BOOLEAN]
      /\ conn \in [Procs -> {"up", "lost", "down", "dead"}]
      /\ mutex \in [Procs -> [Slots -> Mutexes]]
  BY <1>1 DEF LeaderTypeOK, TypeOK
<1>3. timer' = [timer EXCEPT ![p] = FALSE]
  <2>1. CASE \E s \in Slots : mutex[p][s].st = "first"
    <3>1. ~ \A s \in Slots : mutex[p][s].st \in {"free", "pending"}
      BY <2>1
    <3> QED
      BY <1>1, <3>1
  <2>2. CASE ~ \E s \in Slots : mutex[p][s].st = "first"
    <3>1. timer[p] = FALSE
      BY <1>1, <1>2, <2>2 DEF TimerOfHolder
    <3> QED
      BY <1>1, <3>1
  <2> QED
    BY <2>1, <2>2
<1>4. /\ \A s \in Slots : mutex'[p][s].st # "first"
      /\ \A q \in Procs, s \in Slots : q # p => mutex'[q][s] = mutex[q][s]
  BY <1>1, <1>2 DEF Mutex
<1>5. TimerOfHolder'
  <2>1. ~ timer'[p] /\ ~ \E s \in Slots : mutex'[p][s].st = "first"
    BY <1>2, <1>3, <1>4
  <2>2. ASSUME NEW q \in Procs, q # p
        PROVE  timer'[q] <=> \E s \in Slots : mutex'[q][s].st = "first"
    <3>1. timer'[q] = timer[q]
      BY <1>2, <1>3, <2>2
    <3>2. \A s \in Slots : mutex'[q][s] = mutex[q][s]
      BY <1>4, <2>2
    <3> QED
      BY <1>1, <3>1, <3>2 DEF TimerOfHolder
  <2> QED
    BY <2>1, <2>2 DEF TimerOfHolder
<1>6. LeaderTypeOK'
  BY <1>1, <1>2, <1>3 DEF LeaderTypeOK, MutexInv, worker
<1> QED
  BY <1>5, <1>6 DEF LeaderInv

\* What the election does otherwise makes no holder and ends none.
LEMMA KeepingStep ==
  ASSUME LeaderInv, MutexInv', NEW p \in Procs, Keeping(p)
  PROVE  LeaderInv'
<1>1. MutexInv /\ LeaderTypeOK /\ TimerOfHolder
  BY DEF LeaderInv
<1>2. UNCHANGED <<timer, worker>> /\ mutex \in [Procs -> [Slots -> Mutexes]]
      /\ conn \in [Procs -> {"up", "lost", "down", "dead"}]
  BY <1>1 DEF Keeping, LeaderTypeOK, TypeOK
<1>3. \A q \in Procs : conn'[q] = "dead" => conn[q] = "dead"
  BY <1>2 DEF Keeping, DoPendingLocks, Reconnect, Restart, CreateMutexNode,
              CreateMutexNodeComplete, GetChildren, WatchPrevious, PreviousGone,
              PreviousLeaderWatcher
<1>4. LeaderTypeOK'
  BY <1>1, <1>2, <1>3 DEF LeaderTypeOK, MutexInv, worker
<1>5. \A q \in Procs, t \in Slots :
        mutex'[q][t].st = "first" <=> mutex[q][t].st = "first"
  <2>1. CASE DoPendingLocks(p)
    BY <1>2, <2>1 DEF DoPendingLocks, Mutexes
  <2>2. CASE Reconnect(p)
    BY <2>2 DEF Reconnect
  <2>3. CASE Restart(p)
    <3>1. 1 \in Slots
      BY BoundsAssumption DEF Slots
    <3>2. conn[p] = "dead"
      BY <2>3 DEF Restart
    <3>3. mutex[p][1].st # "first"
      BY <1>1, <3>1, <3>2 DEF MutexInv, SessionEventSeen
    <3> QED
      BY <1>2, <2>3, <3>3 DEF Restart, Set, Mutex
  <2>4. ASSUME NEW s \in Slots,
               \/ CreateMutexNode(p, s) \/ CreateMutexNodeComplete(p, s)
               \/ GetChildren(p, s) \/ WatchPrevious(p, s) \/ PreviousGone(p, s)
               \/ PreviousLeaderWatcher(p, s)
        PROVE  \A q \in Procs, t \in Slots :
                 mutex'[q][t].st = "first" <=> mutex[q][t].st = "first"
    <3>1. mutex[p][s].st # "first"
          /\ \E m \in Mutexes : Set(p, s, m) /\ m.st # "first"
      BY <1>1, <2>4, RequestSlot
    <3> QED
      BY <1>2, <3>1 DEF Set
  <2> QED
    BY <2>1, <2>2, <2>3, <2>4 DEF Keeping
<1> QED
  BY <1>1, <1>2, <1>4, <1>5, SameHolders DEF LeaderInv

\* The timer fires and the worker pushes.
LEMMA WorkingStep ==
  ASSUME LeaderInv, MutexInv', NEW p \in Procs, TimerFires(p) \/ Working(p)
  PROVE  LeaderInv'
<1>1. MutexInv /\ LeaderTypeOK /\ TimerOfHolder
  BY DEF LeaderInv
<1>2. UNCHANGED <<vars, timer>>
  BY DEF TimerFires, Working, PushSensors, PushArrives, PushUnconnected, Advance
<1>3. UNCHANGED <<conn, mutex, timer>>
  BY <1>2 DEF vars
<1>4. TimerOfHolder'
  BY <1>1, <1>3, SameHolders
<1>5. LeaderTypeOK'
  <2>1. CASE TimerFires(p)
    <3>1. conn[p] # "dead" /\ calls[p] + 1 \in 0..MaxCalls
      BY <1>1, <2>1, CallsAssumption DEF TimerFires, LeaderTypeOK
    <3> QED
      BY <1>1, <1>3, <2>1, <3>1 DEF TimerFires, LeaderTypeOK, MutexInv
  <2>2. CASE PushSensors(p)
    <3>1. conn[p] # "dead" /\ calls[p] - 1 \in 0..MaxCalls /\ 1 \in 0..NPushed
      BY <1>1, <2>2, CallsAssumption, PushedAssumption
         DEF PushSensors, LeaderTypeOK
    <3> QED
      BY <1>1, <1>3, <2>2, <3>1 DEF PushSensors, LeaderTypeOK, MutexInv
  <2>3. ASSUME NEW k \in Positions, PushArrives(p, k) \/ PushUnconnected(p, k)
        PROVE  LeaderTypeOK'
    <3> DEFINE next == IF k = NPushed THEN 0 ELSE k + 1
    <3>1. /\ conn[p] # "dead" /\ UNCHANGED calls
          /\ position' = [position EXCEPT ![p] = next]
      BY <2>3 DEF PushArrives, PushUnconnected, Advance
    <3>2. next \in 0..NPushed
      BY PushedAssumption DEF Positions
    <3> HIDE DEF next
    <3> QED
      BY <1>1, <1>3, <3>1, <3>2 DEF LeaderTypeOK, MutexInv
  <2> QED
    BY <2>1, <2>2, <2>3 DEF Working
<1> QED
  BY <1>4, <1>5 DEF LeaderInv

\* The process dies, and its timer and its worker with it.
LEMMA LeaderGoneStep ==
  ASSUME LeaderInv, MutexInv', NEW p \in Procs, Die(p), LeaderGone(p)
  PROVE  LeaderInv'
<1>1. MutexInv /\ LeaderTypeOK /\ TimerOfHolder
  BY DEF LeaderInv
<1>2. /\ timer \in [Procs -> BOOLEAN] /\ calls \in [Procs -> 0..MaxCalls]
      /\ position \in [Procs -> 0..NPushed]
      /\ conn \in [Procs -> {"up", "lost", "down", "dead"}]
      /\ mutex \in [Procs -> [Slots -> Mutexes]]
  BY <1>1 DEF LeaderTypeOK, TypeOK
<1>3. /\ conn' = [conn EXCEPT ![p] = "dead"]
      /\ mutex' = [mutex EXCEPT ![p] = [s \in Slots |-> Mutex("free")]]
      /\ timer' = [timer EXCEPT ![p] = FALSE]
      /\ calls' = [calls EXCEPT ![p] = 0]
      /\ position' = [position EXCEPT ![p] = 0]
  BY DEF Die, LeaderGone
<1>4. LeaderTypeOK'
  BY <1>1, <1>2, <1>3, CallsAssumption, PushedAssumption
     DEF LeaderTypeOK, MutexInv
<1>5. TimerOfHolder'
  <2>1. ~ timer'[p] /\ ~ \E s \in Slots : mutex'[p][s].st = "first"
    BY <1>2, <1>3 DEF Mutex
  <2>2. ASSUME NEW q \in Procs, q # p
        PROVE  timer'[q] <=> \E s \in Slots : mutex'[q][s].st = "first"
    <3>1. timer'[q] = timer[q] /\ mutex'[q] = mutex[q]
      BY <1>2, <1>3, <2>2
    <3> QED
      BY <1>1, <3>1 DEF TimerOfHolder
  <2> QED
    BY <2>1, <2>2 DEF TimerOfHolder
<1> QED
  BY <1>4, <1>5 DEF LeaderInv

\* A fault that the process survives, or the end of another's session.
LEMMA SurvivedStep ==
  ASSUME LeaderInv, MutexInv', UNCHANGED <<mutex, timer, worker>>,
         \A q \in Procs : conn'[q] = "dead" => conn[q] = "dead"
  PROVE  LeaderInv'
<1>1. MutexInv /\ LeaderTypeOK /\ TimerOfHolder
  BY DEF LeaderInv
<1>2. TimerOfHolder'
  BY <1>1, SameHolders
<1>3. LeaderTypeOK'
  BY <1>1 DEF LeaderTypeOK, MutexInv, worker
<1> QED
  BY <1>2, <1>3 DEF LeaderInv

\* A request that is answered with an error neither makes nor ends a leader.
LEMMA RefusedLeaderStep ==
  ASSUME LeaderInv, MutexInv', NEW p \in Procs, NEW s \in Slots,
         Refused(p, s), UNCHANGED <<timer, worker>>
  PROVE  LeaderInv'
<1>1. MutexInv /\ LeaderTypeOK /\ TimerOfHolder
  BY DEF LeaderInv
<1>2. UNCHANGED conn
  BY <1>1, RefusedSlot DEF RequestFails
<1>3. LeaderTypeOK'
  BY <1>1, <1>2 DEF LeaderTypeOK, MutexInv, worker
<1>4. mutex[p][s] \in Mutexes
  BY <1>1, SlotFacts
<1>5. mutex[p][s].st # "first" /\ \E m \in Mutexes : Set(p, s, m) /\ m.st # "first"
  BY <1>1, <1>4, RefusedSlot DEF Mutex, Mutexes
<1>6. \A q \in Procs, t \in Slots :
        mutex'[q][t].st = "first" <=> mutex[q][t].st = "first"
  BY <1>1, <1>5, SetSlot
<1> QED
  BY <1>1, <1>3, <1>6, SameHolders DEF LeaderInv

LEMMA LeaderFaultsStep ==
  ASSUME LeaderInv, MutexInv', NEW p \in Procs, LeaderFaults(p)
  PROVE  LeaderInv'
<1>1. conn \in [Procs -> {"up", "lost", "down", "dead"}]
  BY DEF LeaderInv, LeaderTypeOK, TypeOK
<1>2. CASE (LoseConnection(p) \/ SessionExpires(p)) /\ UNCHANGED <<timer, worker>>
  <2>1. UNCHANGED mutex /\ \A q \in Procs : conn'[q] = "dead" => conn[q] = "dead"
    BY <1>1, <1>2 DEF LoseConnection, SessionExpires
  <2> QED
    BY <1>2, <2>1, SurvivedStep
<1>3. CASE (Crash(p) \/ DoubleFree(p)) /\ LeaderGone(p)
  BY <1>3, LeaderGoneStep DEF Crash, DoubleFree
<1>4. CASE /\ StaleWatcher(p)
           /\ IF conn'[p] = "dead" THEN LeaderGone(p)
              ELSE UNCHANGED <<timer, worker>>
  <2>1. CASE Die(p)
    <3>1. conn'[p] = "dead"
      BY <1>1, <2>1 DEF Die
    <3> QED
      BY <1>4, <2>1, <3>1, LeaderGoneStep
  <2>2. CASE UNCHANGED <<conn, mutex, nodes>>
    <3>1. conn'[p] # "dead"
      BY <1>4, <2>2 DEF StaleWatcher
    <3> QED
      BY <1>4, <2>2, <3>1, SurvivedStep
  <2> QED
    BY <1>4, <2>1, <2>2 DEF StaleWatcher
<1>5. CASE (\E s \in Slots : Refused(p, s)) /\ UNCHANGED <<timer, worker>>
  BY <1>5, RefusedLeaderStep
<1> QED
  BY <1>2, <1>3, <1>4, <1>5 DEF LeaderFaults

LEMMA LeaderStepInv ==
  ASSUME LeaderInv, [LeaderNext]_leaderVars
  PROVE  LeaderInv'
<1>1. MutexInv'
  BY LeaderStep, StepInv DEF LeaderInv
<1>2. CASE UNCHANGED leaderVars
  BY <1>1, <1>2, SurvivedStep DEF leaderVars, vars
<1>3. CASE LeftoverExpires /\ UNCHANGED <<timer, worker>>
  BY <1>1, <1>3, SurvivedStep DEF LeftoverExpires
<1>4. ASSUME NEW p \in Procs, Electing(p) PROVE LeaderInv'
  BY <1>1, <1>4, KeepingStep, LoseLeadStep, BecomeLeaderStep DEF Electing
<1>5. ASSUME NEW p \in Procs, TimerFires(p) \/ Working(p) \/ LeaderFaults(p)
      PROVE  LeaderInv'
  BY <1>1, <1>5, WorkingStep, LeaderFaultsStep
<1> QED
  BY <1>2, <1>3, <1>4, <1>5 DEF LeaderNext

\* The timer of an instance runs exactly while it has the mutex, whatever
\* connections, sessions and processes end in between.
THEOREM LeaderInvariant == LeaderSpec => []LeaderInv
BY LeaderInitInv, LeaderStepInv, PTL DEF LeaderSpec

\* At most one instance starts to push the sensors, for any number of them
\* (leader_lock_status_chage_cb, rb_monitor_zk.c:340-364).
THEOREM OnePusher == LeaderSpec => []SinglePusher
BY LeaderInvariant, SinglePusherByInv, PTL

\* A process that is gone has neither timer nor calls, and no call goes past
\* the end of push_sensors_list.
THEOREM LeaderTypeCorrect == LeaderSpec => []LeaderTypeOK
<1>1. LeaderInv => LeaderTypeOK
  BY DEF LeaderInv
<1> QED
  BY <1>1, LeaderInvariant, PTL

=============================================================================
