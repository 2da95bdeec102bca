---------------------------- MODULE ZkQueueProofs -----------------------------
(***************************************************************************)
(* Proofs about ZkQueue, for any set of instances and any bounds: the      *)
(* mutex keeps its promises whatever its pop does, and the queue loses no  *)
(* element, keeps their order and explains its duplicates.                 *)
(***************************************************************************)
EXTENDS ZkQueue, ZkMutexProofs, FiniteSetTheorems

-----------------------------------------------------------------------------
(* The mutex under the queue.                                              *)

\* What the queue does to its mutex beside the steps of ZkMutex: it locks
\* another, dies, or only counts a fault.
LockMove(p) ==
  \/ [Next]_vars
  \/ Die(p) /\ UNCHANGED <<nextNode, faults, granted>>
  \/ /\ \E s \in FreeSlots(p) : Set(p, s, Mutex("pending"))
     /\ UNCHANGED <<conn, stale, nodes, nextNode, granted>>
     /\ faults' \in 0..MaxFaults
  \/ /\ UNCHANGED <<conn, mutex, stale, nodes, nextNode, granted>>
     /\ faults' \in 0..MaxFaults

LEMMA LoopStartSlot ==
  ASSUME NEW p \in Procs, LoopStart(p)
  PROVE  \E s \in FreeSlots(p) : Set(p, s, Mutex("pending"))
<1>1. FreeSlots(p) \in SUBSET Nat /\ FreeSlots(p) # {}
  BY DEF LoopStart, FreeSlots, Slots
<1>2. Min(FreeSlots(p)) \in FreeSlots(p)
  BY <1>1, MinMember
<1> QED
  BY <1>2 DEF LoopStart, Set

LEMMA QueueMoves ==
  ASSUME MutexInv, QueueNext
  PROVE  [Next]_vars \/ \E p \in Procs : LockMove(p)
<1>1. faults \in 0..MaxFaults
  BY DEF MutexInv, TypeOK
<1>2. ASSUME NEW p \in Procs, NEW s \in Slots, Locking(p, s)
      PROVE  [Next]_vars
  BY <1>2 DEF Locking, Next, Ordinary
<1>3. ASSUME NEW p \in Procs, NEW s \in Slots, Popping(p, s)
      PROVE  [Next]_vars
  BY <1>3 DEF Popping, PopNolock, ListQueue, PopMinimum, ListQueueAndWatch,
              ChildWatcher, GetElement, QueueGetElement, DeleteElement,
              QueueDeleteCompleted, PopOnly, Next, Ordinary
<1>4. ASSUME NEW p \in Procs, LateCompletion(p)
      PROVE  LockMove(p)
  BY <1>1, <1>4, LoopStartSlot DEF LateCompletion, LockMove
<1>5. ASSUME NEW p \in Procs, QueueSession(p)
      PROVE  LockMove(p)
  BY <1>4, <1>5 DEF QueueSession, QueueCleanMutex, LockMove, Next, Session
<1>6. ASSUME NEW p \in Procs, QueueFaults(p)
      PROVE  LockMove(p)
  BY <1>1, <1>6 DEF QueueFaults, StaleChildWatcher, LockMove, Next, Faults
<1>7. ASSUME NEW p \in Procs, NEW s \in Slots, PopFails(p, s) \/ DeleteFails(p, s)
      PROVE  LockMove(p)
  <2>1. faults' \in 0..MaxFaults
    BY <1>1, <1>7, BoundsAssumption DEF PopFails, DeleteFails
  <2> QED
    BY <1>7, <2>1, LoopStartSlot DEF PopFails, DeleteFails, LockMove
<1>8. Push => UNCHANGED vars
  BY DEF Push
<1>9. LeftoverExpires => Next
  BY DEF Next
<1> QED
  BY <1>2, <1>3, <1>5, <1>6, <1>7, <1>8, <1>9 DEF QueueNext, Progress

LEMMA LockMoveInv ==
  ASSUME MutexInv, NEW p \in Procs, LockMove(p)
  PROVE  MutexInv'
<1>1. conn \in [Procs -> {"up", "lost", "down", "dead"}]
      /\ stale \in [Procs -> SUBSET (1..MaxNodes)] /\ faults \in 0..MaxFaults
  BY DEF MutexInv, TypeOK
<1>2. CASE Die(p) /\ UNCHANGED <<nextNode, faults, granted>>
  BY <1>1, <1>2, DieStep
<1>3. CASE /\ \E s \in FreeSlots(p) : Set(p, s, Mutex("pending"))
           /\ UNCHANGED <<conn, stale, nodes, nextNode, granted>>
           /\ faults' \in 0..MaxFaults
  BY <1>1, <1>3, NewLockStep DEF FreeSlots
<1>4. CASE /\ UNCHANGED <<conn, mutex, stale, nodes, nextNode, granted>>
           /\ faults' \in 0..MaxFaults
  <2>1. \A q \in Procs, t \in Slots :
          mutex[q][t].st \notin NoPath \cup {"deleted"} =>
            [seq |-> mutex[q][t].node, owner |-> q, live |-> TRUE] \in nodes'
    BY <1>4, SlotFacts DEF SlotOK
  <2> QED
    BY <1>1, <1>4, <2>1, MutexesUntouched
<1> QED
  BY <1>2, <1>3, <1>4, StepInv DEF LockMove

LEMMA LockMoveLock ==
  ASSUME MutexInv, MutexInv', NEW p \in Procs, LockMove(p)
  PROVE  [Lock!Next]_(Lock!vars)
<1>1. CASE Die(p) /\ UNCHANGED <<nextNode, faults, granted>>
  BY <1>1, QuietDie
<1>2. CASE /\ \E s \in FreeSlots(p) : Set(p, s, Mutex("pending"))
           /\ UNCHANGED <<conn, stale, nodes, nextNode, granted>>
  BY <1>2, QuietNewLock DEF FreeSlots
<1>3. CASE UNCHANGED <<conn, mutex, stale, nodes, nextNode, granted>>
  BY <1>3, QuietNodes DEF Numbers
<1> QED
  BY <1>1, <1>2, <1>3, LockStep DEF LockMove

LEMMA QueueMutexStep ==
  ASSUME MutexInv, [QueueNext]_allVars
  PROVE  MutexInv' /\ [Lock!Next]_(Lock!vars)
<1>1. CASE UNCHANGED allVars
  <2>1. [Next]_vars
    BY <1>1 DEF allVars
  <2> QED
    BY <2>1, StepInv, LockStep
<1>2. CASE QueueNext
  BY <1>2, QueueMoves, StepInv, LockStep, LockMoveInv, LockMoveLock
<1> QED
  BY <1>1, <1>2

\* The mutex keeps its invariant whatever its pop does and however it fails.
THEOREM QueueMutexInvariant == QueueSpec => []MutexInv
<1>1. QueueInit => MutexInv
  BY InitInv DEF QueueInit
<1> QED
  BY <1>1, QueueMutexStep, PTL DEF QueueSpec

\* At most one pop of all the instances has the queue's mutex
\* (rb_zk_queue_pop, rb_zk.c:861-884).
THEOREM QueueExclusion == QueueSpec => []MutualExclusion
BY QueueMutexInvariant, InvExcludes, PTL

\* The mutex of the queue is the lock of ZkLock, new loops, failed requests and
\* late completions included.
THEOREM QueueLockImplemented == QueueSpec => ImplementsLock
<1>1. QueueInit => Lock!Init
  BY LockInit DEF QueueInit
<1>2. MutexInv /\ [QueueNext]_allVars => [Lock!Next]_(Lock!vars)
  BY QueueMutexStep
<1> QED
  BY <1>1, <1>2, QueueMutexInvariant, PTL DEF QueueSpec, ImplementsLock, Lock!Spec

-----------------------------------------------------------------------------
(* The elements.                                                           *)

LEMMA QueueFacts ==
  ASSUME QueueInv
  PROVE  /\ MutexInv
         /\ mutex \in [Procs -> [Slots -> Mutexes]]
         /\ pop \in [Procs -> [Slots -> Pops]]
         /\ late \in [Procs -> 0..MaxMutexes]
         /\ staleChild \in [Procs -> Watches]
         /\ elements \subseteq Elements
         /\ nextElement \in 1..(MaxElements + 1)
         /\ delivered \in [Elements -> Nat]
         /\ cut \in [Elements -> Nat]
         /\ Pushed \subseteq Elements
<1>1. nextElement \in 1..(MaxElements + 1)
  BY DEF QueueInv, QueueTypeOK
<1>2. Pushed \subseteq Elements
  BY <1>1, ElementsAssumption DEF Pushed, Elements
<1> QED
  BY <1>2 DEF QueueInv, QueueTypeOK, MutexInv, TypeOK

\* Only the pop under the mutex works.
LEMMA OnePopWorks ==
  ASSUME QueueInv,
         NEW p \in Procs, NEW q \in Procs, NEW s \in Slots, NEW t \in Slots,
         pop[p][s].st # "idle", pop[q][t].st # "idle"
  PROVE  p = q /\ s = t
<1>1. mutex[p][s].st = "first" /\ mutex[q][t].st = "first"
  BY DEF QueueInv, QueueTypeOK
<1>2. Holds(p, s) /\ Holds(q, t) /\ MutualExclusion
  BY <1>1, HoldsFirst, InvExcludes DEF QueueInv
<1> QED
  BY <1>2 DEF MutualExclusion

\* What a pop may have in hand, given the queue and what was delivered.
HandOK(q) ==
  /\ q.st \in {"getting", "got", "deleting", "deleted"} => q.elem # NoElement
  /\ q.elem # NoElement /\ q.st \in InFlight \ {"deleted"} =>
       q.elem \in elements /\ \A f \in elements : q.elem <= f
  /\ q.st = "deleting" => delivered[q.elem] > 0

LEMMA HandsOK ==
  ASSUME QueueInv, NEW p \in Procs, NEW s \in Slots
  PROVE  HandOK(pop[p][s])
BY DEF QueueInv, ElementInHand, HandOK

LEMMA HandsOKNext ==
  ASSUME \A p \in Procs, s \in Slots : HandOK(pop[p][s])'
  PROVE  ElementInHand'
BY DEF ElementInHand, HandOK

LEMMA IdleOK == Idle \in Pops /\ HandOK(Idle) /\ Idle.st = "idle"
BY DEF Idle, Pops, HandOK, InFlight, Watches, NoElement

LEMMA IdleOKNext == HandOK(Idle)'
BY DEF Idle, HandOK, InFlight, NoElement

\* A step that leaves the queue and what was delivered alone, and counts every
\* pop that it ends after its delivery.
LEMMA NothingMoves ==
  ASSUME QueueInv, MutexInv', UNCHANGED <<elements, nextElement, delivered>>,
         pop' \in [Procs -> [Slots -> Pops]],
         late' \in [Procs -> 0..MaxMutexes],
         staleChild' \in [Procs -> Watches],
         cut' \in [Elements -> Nat],
         \A e \in Elements : cut'[e] >= cut[e],
         \A p \in Procs, s \in Slots :
           /\ pop'[p][s].st # "idle" => mutex'[p][s].st = "first"
           /\ HandOK(pop[p][s])'
           /\ pop[p][s].st = "deleting" =>
                \/ pop'[p][s].st = "deleting" /\ pop'[p][s].elem = pop[p][s].elem
                \/ cut'[pop[p][s].elem] > cut[pop[p][s].elem]
  PROVE  QueueInv'
<1>1. QueueTypeOK'
  BY QueueFacts DEF QueueInv, QueueTypeOK, MutexInv
<1>2. ElementInHand'
  BY HandsOKNext
<1>3. Pushed' = Pushed
  BY DEF Pushed
<1>4. OnlyPushed' /\ NoElementLost' /\ DeliveredInOrder'
  BY <1>3 DEF QueueInv, OnlyPushed, NoElementLost, DeliveredInOrder
<1>5. ASSUME NEW e \in Elements
      PROVE  delivered[e] \in Nat /\ cut[e] \in Nat /\ cut'[e] \in Nat
             /\ cut'[e] >= cut[e] /\ delivered[e] <= 1 + cut[e]
  BY QueueFacts DEF QueueInv, DuplicatesExplained
<1>6. DuplicatesExplained'
  BY <1>5 DEF DuplicatesExplained
<1>7. CutsCounted'
  <2> SUFFICES ASSUME NEW e \in elements, ~ (delivered[e] <= cut'[e])
               PROVE  \E p \in Procs, s \in Slots :
                        pop'[p][s].st = "deleting" /\ pop'[p][s].elem = e
    BY DEF CutsCounted
  <2>1. e \in Elements
    BY QueueFacts
  <2>2. ~ (delivered[e] <= cut[e]) /\ ~ (cut'[e] > cut[e])
    BY <1>5, <2>1
  <2>3. PICK p \in Procs, s \in Slots :
               pop[p][s].st = "deleting" /\ pop[p][s].elem = e
    BY <2>2 DEF QueueInv, CutsCounted
  <2> QED
    BY <2>2, <2>3
<1> QED
  BY <1>1, <1>2, <1>4, <1>6, <1>7 DEF QueueInv

\* The mutex and the session move, and the pops do not.
LEMMA PopsUntouched ==
  ASSUME QueueInv, MutexInv',
         UNCHANGED <<pop, elements, nextElement, delivered, cut>>,
         late' \in [Procs -> 0..MaxMutexes],
         staleChild' \in [Procs -> Watches],
         \A p \in Procs, s \in Slots :
           mutex[p][s].st = "first" => mutex'[p][s].st = "first"
  PROVE  QueueInv'
<1>1. \A p \in Procs, s \in Slots :
        /\ pop'[p][s].st # "idle" => mutex'[p][s].st = "first"
        /\ HandOK(pop[p][s])'
  BY HandsOK DEF HandOK, QueueInv, QueueTypeOK
<1>2. \A e \in Elements : cut'[e] >= cut[e]
  BY QueueFacts
<1> QED
  BY <1>1, <1>2, QueueFacts, NothingMoves

\* The pops of one instance end, with its mutexes.
LEMMA PopsGone ==
  ASSUME QueueInv, MutexInv', NEW p \in Procs,
         pop' = [pop EXCEPT ![p] = [s \in Slots |-> Idle]], Cut(p),
         UNCHANGED <<elements, nextElement, delivered>>,
         late' \in [Procs -> 0..MaxMutexes],
         staleChild' \in [Procs -> Watches],
         \A q \in Procs, t \in Slots : q # p => mutex'[q][t] = mutex[q][t]
  PROVE  QueueInv'
<1>1. /\ pop \in [Procs -> [Slots -> Pops]]
      /\ delivered \in [Elements -> Nat] /\ cut \in [Elements -> Nat]
  BY QueueFacts
<1>2. /\ pop' \in [Procs -> [Slots -> Pops]]
      /\ \A t \in Slots : pop'[p][t] = Idle
      /\ \A q \in Procs, t \in Slots : q # p => pop'[q][t] = pop[q][t]
  BY <1>1, IdleOK
<1>3. cut' \in [Elements -> Nat] /\ \A e \in Elements : cut'[e] >= cut[e]
  BY <1>1 DEF Cut
<1>4. ASSUME NEW q \in Procs, NEW t \in Slots
      PROVE  /\ pop'[q][t].st # "idle" => mutex'[q][t].st = "first"
             /\ HandOK(pop[q][t])'
             /\ pop[q][t].st = "deleting" =>
                  \/ /\ pop'[q][t].st = "deleting"
                     /\ pop'[q][t].elem = pop[q][t].elem
                  \/ cut'[pop[q][t].elem] > cut[pop[q][t].elem]
  <2>1. CASE q = p
    <3>1. pop'[q][t] = Idle
      BY <1>2, <2>1
    <3>2. HandOK(pop[q][t])' /\ pop'[q][t].st = "idle"
      BY <3>1, IdleOK, IdleOKNext DEF HandOK
    <3>3. ASSUME pop[q][t].st = "deleting"
          PROVE  cut'[pop[q][t].elem] > cut[pop[q][t].elem]
      <4> DEFINE e == pop[q][t].elem
      <4>1. e \in Elements
        BY <3>3, HandsOK, QueueFacts DEF HandOK, InFlight
      <4>2. \E s \in Slots : pop[p][s].st = "deleting" /\ pop[p][s].elem = e
        BY <2>1, <3>3
      <4> HIDE DEF e
      <4>3. cut'[e] = cut[e] + 1
        BY <4>1, <4>2 DEF Cut
      <4> QED
        BY <1>1, <4>1, <4>3 DEF e
    <3> QED
      BY <3>2, <3>3
  <2>2. CASE q # p
    <3>1. pop'[q][t] = pop[q][t] /\ mutex'[q][t] = mutex[q][t]
      BY <1>2, <2>2
    <3> QED
      BY <3>1, HandsOK DEF HandOK, QueueInv, QueueTypeOK
  <2> QED
    BY <2>1, <2>2
<1> QED
  BY <1>2, <1>3, <1>4, NothingMoves

LEMMA SetPopSlot ==
  ASSUME QueueInv, NEW p \in Procs, NEW s \in Slots, NEW q \in Pops,
         SetPop(p, s, q)
  PROVE  /\ pop' \in [Procs -> [Slots -> Pops]]
         /\ pop'[p][s] = q
         /\ \A r \in Procs, t \in Slots :
              r # p \/ t # s => pop'[r][t] = pop[r][t]
BY QueueFacts DEF SetPop

\* One pop goes on, without handing anything over.
LEMMA OnePop ==
  ASSUME QueueInv, MutexInv', NEW p \in Procs, NEW s \in Slots, NEW q \in Pops,
         SetPop(p, s, q), HandOK(q), q.st # "deleting",
         pop[p][s].st = "deleting" => cut'[pop[p][s].elem] > cut[pop[p][s].elem],
         UNCHANGED <<elements, nextElement, delivered>>,
         late' \in [Procs -> 0..MaxMutexes],
         staleChild' \in [Procs -> Watches],
         cut' \in [Elements -> Nat], \A e \in Elements : cut'[e] >= cut[e],
         \A r \in Procs, t \in Slots :
           pop'[r][t].st # "idle" => mutex'[r][t].st = "first"
  PROVE  QueueInv'
<1>1. /\ pop' \in [Procs -> [Slots -> Pops]]
      /\ pop'[p][s] = q
      /\ \A r \in Procs, t \in Slots :
           r # p \/ t # s => pop'[r][t] = pop[r][t]
  BY SetPopSlot
<1>2. ASSUME NEW r \in Procs, NEW t \in Slots
      PROVE  /\ HandOK(pop[r][t])'
             /\ pop[r][t].st = "deleting" =>
                  \/ /\ pop'[r][t].st = "deleting"
                     /\ pop'[r][t].elem = pop[r][t].elem
                  \/ cut'[pop[r][t].elem] > cut[pop[r][t].elem]
  <2>1. CASE r = p /\ t = s
    BY <1>1, <2>1 DEF HandOK
  <2>2. CASE r # p \/ t # s
    BY <1>1, <2>2, HandsOK DEF HandOK
  <2> QED
    BY <2>1, <2>2
<1> QED
  BY <1>1, <1>2, NothingMoves

\* The same, when the mutexes stay as they are.
LEMMA PopGoesOn ==
  ASSUME QueueInv, MutexInv', NEW p \in Procs, NEW s \in Slots, NEW q \in Pops,
         SetPop(p, s, q), HandOK(q),
         pop[p][s].st \notin {"idle", "deleting"}, q.st # "deleting", PopOnly
  PROVE  QueueInv'
<1>1. UNCHANGED <<mutex, elements, nextElement, delivered, late, staleChild, cut>>
  BY DEF PopOnly, vars, serverVars, queueHistory
<1>2. ASSUME NEW r \in Procs, NEW t \in Slots, pop'[r][t].st # "idle"
      PROVE  mutex'[r][t].st = "first"
  <2>1. pop[r][t].st # "idle"
    <3>1. CASE r = p /\ t = s
      BY <3>1
    <3>2. CASE r # p \/ t # s
      BY <1>2, <3>2, SetPopSlot
    <3> QED
      BY <3>1, <3>2
  <2> QED
    BY <1>1, <2>1 DEF QueueInv, QueueTypeOK
<1>3. \A e \in Elements : cut'[e] >= cut[e]
  BY <1>1, QueueFacts
<1> QED
  BY <1>1, <1>2, <1>3, QueueFacts, OnePop

\* The lowest element of the queue, or none.
LEMMA LowestElement ==
  ASSUME QueueInv
  PROVE  /\ Lowest \in Elements \cup {NoElement}
         /\ Lowest # NoElement =>
              Lowest \in elements /\ \A f \in elements : Lowest <= f
<1>1. elements \in SUBSET Nat /\ elements \subseteq Elements
  BY QueueFacts, ElementsAssumption DEF Elements
<1>2. CASE elements = {}
  BY <1>2 DEF Lowest, NoElement
<1>3. CASE elements # {}
  <2>1. Lowest = Min(elements)
    BY <1>3 DEF Lowest
  <2>2. Min(elements) \in elements /\ \A f \in elements : Min(elements) <= f
    BY <1>1, <1>3, MinMember
  <2> QED
    BY <1>1, <2>1, <2>2
<1> QED
  BY <1>2, <1>3

LEMMA ListQueueStep ==
  ASSUME QueueInv, MutexInv', NEW p \in Procs, NEW s \in Slots, ListQueue(p, s)
  PROVE  QueueInv'
<1> DEFINE q == [Idle EXCEPT !.st = "listed", !.elem = Lowest]
<1>1. SetPop(p, s, q) /\ pop[p][s].st = "listing" /\ PopOnly
  BY DEF ListQueue
<1>2. Idle \in Pops
  BY IdleOK
<1>3. q \in Pops /\ q.st = "listed" /\ q.elem = Lowest
  BY <1>2, LowestElement DEF Pops, InFlight
<1> HIDE DEF q
<1>4. HandOK(q)
  BY <1>3, LowestElement DEF HandOK
<1> QED
  BY <1>1, <1>3, <1>4, PopGoesOn

LEMMA ListQueueAndWatchStep ==
  ASSUME QueueInv, MutexInv', NEW p \in Procs, NEW s \in Slots,
         ListQueueAndWatch(p, s)
  PROVE  QueueInv'
<1> DEFINE q == [st |-> "rechecked", elem |-> Lowest, watch |-> "set"]
<1>1. SetPop(p, s, q) /\ pop[p][s].st = "rechecking" /\ PopOnly
  BY DEF ListQueueAndWatch
<1>2. q \in Pops
  BY LowestElement DEF Pops, InFlight, Watches
<1>3. HandOK(q)
  BY LowestElement DEF HandOK
<1>4. q.st # "deleting"
  OBVIOUS
<1> HIDE DEF q
<1> QED
  BY <1>1, <1>2, <1>3, <1>4, PopGoesOn

LEMMA ChildWatcherStep ==
  ASSUME QueueInv, MutexInv', NEW p \in Procs, NEW s \in Slots, ChildWatcher(p, s)
  PROVE  QueueInv'
<1> DEFINE q == [st |-> "listing", elem |-> NoElement, watch |-> "no"]
<1>1. SetPop(p, s, q) /\ pop[p][s].st = "waiting" /\ PopOnly
  BY DEF ChildWatcher, Idle
<1>2. q \in Pops
  BY DEF Pops, InFlight, Watches
<1>3. HandOK(q)
  BY DEF HandOK
<1>4. q.st # "deleting"
  OBVIOUS
<1> HIDE DEF q
<1> QED
  BY <1>1, <1>2, <1>3, <1>4, PopGoesOn

\* A pop that goes on with the element it has, or with none.
LEMMA PopGotoStep ==
  ASSUME QueueInv, MutexInv', NEW p \in Procs, NEW s \in Slots,
         NEW from, NEW to \in {"getting", "got", "rechecking", "waiting"},
         from \in {"listed", "rechecked", "getting"},
         to \in {"getting", "got"} => pop[p][s].elem # NoElement,
         to \in {"rechecking", "waiting"} => pop[p][s].elem = NoElement,
         PopGoto(p, s, from, to), PopOnly
  PROVE  QueueInv'
<1> DEFINE q == [pop[p][s] EXCEPT !.st = to]
<1>1. SetPop(p, s, q) /\ pop[p][s].st = from
  BY DEF PopGoto
<1>2. pop[p][s] \in Pops /\ HandOK(pop[p][s])
  BY QueueFacts, HandsOK
<1>3. q \in Pops /\ q.st = to /\ q.elem = pop[p][s].elem
  BY <1>2 DEF Pops, InFlight
<1> HIDE DEF q
<1>4. HandOK(q)
  BY <1>1, <1>2, <1>3 DEF HandOK, InFlight
<1> QED
  BY <1>1, <1>3, <1>4, PopGoesOn

LEMMA PopMinimumStep ==
  ASSUME QueueInv, MutexInv', NEW p \in Procs, NEW s \in Slots, PopMinimum(p, s)
  PROVE  QueueInv'
<1>1. PopOnly
  BY DEF PopMinimum
<1>2. CASE pop[p][s].elem # NoElement /\ PopGoto(p, s, "listed", "getting")
  BY <1>1, <1>2, PopGotoStep
<1>3. CASE pop[p][s].elem # NoElement /\ PopGoto(p, s, "rechecked", "getting")
  BY <1>1, <1>3, PopGotoStep
<1>4. CASE pop[p][s].elem = NoElement /\ PopGoto(p, s, "listed", "rechecking")
  BY <1>1, <1>4, PopGotoStep
<1>5. CASE pop[p][s].elem = NoElement /\ PopGoto(p, s, "rechecked", "waiting")
  BY <1>1, <1>5, PopGotoStep
<1> QED
  BY <1>2, <1>3, <1>4, <1>5 DEF PopMinimum

LEMMA GetElementStep ==
  ASSUME QueueInv, MutexInv', NEW p \in Procs, NEW s \in Slots, GetElement(p, s)
  PROVE  QueueInv'
<1>1. PopOnly /\ PopGoto(p, s, "getting", "got")
  BY DEF GetElement
<1>2. pop[p][s].elem # NoElement
  BY <1>1, HandsOK DEF PopGoto, HandOK
<1> QED
  BY <1>1, <1>2, PopGotoStep

\* rb_zk_queue_pop_nolock starts the pop of a mutex that is obtained.
LEMMA PopNolockStep ==
  ASSUME QueueInv, MutexInv', NEW p \in Procs, NEW s \in Slots, PopNolock(p, s)
  PROVE  QueueInv'
<1> DEFINE q == [st |-> "listing", elem |-> NoElement, watch |-> "no"]
           m == [mutex[p][s] EXCEPT !.st = "first", !.obtained = TRUE]
<1>1. /\ SetPop(p, s, q) /\ mutex[p][s].st = "listed" /\ Set(p, s, m)
      /\ UNCHANGED <<elements, nextElement, delivered, late, staleChild, cut>>
  BY DEF PopNolock, Obtained, Idle, serverVars, queueHistory
<1>2. q \in Pops
  BY DEF Pops, InFlight, Watches
<1>3. HandOK(q)
  BY DEF HandOK
<1>4. q.st # "deleting"
  OBVIOUS
<1>5. m \in Mutexes /\ m.st = "first" /\ MutexInv
  BY QueueFacts, SlotFacts DEF Mutexes, Paths
<1> HIDE DEF q, m
<1>6. \A r \in Procs, t \in Slots :
        pop'[r][t].st # "idle" => mutex'[r][t].st = "first"
  <2> SUFFICES ASSUME NEW r \in Procs, NEW t \in Slots, pop'[r][t].st # "idle"
               PROVE  mutex'[r][t].st = "first"
    OBVIOUS
  <2>1. CASE r = p /\ t = s
    BY <1>1, <1>5, <2>1, SetSlot
  <2>2. CASE r # p \/ t # s
    <3>1. mutex'[r][t] = mutex[r][t] /\ pop'[r][t] = pop[r][t]
      BY <1>1, <1>2, <1>5, <2>2, SetSlot, SetPopSlot
    <3> QED
      BY <3>1 DEF QueueInv, QueueTypeOK
  <2> QED
    BY <2>1, <2>2
<1>7. pop[p][s].st = "idle"
  BY <1>1 DEF QueueInv, QueueTypeOK
<1>8. \A e \in Elements : cut'[e] >= cut[e]
  BY <1>1, QueueFacts
<1> QED
  BY <1>1, <1>2, <1>3, <1>4, <1>6, <1>7, <1>8, QueueFacts, OnePop

LEMMA OutlivesType ==
  ASSUME QueueInv, NEW p \in Procs, NEW watches, Outlives(p, watches)
  PROVE  staleChild' \in [Procs -> Watches]
<1>1. staleChild \in [Procs -> Watches]
  BY QueueFacts
<1>2. staleChild[p] \in Watches /\ "fired" \in Watches /\ "set" \in Watches
  BY <1>1 DEF Watches
<1>3. \E w \in Watches : staleChild' = [staleChild EXCEPT ![p] = w]
  <2>1. CASE "fired" \in watches
    BY <1>2, <2>1 DEF Outlives
  <2>2. CASE "set" \in watches /\ "fired" \notin watches
    BY <1>2, <2>2 DEF Outlives
  <2>3. CASE "set" \notin watches /\ "fired" \notin watches
    BY <1>2, <2>3 DEF Outlives
  <2> QED
    BY <2>1, <2>2, <2>3
<1> QED
  BY <1>1, <1>3

\* A pop ends and its mutex goes its own way: no other pop works.
LEMMA PopEnds ==
  ASSUME QueueInv, MutexInv', NEW p \in Procs, NEW s \in Slots,
         SetPop(p, s, Idle), pop[p][s].st \notin {"idle", "deleting"},
         UNCHANGED <<late, elements, nextElement, delivered, cut>>,
         staleChild' \in [Procs -> Watches]
  PROVE  QueueInv'
<1>1. /\ pop'[p][s] = Idle
      /\ \A r \in Procs, t \in Slots :
           r # p \/ t # s => pop'[r][t] = pop[r][t]
  BY IdleOK, SetPopSlot
<1>2. ASSUME NEW r \in Procs, NEW t \in Slots PROVE pop'[r][t].st = "idle"
  <2>1. CASE r = p /\ t = s
    BY <1>1, <2>1, IdleOK
  <2>2. CASE r # p \/ t # s
    BY <1>1, <2>2, OnePopWorks
  <2> QED
    BY <2>1, <2>2
<1>3. \A e \in Elements : cut'[e] >= cut[e]
  BY QueueFacts
<1>4. Idle.st # "deleting"
  BY IdleOK
<1> QED
  BY <1>2, <1>3, <1>4, IdleOK, QueueFacts, OnePop

LEMMA QueueDeleteCompletedStep ==
  ASSUME QueueInv, MutexInv', NEW p \in Procs, NEW s \in Slots,
         QueueDeleteCompleted(p, s)
  PROVE  QueueInv'
<1>1. /\ pop[p][s].st = "deleted" /\ SetPop(p, s, Idle)
      /\ UNCHANGED <<late, elements, nextElement, delivered, cut>>
  BY DEF QueueDeleteCompleted, serverVars, queueHistory
<1>2. staleChild' \in [Procs -> Watches]
  BY OutlivesType DEF QueueDeleteCompleted
<1> QED
  BY <1>1, <1>2, PopEnds

LEMMA PopFailsStep ==
  ASSUME QueueInv, MutexInv', NEW p \in Procs, NEW s \in Slots, PopFails(p, s)
  PROVE  QueueInv'
<1>1. /\ pop[p][s].st \notin {"idle", "deleting"} /\ SetPop(p, s, Idle)
      /\ UNCHANGED <<late, elements, nextElement, delivered, cut>>
  BY DEF PopFails, serverVars, queueHistory
<1>2. staleChild' \in [Procs -> Watches]
  BY OutlivesType DEF PopFails
<1> QED
  BY <1>1, <1>2, PopEnds

\* rb_zk_queue_delete_completed counts as a cut when the deletion failed.
LEMMA DeleteFailsStep ==
  ASSUME QueueInv, MutexInv', NEW p \in Procs, NEW s \in Slots, DeleteFails(p, s)
  PROVE  QueueInv'
<1> DEFINE q == [pop[p][s] EXCEPT !.st = "deleted"]
           e == pop[p][s].elem
<1>1. /\ pop[p][s].st = "deleting" /\ SetPop(p, s, q)
      /\ cut' = [cut EXCEPT ![e] = @ + 1]
      /\ UNCHANGED <<mutex, late, staleChild, elements, nextElement, delivered>>
  BY DEF DeleteFails, PopGoto, serverVars
<1>2. pop[p][s] \in Pops /\ HandOK(pop[p][s])
  BY QueueFacts, HandsOK
<1>3. q \in Pops /\ q.st = "deleted" /\ q.elem = e
  BY <1>2 DEF Pops, InFlight
<1> HIDE DEF q
<1>4. HandOK(q)
  BY <1>1, <1>2, <1>3 DEF HandOK
<1>5. e \in Elements
  BY <1>1, <1>2 DEF HandOK, Pops
<1>6. /\ cut \in [Elements -> Nat] /\ late \in [Procs -> 0..MaxMutexes]
      /\ staleChild \in [Procs -> Watches]
  BY QueueFacts
<1> HIDE DEF e
<1>7. cut' \in [Elements -> Nat] /\ \A f \in Elements : cut'[f] >= cut[f]
      /\ cut'[e] > cut[e]
  BY <1>1, <1>5, <1>6
<1>8. ASSUME NEW r \in Procs, NEW t \in Slots, pop'[r][t].st # "idle"
      PROVE  mutex'[r][t].st = "first"
  <2>1. pop[r][t].st # "idle"
    <3>1. CASE r = p /\ t = s
      BY <1>1, <3>1
    <3>2. CASE r # p \/ t # s
      BY <1>1, <1>3, <1>8, <3>2, SetPopSlot
    <3> QED
      BY <3>1, <3>2
  <2> QED
    BY <1>1, <2>1 DEF QueueInv, QueueTypeOK
<1> QED
  BY <1>1, <1>3, <1>4, <1>6, <1>7, <1>8, OnePop DEF e

\* The element is handed over: it was not before, but for earlier cuts, and all
\* that were pushed before it were.
LEMMA QueueGetElementStep ==
  ASSUME QueueInv, MutexInv', NEW p \in Procs, NEW s \in Slots,
         QueueGetElement(p, s)
  PROVE  QueueInv'
<1> DEFINE q == [pop[p][s] EXCEPT !.st = "deleting"]
           e == pop[p][s].elem
<1>1. /\ pop[p][s].st = "got" /\ SetPop(p, s, q)
      /\ delivered' = [delivered EXCEPT ![e] = @ + 1]
      /\ UNCHANGED <<mutex, late, staleChild, elements, nextElement, cut>>
  BY DEF QueueGetElement, PopGoto, HandOver, vars, serverVars
<1>2. pop[p][s] \in Pops /\ HandOK(pop[p][s])
  BY QueueFacts, HandsOK
<1>3. q \in Pops /\ q.st = "deleting" /\ q.elem = e
  BY <1>2 DEF Pops, InFlight
<1>4. e \in elements /\ (\A f \in elements : e <= f) /\ e # NoElement
  BY <1>1, <1>2 DEF HandOK, InFlight
<1> HIDE DEF q, e
<1>5. /\ delivered \in [Elements -> Nat] /\ cut \in [Elements -> Nat]
      /\ elements \subseteq Pushed /\ Pushed \subseteq Elements
      /\ late \in [Procs -> 0..MaxMutexes] /\ staleChild \in [Procs -> Watches]
      /\ \A f \in Pushed : f \in Nat
  BY QueueFacts DEF QueueInv, OnlyPushed, Pushed
<1>6. /\ pop' \in [Procs -> [Slots -> Pops]] /\ pop'[p][s] = q
      /\ \A r \in Procs, t \in Slots :
           r # p \/ t # s => pop'[r][t] = pop[r][t] /\ pop[r][t].st = "idle"
  BY <1>1, <1>3, SetPopSlot, OnePopWorks
<1>7. /\ delivered' \in [Elements -> Nat]
      /\ delivered'[e] = delivered[e] + 1
      /\ \A f \in Elements : f # e => delivered'[f] = delivered[f]
  BY <1>1, <1>4, <1>5
<1>8. \A f \in elements : delivered[f] <= cut[f]
  <2>1. \A r \in Procs, t \in Slots : pop[r][t].st # "deleting"
    BY <1>1, <1>6
  <2> QED
    BY <2>1 DEF QueueInv, CutsCounted
<1>9. Pushed' = Pushed
  BY <1>1 DEF Pushed
<1>10. QueueTypeOK'
  <2>1. \A r \in Procs, t \in Slots :
          pop'[r][t].st # "idle" => mutex'[r][t].st = "first"
    BY <1>1, <1>6 DEF QueueInv, QueueTypeOK
  <2> QED
    BY <1>1, <1>6, <1>7, <2>1 DEF QueueInv, QueueTypeOK, MutexInv
<1>11. ElementInHand'
  <2>1. ASSUME NEW r \in Procs, NEW t \in Slots PROVE HandOK(pop[r][t])'
    <3>1. CASE r = p /\ t = s
      <4>1. delivered'[e] > 0
        BY <1>4, <1>5, <1>7
      <4> QED
        BY <1>1, <1>3, <1>4, <1>6, <3>1, <4>1 DEF HandOK
    <3>2. CASE r # p \/ t # s
      BY <1>6, <3>2 DEF HandOK, InFlight
    <3> QED
      BY <3>1, <3>2
  <2> QED
    BY <2>1, HandsOKNext
<1>12. OnlyPushed' /\ NoElementLost'
  <2>1. \A f \in Elements : f \notin Pushed => delivered'[f] = 0
    BY <1>4, <1>5, <1>7 DEF QueueInv, OnlyPushed
  <2>2. \A f \in Pushed : f \in elements \/ delivered'[f] > 0
    BY <1>4, <1>5, <1>7 DEF QueueInv, NoElementLost
  <2> QED
    BY <1>1, <1>5, <1>9, <2>1, <2>2 DEF OnlyPushed, NoElementLost
<1>13. DeliveredInOrder'
  <2> SUFFICES ASSUME NEW f \in Pushed, NEW g \in Pushed,
                      f < g, delivered'[g] > 0
               PROVE  delivered'[f] > 0
    BY <1>9 DEF DeliveredInOrder
  <2>1. CASE g = e
    <3>1. f \notin elements
      BY <1>4, <1>5, <2>1
    <3>2. delivered[f] > 0 /\ f # e
      BY <1>4, <3>1 DEF QueueInv, NoElementLost
    <3> QED
      BY <1>5, <1>7, <3>2
  <2>2. CASE g # e
    <3>1. delivered[f] > 0
      BY <1>5, <1>7, <2>2 DEF QueueInv, DeliveredInOrder
    <3> QED
      BY <1>5, <1>7, <3>1
  <2> QED
    BY <2>1, <2>2
<1>14. DuplicatesExplained'
  <2> SUFFICES ASSUME NEW f \in Elements PROVE delivered'[f] <= 1 + cut[f]
    BY <1>1 DEF DuplicatesExplained
  <2>1. CASE f = e
    BY <1>4, <1>5, <1>7, <1>8, <2>1
  <2>2. CASE f # e
    BY <1>7, <2>2 DEF QueueInv, DuplicatesExplained
  <2> QED
    BY <2>1, <2>2
<1>15. CutsCounted'
  <2> SUFFICES ASSUME NEW f \in elements
               PROVE  \/ delivered'[f] <= cut[f]
                      \/ \E r \in Procs, t \in Slots :
                           pop'[r][t].st = "deleting" /\ pop'[r][t].elem = f
    BY <1>1 DEF CutsCounted
  <2>1. CASE f = e
    BY <1>3, <1>6, <2>1
  <2>2. CASE f # e
    BY <1>5, <1>7, <1>8, <2>2
  <2> QED
    BY <2>1, <2>2
<1> QED
  BY <1>10, <1>11, <1>12, <1>13, <1>14, <1>15 DEF QueueInv

\* A change of the queue fires watches, and changes nothing else of a pop.
LEMMA WatchesFireOnly ==
  ASSUME NEW pops \in [Procs -> [Slots -> Pops]], WatchesFire(pops),
         staleChild \in [Procs -> Watches]
  PROVE  /\ pop' \in [Procs -> [Slots -> Pops]]
         /\ staleChild' \in [Procs -> Watches]
         /\ \A p \in Procs, s \in Slots :
              /\ pop'[p][s].st = pops[p][s].st
              /\ pop'[p][s].elem = pops[p][s].elem
<1> DEFINE g(p, s) == [pops[p][s] EXCEPT !.watch = Fired(@)]
<1>1. ASSUME NEW w \in Watches PROVE Fired(w) \in Watches
  BY DEF Watches, Fired
<1>2. ASSUME NEW p \in Procs, NEW s \in Slots
      PROVE  /\ g(p, s) \in Pops
             /\ g(p, s).st = pops[p][s].st
             /\ g(p, s).elem = pops[p][s].elem
  <2>1. pops[p][s] \in Pops
    OBVIOUS
  <2>2. pops[p][s].watch \in Watches
    BY <2>1 DEF Pops
  <2>3. Fired(pops[p][s].watch) \in Watches
    BY <1>1, <2>2
  <2> QED
    BY <2>1, <2>3 DEF Pops
<1>3. pop' = [p \in Procs |-> [s \in Slots |-> g(p, s)]]
  BY DEF WatchesFire
<1>4. staleChild' \in [Procs -> Watches]
  BY <1>1 DEF WatchesFire
<1> HIDE DEF g
<1> QED
  BY <1>2, <1>3, <1>4

\* The element leaves the queue when it has been handed over.
LEMMA DeleteElementStep ==
  ASSUME QueueInv, MutexInv', NEW p \in Procs, NEW s \in Slots,
         DeleteElement(p, s)
  PROVE  QueueInv'
<1> DEFINE q == [pop[p][s] EXCEPT !.st = "deleted"]
           e == pop[p][s].elem
           pops == [pop EXCEPT ![p][s] = q]
<1>1. pop \in [Procs -> [Slots -> Pops]] /\ pop[p][s] \in Pops
  BY QueueFacts
<1>2. /\ pop[p][s].st = "deleting" /\ elements' = elements \ {e}
      /\ UNCHANGED <<mutex, late, nextElement, delivered, cut>>
  BY DEF DeleteElement, vars, queueHistory
<1>3. WatchesFire(pops)
  <2>1. [pop EXCEPT ![p][s].st = "deleted"] = pops
    OBVIOUS
  <2> HIDE DEF pops
  <2> QED
    BY <2>1 DEF DeleteElement
<1>4. q \in Pops /\ q.st = "deleted" /\ q.elem = e
  BY <1>1 DEF Pops, InFlight
<1>5. HandOK(pop[p][s])
  BY HandsOK
<1>6. e # NoElement /\ e \in elements /\ delivered[e] > 0
  BY <1>2, <1>5 DEF HandOK, InFlight
<1> HIDE DEF q, e
<1>7. /\ pops \in [Procs -> [Slots -> Pops]]
      /\ pops[p][s] = q
      /\ \A r \in Procs, t \in Slots :
           r # p \/ t # s => pops[r][t] = pop[r][t] /\ pop[r][t].st = "idle"
  BY <1>1, <1>2, <1>4, OnePopWorks
<1> HIDE DEF pops
<1>8. /\ pop' \in [Procs -> [Slots -> Pops]]
      /\ staleChild' \in [Procs -> Watches]
      /\ \A r \in Procs, t \in Slots :
           /\ pop'[r][t].st = pops[r][t].st
           /\ pop'[r][t].elem = pops[r][t].elem
  BY <1>3, <1>7, QueueFacts, WatchesFireOnly
<1>9. Pushed' = Pushed /\ elements' \subseteq elements
  BY <1>2 DEF Pushed
<1>10. QueueTypeOK'
  <2>1. ASSUME NEW r \in Procs, NEW t \in Slots, pop'[r][t].st # "idle"
        PROVE  mutex'[r][t].st = "first"
    <3>1. r = p /\ t = s
      <4> SUFFICES ASSUME r # p \/ t # s PROVE FALSE
        OBVIOUS
      <4>1. pops[r][t] = pop[r][t] /\ pop[r][t].st = "idle"
        BY <1>7
      <4>2. pop'[r][t].st = pops[r][t].st
        BY <1>8
      <4> QED
        BY <2>1, <4>1, <4>2
    <3>2. mutex[p][s].st = "first"
      BY <1>2 DEF QueueInv, QueueTypeOK
    <3> QED
      BY <1>2, <3>1, <3>2
  <2>2. elements' \subseteq Elements
    BY <1>9, QueueFacts
  <2> QED
    BY <1>2, <1>8, <2>1, <2>2, QueueFacts DEF QueueTypeOK, MutexInv
<1>11. ElementInHand'
  <2>1. ASSUME NEW r \in Procs, NEW t \in Slots PROVE HandOK(pop[r][t])'
    <3>1. CASE r = p /\ t = s
      BY <1>4, <1>6, <1>7, <1>8, <3>1 DEF HandOK
    <3>2. CASE r # p \/ t # s
      BY <1>7, <1>8, <3>2 DEF HandOK, InFlight
    <3> QED
      BY <3>1, <3>2
  <2> QED
    BY <2>1, HandsOKNext
<1>12. OnlyPushed' /\ DeliveredInOrder' /\ DuplicatesExplained'
  BY <1>2, <1>9 DEF QueueInv, OnlyPushed, DeliveredInOrder, DuplicatesExplained
<1>13. NoElementLost'
  BY <1>2, <1>6, <1>9 DEF QueueInv, NoElementLost
<1>14. CutsCounted'
  <2> SUFFICES ASSUME NEW f \in elements, f # e
               PROVE  delivered[f] <= cut[f]
    BY <1>2 DEF CutsCounted
  <2>1. \A r \in Procs, t \in Slots :
          ~ (pop[r][t].st = "deleting" /\ pop[r][t].elem = f)
    <3> SUFFICES ASSUME NEW r \in Procs, NEW t \in Slots,
                        pop[r][t].st = "deleting", pop[r][t].elem = f
                 PROVE  FALSE
      OBVIOUS
    <3>1. r = p /\ t = s
      BY <1>7
    <3> QED
      BY <3>1 DEF e
  <2> QED
    BY <2>1 DEF QueueInv, CutsCounted
<1> QED
  BY <1>10, <1>11, <1>12, <1>13, <1>14 DEF QueueInv

\* rb_zk_queue_push adds the highest element.
LEMMA PushStep ==
  ASSUME QueueInv, MutexInv', Push
  PROVE  QueueInv'
<1> DEFINE n == nextElement
<1>1. /\ n <= MaxElements /\ elements' = elements \cup {n} /\ nextElement' = n + 1
      /\ WatchesFire(pop)
      /\ UNCHANGED <<mutex, late, delivered, cut>>
  BY DEF Push, vars, queueHistory
<1>2. n \in Elements /\ n \in Nat
  BY <1>1, QueueFacts, ElementsAssumption DEF Elements
<1>3. Pushed' = Pushed \cup {n} /\ n \notin Pushed /\ \A f \in Pushed : f < n
  <2>1. Pushed = 1..(n - 1) /\ Pushed' = 1..n /\ n \in Nat \ {0}
    BY <1>1, <1>2 DEF Pushed, Elements
  <2> HIDE DEF n
  <2> QED
    BY <2>1
<1>4. elements \subseteq Pushed /\ delivered[n] = 0
      /\ \A e \in Elements \ Pushed : delivered[e] = 0
  BY <1>2, <1>3 DEF QueueInv, OnlyPushed
<1>5. /\ pop' \in [Procs -> [Slots -> Pops]]
      /\ staleChild' \in [Procs -> Watches]
      /\ \A r \in Procs, t \in Slots :
           pop'[r][t].st = pop[r][t].st /\ pop'[r][t].elem = pop[r][t].elem
  BY <1>1, QueueFacts, WatchesFireOnly
<1>6. nextElement' \in 1..(MaxElements + 1)
  BY <1>1, <1>2, ElementsAssumption, QueueFacts
<1>7. /\ elements \subseteq Elements /\ cut \in [Elements -> Nat]
      /\ \A f \in Pushed : f \in Nat
  BY QueueFacts DEF Pushed
<1> HIDE DEF n
<1>8. QueueTypeOK'
  <2>1. \A r \in Procs, t \in Slots :
          pop'[r][t].st # "idle" => mutex'[r][t].st = "first"
    BY <1>1, <1>5 DEF QueueInv, QueueTypeOK
  <2> QED
    BY <1>1, <1>2, <1>5, <1>6, <1>7, <2>1, QueueFacts DEF QueueTypeOK, MutexInv
<1>9. ElementInHand'
  <2>1. ASSUME NEW r \in Procs, NEW t \in Slots PROVE HandOK(pop[r][t])'
    <3>1. HandOK(pop[r][t])
      BY HandsOK
    <3>2. ASSUME pop[r][t].elem \in elements PROVE pop[r][t].elem <= n
      <4>1. pop[r][t].elem \in Pushed
        BY <1>4, <3>2
      <4>2. pop[r][t].elem < n /\ pop[r][t].elem \in Nat
        BY <1>3, <1>7, <4>1
      <4> QED
        BY <1>2, <4>2
    <3> QED
      BY <1>1, <1>5, <3>1, <3>2 DEF HandOK
  <2> QED
    BY <2>1, HandsOKNext
<1>10. OnlyPushed' /\ NoElementLost'
  BY <1>1, <1>3, <1>4 DEF QueueInv, OnlyPushed, NoElementLost
<1>11. DeliveredInOrder'
  <2> SUFFICES ASSUME NEW f \in Pushed', NEW g \in Pushed',
                      f < g, delivered[g] > 0
               PROVE  delivered[f] > 0
    BY <1>1 DEF DeliveredInOrder
  <2>1. g \in Pushed
    BY <1>3, <1>4
  <2>2. f \in Pushed
    BY <1>2, <1>3, <1>7, <2>1
  <2> QED
    BY <2>1, <2>2 DEF QueueInv, DeliveredInOrder
<1>12. DuplicatesExplained'
  BY <1>1 DEF QueueInv, DuplicatesExplained
<1>13. CutsCounted'
  <2> SUFFICES ASSUME NEW f \in elements \cup {n}
               PROVE  \/ delivered[f] <= cut[f]
                      \/ \E r \in Procs, t \in Slots :
                           pop'[r][t].st = "deleting" /\ pop'[r][t].elem = f
    BY <1>1 DEF CutsCounted
  <2>1. CASE f = n
    BY <1>2, <1>4, <1>7, <2>1
  <2>2. CASE f \in elements
    BY <1>5, <2>2 DEF QueueInv, CutsCounted
  <2> QED
    BY <2>1, <2>2
<1> QED
  BY <1>8, <1>9, <1>10, <1>11, <1>12, <1>13 DEF QueueInv

-----------------------------------------------------------------------------
(* The sessions and the processes.                                         *)

LEMMA RequestsCounted ==
  ASSUME NEW T \in SUBSET Slots
  PROVE  Cardinality(T) \in 0..MaxMutexes
<1>1. IsFiniteSet(Slots) /\ Cardinality(Slots) = MaxMutexes
  BY FS_Interval, BoundsAssumption DEF Slots
<1>2. IsFiniteSet(T) /\ Cardinality(T) <= Cardinality(Slots)
  BY <1>1, FS_Subset
<1> QED
  BY <1>1, <1>2, FS_CardinalityType, BoundsAssumption

LEMMA QueueCleanMutexStep ==
  ASSUME QueueInv, MutexInv', NEW p \in Procs, QueueCleanMutex(p)
  PROVE  QueueInv'
<1> DEFINE requests == {s \in Slots : pop[p][s].st \in InFlight}
<1>1. /\ pop' = [pop EXCEPT ![p] = [s \in Slots |-> Idle]] /\ Cut(p)
      /\ UNCHANGED <<elements, nextElement, delivered>>
      /\ late' = [late EXCEPT ![p] = Cardinality(requests)]
      /\ Outlives(p, {pop[p][s].watch : s \in Slots})
  BY DEF QueueCleanMutex, serverVars
<1>2. Cardinality(requests) \in 0..MaxMutexes
  BY RequestsCounted
<1> HIDE DEF requests
<1>3. late' \in [Procs -> 0..MaxMutexes]
  BY <1>1, <1>2, QueueFacts
<1>4. staleChild' \in [Procs -> Watches]
  BY <1>1, OutlivesType
<1>5. \A q \in Procs, t \in Slots : q # p => mutex'[q][t] = mutex[q][t]
  BY QueueFacts DEF QueueCleanMutex, CleanMutex
<1> QED
  BY <1>1, <1>3, <1>4, <1>5, PopsGone

LEMMA QueueDieStep ==
  ASSUME QueueInv, MutexInv', NEW p \in Procs, Die(p), QueueGone(p)
  PROVE  QueueInv'
<1>1. /\ pop' = [pop EXCEPT ![p] = [s \in Slots |-> Idle]] /\ Cut(p)
      /\ UNCHANGED <<elements, nextElement, delivered>>
      /\ late' = [late EXCEPT ![p] = 0]
      /\ staleChild' = [staleChild EXCEPT ![p] = "no"]
  BY DEF QueueGone, serverVars
<1>2. /\ late' \in [Procs -> 0..MaxMutexes]
      /\ staleChild' \in [Procs -> Watches]
  BY <1>1, QueueFacts, BoundsAssumption DEF Watches
<1>3. \A q \in Procs, t \in Slots : q # p => mutex'[q][t] = mutex[q][t]
  BY QueueFacts DEF Die
<1> QED
  BY <1>1, <1>2, <1>3, PopsGone

\* A new mutex takes a structure that was free.
LEMMA NewLoop ==
  ASSUME QueueInv, MutexInv', NEW p \in Procs, LoopStart(p),
         UNCHANGED <<pop, elements, nextElement, delivered, cut>>,
         late' \in [Procs -> 0..MaxMutexes], UNCHANGED staleChild
  PROVE  QueueInv'
<1>1. PICK s \in FreeSlots(p) : Set(p, s, Mutex("pending"))
  BY LoopStartSlot
<1>2. s \in Slots /\ mutex[p][s].st = "free"
  BY <1>1 DEF FreeSlots
<1>3. \A q \in Procs, t \in Slots :
        mutex[q][t].st = "first" => mutex'[q][t].st = "first"
  BY <1>1, <1>2, QueueFacts DEF Set
<1> QED
  BY <1>3, QueueFacts, PopsUntouched

LEMMA LateCompletionStep ==
  ASSUME QueueInv, MutexInv', NEW p \in Procs, LateCompletion(p)
  PROVE  QueueInv'
<1>1. CASE /\ LoopStart(p)
           /\ late' = [late EXCEPT ![p] = @ - 1]
           /\ UNCHANGED <<pop, staleChild, serverVars, queueHistory>>
  <2>1. late \in [Procs -> 0..MaxMutexes] /\ late[p] > 0
    BY QueueFacts DEF LateCompletion
  <2>2. late[p] - 1 \in 0..MaxMutexes
    BY <2>1, BoundsAssumption
  <2>3. late' \in [Procs -> 0..MaxMutexes]
    BY <1>1, <2>1, <2>2
  <2> QED
    BY <1>1, <2>3, NewLoop DEF serverVars, queueHistory
<1>2. CASE Die(p) /\ QueueGone(p)
  BY <1>2, QueueDieStep
<1> QED
  BY <1>1, <1>2 DEF LateCompletion

\* Steps that leave every mutex obtained that was, and the queue alone.
LEMMA ObtainedStay ==
  ASSUME QueueInv, MutexInv', UNCHANGED queueVars,
         \A q \in Procs, t \in Slots :
           mutex[q][t].st = "first" => mutex'[q][t].st = "first"
  PROVE  QueueInv'
<1>1. UNCHANGED <<pop, late, staleChild, elements, nextElement, delivered, cut>>
  BY DEF queueVars, clientVars, serverVars, queueHistory
<1> QED
  BY <1>1, QueueFacts, PopsUntouched

LEMMA LockingStep ==
  ASSUME QueueInv, MutexInv', NEW p \in Procs, NEW s \in Slots, Locking(p, s)
  PROVE  QueueInv'
<1>1. MutexInv /\ UNCHANGED queueVars
  BY DEF QueueInv, Locking
<1>2. /\ mutex[p][s].st # "first"
      /\ \E m \in Mutexes : Set(p, s, m) /\ m.st # "first"
  BY <1>1, RequestSlot DEF Locking
<1>3. \A q \in Procs, t \in Slots :
        mutex[q][t].st = "first" => mutex'[q][t].st = "first"
  BY <1>2, QueueFacts DEF Set
<1> QED
  BY <1>1, <1>3, ObtainedStay

\* Nor does a request that is answered with an error end one that is obtained.
LEMMA RefusedObtained ==
  ASSUME QueueInv, NEW p \in Procs, NEW s \in Slots, Refused(p, s)
  PROVE  \A q \in Procs, t \in Slots :
           mutex[q][t].st = "first" => mutex'[q][t].st = "first"
<1>1. mutex \in [Procs -> [Slots -> Mutexes]]
  BY QueueFacts
<1>2. mutex[p][s].st # "first" /\ \E m : Set(p, s, m)
  BY RefusedSlot DEF QueueInv
<1> QED
  BY <1>1, <1>2 DEF Set

LEMMA QueueSessionStep ==
  ASSUME QueueInv, MutexInv', NEW p \in Procs, QueueSession(p)
  PROVE  QueueInv'
<1>1. MutexInv /\ mutex \in [Procs -> [Slots -> Mutexes]]
  BY QueueFacts
<1>2. CASE DoPendingLocks(p) /\ UNCHANGED queueVars
  <2>1. \A q \in Procs, t \in Slots :
          mutex[q][t].st = "first" => mutex'[q][t].st = "first"
    BY <1>1, <1>2 DEF DoPendingLocks
  <2> QED
    BY <1>2, <2>1, ObtainedStay
<1>3. CASE Reconnect(p) /\ UNCHANGED queueVars
  BY <1>3, ObtainedStay DEF Reconnect
<1>4. CASE Restart(p) /\ UNCHANGED queueVars
  <2>1. 1 \in Slots /\ conn[p] = "dead"
    BY <1>4, BoundsAssumption DEF Slots, Restart
  <2>2. mutex[p][1].st # "first"
    BY <1>1, <2>1 DEF MutexInv, SessionEventSeen
  <2>3. \A q \in Procs, t \in Slots :
          mutex[q][t].st = "first" => mutex'[q][t].st = "first"
    BY <1>1, <1>4, <2>2 DEF Restart, Set
  <2> QED
    BY <1>4, <2>3, ObtainedStay
<1> QED
  BY <1>2, <1>3, <1>4, QueueCleanMutexStep, LateCompletionStep DEF QueueSession

LEMMA QueueFaultsStep ==
  ASSUME QueueInv, MutexInv', NEW p \in Procs, QueueFaults(p)
  PROVE  QueueInv'
<1>1. /\ conn \in [Procs -> {"up", "lost", "down", "dead"}]
      /\ staleChild \in [Procs -> Watches]
  BY QueueFacts DEF MutexInv, TypeOK
<1>2. CASE LoseConnection(p) /\ UNCHANGED queueVars
  BY <1>2, ObtainedStay DEF LoseConnection
<1>3. CASE /\ SessionExpires(p)
           /\ staleChild' = [staleChild EXCEPT ![p] = "no"]
           /\ UNCHANGED <<pop, late, serverVars, queueHistory>>
  <2>1. staleChild' \in [Procs -> Watches]
    BY <1>1, <1>3 DEF Watches
  <2> QED
    BY <1>3, <2>1, QueueFacts, PopsUntouched
       DEF SessionExpires, serverVars, queueHistory
<1>4. CASE (Crash(p) \/ DoubleFree(p)) /\ QueueGone(p)
  BY <1>4, QueueDieStep DEF Crash, DoubleFree
<1>5. CASE /\ StaleWatcher(p)
           /\ IF conn'[p] = "dead" THEN QueueGone(p) ELSE UNCHANGED queueVars
  <2>1. CASE Die(p)
    <3>1. conn'[p] = "dead"
      BY <1>1, <2>1 DEF Die
    <3> QED
      BY <1>5, <2>1, <3>1, QueueDieStep
  <2>2. CASE UNCHANGED <<conn, mutex, nodes>>
    <3>1. conn'[p] # "dead"
      BY <1>5, <2>2 DEF StaleWatcher
    <3> QED
      BY <1>5, <2>2, <3>1, ObtainedStay
  <2> QED
    BY <1>5, <2>1, <2>2 DEF StaleWatcher
<1>6. CASE StaleChildWatcher(p)
  <2>1. CASE Die(p) /\ QueueGone(p)
    BY <2>1, QueueDieStep
  <2>2. CASE /\ staleChild' = [staleChild EXCEPT ![p] = "no"]
             /\ UNCHANGED <<mutex, pop, late, serverVars, queueHistory>>
    <3>1. staleChild' \in [Procs -> Watches]
      BY <1>1, <2>2 DEF Watches
    <3> QED
      BY <2>2, <3>1, QueueFacts, PopsUntouched DEF serverVars, queueHistory
  <2> QED
    BY <1>6, <2>1, <2>2 DEF StaleChildWatcher
<1>7. ASSUME NEW s \in Slots, Refused(p, s), UNCHANGED queueVars
      PROVE  QueueInv'
  BY <1>7, RefusedObtained, ObtainedStay
<1> QED
  BY <1>2, <1>3, <1>4, <1>5, <1>6, <1>7 DEF QueueFaults

-----------------------------------------------------------------------------
(* The invariant of the queue.                                             *)

LEMMA QueueInitInv == QueueInit => QueueInv
<1> SUFFICES ASSUME QueueInit PROVE QueueInv
  OBVIOUS
<1>1. /\ pop = [p \in Procs |-> [s \in Slots |-> Idle]]
      /\ late = [p \in Procs |-> 0] /\ staleChild = [p \in Procs |-> "no"]
      /\ elements = {} /\ nextElement = 1
      /\ delivered = [e \in Elements |-> 0] /\ cut = [e \in Elements |-> 0]
  BY DEF QueueInit
<1>2. MutexInv
  BY InitInv DEF QueueInit
<1>3. Pushed = {}
  BY <1>1 DEF Pushed
<1>4. QueueTypeOK
  <2>1. pop \in [Procs -> [Slots -> Pops]]
        /\ \A p \in Procs, s \in Slots : pop[p][s].st = "idle"
    BY <1>1, IdleOK
  <2> QED
    BY <1>1, <1>2, <2>1, BoundsAssumption, ElementsAssumption
       DEF QueueTypeOK, MutexInv, Watches
<1>5. ElementInHand
  BY <1>1, IdleOK DEF ElementInHand, HandOK
<1>6. /\ OnlyPushed /\ NoElementLost /\ DeliveredInOrder
      /\ DuplicatesExplained /\ CutsCounted
  BY <1>1, <1>3 DEF OnlyPushed, NoElementLost, DeliveredInOrder,
                    DuplicatesExplained, CutsCounted
<1> QED
  BY <1>2, <1>4, <1>5, <1>6 DEF QueueInv

LEMMA QueueStepInv ==
  ASSUME QueueInv, [QueueNext]_allVars
  PROVE  QueueInv'
<1>1. MutexInv'
  BY QueueMutexStep DEF QueueInv
<1>2. CASE UNCHANGED allVars
  BY <1>1, <1>2, ObtainedStay DEF allVars, vars
<1>3. ASSUME NEW p \in Procs, NEW s \in Slots, Popping(p, s)
      PROVE  QueueInv'
  BY <1>1, <1>3, PopNolockStep, ListQueueStep, PopMinimumStep,
     ListQueueAndWatchStep, ChildWatcherStep, GetElementStep,
     QueueGetElementStep, DeleteElementStep, QueueDeleteCompletedStep
     DEF Popping
<1>4. CASE LeftoverExpires /\ UNCHANGED queueVars
  BY <1>1, <1>4, ObtainedStay DEF LeftoverExpires
<1>5. CASE Progress
  BY <1>1, <1>3, <1>4, <1>5, LockingStep, QueueSessionStep DEF Progress
<1>6. ASSUME NEW p \in Procs, NEW s \in Slots, PopFails(p, s) \/ DeleteFails(p, s)
      PROVE  QueueInv'
  BY <1>1, <1>6, PopFailsStep, DeleteFailsStep
<1> QED
  BY <1>1, <1>2, <1>5, <1>6, QueueFaultsStep, PushStep DEF QueueNext

\* One pop works at a time, and an element is deleted by the pop that has
\* handed it over (rb_zk.c:645-713).
THEOREM QueueInvariant == QueueSpec => []QueueInv
BY QueueInitInv, QueueStepInv, PTL DEF QueueSpec

\* Only the mutex that is obtained pops.
THEOREM QueueTypeCorrect == QueueSpec => []QueueTypeOK
<1>1. QueueInv => QueueTypeOK
  BY DEF QueueInv
<1> QED
  BY <1>1, QueueInvariant, PTL

\* No sensor is lost between the queue and the list of an instance, however
\* many requests fail and processes die (rb_zk_queue_get_element,
\* rb_zk.c:676-713).
THEOREM NothingLost == QueueSpec => []NoElementLost
<1>1. QueueInv => NoElementLost
  BY DEF QueueInv
<1> QED
  BY <1>1, QueueInvariant, PTL

\* All the instances together hand the sensors over in the order they were
\* pushed (min_str, rb_zk.c:645-661).
THEOREM FirstInFirstOut == QueueSpec => []DeliveredInOrder
<1>1. QueueInv => DeliveredInOrder
  BY DEF QueueInv
<1> QED
  BY <1>1, QueueInvariant, PTL

\* A sensor is handed over once, and once more for every pop that was cut
\* between that and the deletion (rb_zk.c:694-703).
THEOREM DuplicatesCounted == QueueSpec => []DuplicatesExplained
<1>1. QueueInv => DuplicatesExplained
  BY DEF QueueInv
<1> QED
  BY <1>1, QueueInvariant, PTL

-----------------------------------------------------------------------------
(* The poll loops.                                                         *)

Underway == {"pending", "creating", "created", "listing", "listed", "watching",
             "stranded"}

\* Slot s of p is one of its loops, or one that an error answer has lost.
IsLoop(p, s) ==
  \/ mutex[p][s].st \in Underway
  \/ mutex[p][s].st = "first" /\ pop[p][s].st # "idle"

LEMMA LoopsOf ==
  ASSUME NEW p \in Procs
  PROVE  Begun(p) = {s \in Slots : IsLoop(p, s)}
BY DEF Begun, Loops, Stranded, IsLoop, Underway

LEMMA LoopsOfNext ==
  ASSUME NEW p \in Procs
  PROVE  Begun(p)' = {s \in Slots : IsLoop(p, s)'}
BY DEF Begun, Loops, Stranded, IsLoop, Underway

\* One instance has the loops it should have.
LoopsOK(p) ==
  /\ conn[p] = "dead" => \A s \in Slots : ~IsLoop(p, s)
  /\ conn[p] # "dead" =>
       \E s \in Slots : /\ IsLoop(p, s)
                        /\ faults = 0 => \A t \in Slots : IsLoop(p, t) => t = s

LEMMA LoopsCountedOne == LoopsCounted <=> \A p \in Procs : LoopsOK(p)
<1>1. ASSUME NEW p \in Procs, NEW s \in Slots
      PROVE  Begun(p) = {s} <=> /\ IsLoop(p, s)
                                /\ \A t \in Slots : IsLoop(p, t) => t = s
  BY LoopsOf
<1>2. ASSUME NEW p \in Procs
      PROVE  /\ Begun(p) = {} <=> \A s \in Slots : ~IsLoop(p, s)
             /\ \A s : s \in Begun(p) <=> s \in Slots /\ IsLoop(p, s)
  BY LoopsOf
<1> QED
  BY <1>1, <1>2 DEF LoopsCounted, LoopsOK

LEMMA LoopsCountedNext ==
  ASSUME \A p \in Procs : LoopsOK(p)'
  PROVE  LoopsCounted'
<1>1. ASSUME NEW p \in Procs, NEW s \in Slots
      PROVE  Begun(p)' = {s} <=> /\ IsLoop(p, s)'
                                 /\ \A t \in Slots : IsLoop(p, t)' => t = s
  BY LoopsOfNext
<1>2. ASSUME NEW p \in Procs
      PROVE  /\ Begun(p)' = {} <=> \A s \in Slots : ~IsLoop(p, s)'
             /\ \A s : s \in Begun(p)' <=> s \in Slots /\ IsLoop(p, s)'
  BY LoopsOfNext
<1> QED
  BY <1>1, <1>2 DEF LoopsCounted, LoopsOK

\* Nothing happens to the loops of p.
LoopsStay(p) ==
  /\ conn'[p] = "dead" <=> conn[p] = "dead"
  /\ \A s \in Slots : IsLoop(p, s)' <=> IsLoop(p, s)

LEMMA LoopsStayOK ==
  ASSUME NEW p \in Procs, LoopsOK(p), LoopsStay(p), faults' = 0 => faults = 0
  PROVE  LoopsOK(p)'
BY DEF LoopsOK, LoopsStay

\* The steps on one mutex.
LEMMA LockingLoops ==
  ASSUME QueueInv, NEW p \in Procs, NEW s \in Slots, Locking(p, s)
  PROVE  \A q \in Procs, t \in Slots : IsLoop(q, t)' <=> IsLoop(q, t)
<1>1. mutex \in [Procs -> [Slots -> Mutexes]] /\ pop' = pop
  BY QueueFacts DEF Locking, queueVars, clientVars
<1>2. ASSUME NEW m, Set(p, s, m)
      PROVE  /\ mutex'[p][s] = m
             /\ \A q \in Procs, t \in Slots :
                  q # p \/ t # s => mutex'[q][t] = mutex[q][t]
  BY <1>1, <1>2 DEF Set
<1>3. mutex[p][s] \in Mutexes
  BY <1>1
<1> DEFINE Goes(from, to) ==
      /\ mutex[p][s].st = from /\ mutex'[p][s].st = to
      /\ \A q \in Procs, t \in Slots :
           q # p \/ t # s => mutex'[q][t] = mutex[q][t]
<1>4. CASE CreateMutexNode(p, s)
  <2> DEFINE m == [mutex[p][s] EXCEPT !.st = "created", !.node = nextNode]
  <2>1. m.st = "created"
    BY <1>3 DEF Mutexes
  <2>2. Set(p, s, m) /\ mutex[p][s].st = "creating"
    BY <1>4 DEF CreateMutexNode
  <2> HIDE DEF m
  <2>3. Goes("creating", "created")
    BY <1>2, <2>1, <2>2
  <2> QED
    BY <1>1, <2>3 DEF IsLoop, Underway
<1>5. CASE CreateMutexNodeComplete(p, s)
  <2>1. Goes("created", "listing")
    BY <1>2, <1>3, <1>5 DEF CreateMutexNodeComplete, Mutexes
  <2> QED
    BY <1>1, <2>1 DEF IsLoop, Underway
<1>6. CASE GetChildren(p, s)
  <2> DEFINE m == [mutex[p][s] EXCEPT
                        !.st = "listed", !.prev = PreviousNode(mutex[p][s].node)]
  <2>1. m.st = "listed"
    BY <1>3 DEF Mutexes
  <2>2. Set(p, s, m) /\ mutex[p][s].st = "listing"
    BY <1>6 DEF GetChildren
  <2> HIDE DEF m
  <2>3. Goes("listing", "listed")
    BY <1>2, <2>1, <2>2
  <2> QED
    BY <1>1, <2>3 DEF IsLoop, Underway
<1>7. CASE WatchPrevious(p, s)
  <2>1. Goes("listed", "watching")
    BY <1>2, <1>3, <1>7 DEF WatchPrevious, Mutexes
  <2> QED
    BY <1>1, <2>1 DEF IsLoop, Underway
<1>8. CASE PreviousGone(p, s)
  <2>1. Goes("listed", "pending")
    BY <1>2, <1>8 DEF PreviousGone, Mutex
  <2> QED
    BY <1>1, <2>1 DEF IsLoop, Underway
<1>9. CASE PreviousLeaderWatcher(p, s)
  <2> DEFINE m == [mutex[p][s] EXCEPT !.st = "listing", !.prev = NoNode]
  <2>1. m.st = "listing"
    BY <1>3 DEF Mutexes
  <2>2. Set(p, s, m) /\ mutex[p][s].st = "watching"
    BY <1>9 DEF PreviousLeaderWatcher
  <2> HIDE DEF m
  <2>3. Goes("watching", "listing")
    BY <1>2, <2>1, <2>2
  <2> QED
    BY <1>1, <2>3 DEF IsLoop, Underway
<1>10. CASE DeleteMutexNode(p, s)
  <2>1. Goes("deleting", "deleted")
    BY <1>2, <1>3, <1>10 DEF DeleteMutexNode, Mutexes
  <2> QED
    BY <1>1, <2>1 DEF IsLoop, Underway
<1>11. CASE DeleteMutexCompleted(p, s)
  <2>1. Goes("deleted", "free")
    BY <1>2, <1>11 DEF DeleteMutexCompleted, Mutex
  <2> QED
    BY <1>1, <2>1 DEF IsLoop, Underway
<1> QED
  BY <1>4, <1>5, <1>6, <1>7, <1>8, <1>9, <1>10, <1>11 DEF Locking

\* A request of the mutex that is answered with an error keeps its loop, or
\* leaves its mutex stranded.
LEMMA RefusedLoops ==
  ASSUME QueueInv, UNCHANGED pop, NEW p \in Procs, NEW s \in Slots,
         Refused(p, s)
  PROVE  \A q \in Procs, t \in Slots : IsLoop(q, t)' <=> IsLoop(q, t)
<1>1. MutexInv /\ mutex[p][s] \in Mutexes
  BY SlotFacts DEF QueueInv
<1>2. PICK m \in Mutexes :
        /\ Set(p, s, m)
        /\ \/ /\ mutex[p][s].st \in {"creating", "listed"}
              /\ m = Mutex("pending")
           \/ /\ mutex[p][s].st = "listing"
              /\ m = [mutex[p][s] EXCEPT !.st = "stranded"]
           \/ /\ mutex[p][s].st = "deleting"
              /\ m = [mutex[p][s] EXCEPT !.st = "deleted"]
  BY <1>1, RefusedSlot
<1>3. /\ mutex[p][s].st \in Underway <=> m.st \in Underway
      /\ mutex[p][s].st # "first" /\ m.st # "first"
  BY <1>1, <1>2 DEF Mutex, Mutexes, Underway
<1>4. /\ mutex'[p][s] = m
      /\ \A q \in Procs, t \in Slots :
           q # p \/ t # s => mutex'[q][t] = mutex[q][t]
  BY <1>1, <1>2, SetSlot
<1> QED
  BY <1>3, <1>4 DEF IsLoop

-----------------------------------------------------------------------------
(* Faults leave their traces.                                              *)

LEMMA LoopFacts ==
  ASSUME LoopInv
  PROVE  /\ QueueInv
         /\ \A p \in Procs : LoopsOK(p)
         /\ conn \in [Procs -> {"up", "lost", "down", "dead"}]
         /\ mutex \in [Procs -> [Slots -> Mutexes]]
         /\ pop \in [Procs -> [Slots -> Pops]]
         /\ late \in [Procs -> Nat]
         /\ faults \in Nat
         /\ \A p \in Procs :
              /\ faults = 0 => conn[p] # "lost" /\ late[p] = 0
              /\ conn[p] = "dead" => late[p] = 0
<1>1. QueueInv /\ NoTraceOfFaults /\ LoopsCounted
  BY DEF LoopInv
<1>2. late \in [Procs -> 0..MaxMutexes] /\ faults \in 0..MaxFaults
      /\ conn \in [Procs -> {"up", "lost", "down", "dead"}]
  BY <1>1, QueueFacts DEF MutexInv, TypeOK
<1>3. late \in [Procs -> Nat] /\ faults \in Nat
  BY <1>2, BoundsAssumption
<1> QED
  BY <1>1, <1>2, <1>3, LoopsCountedOne, QueueFacts DEF NoTraceOfFaults

\* A step is a fault, or leaves the faults and no new trace of any.
LeavesNoTrace ==
  /\ \/ faults' = faults + 1
     \/ /\ faults' = faults
        /\ faults = 0 =>
             \A q \in Procs : /\ conn'[q] = "lost" => conn[q] = "lost"
                              /\ late[q] = 0 => late'[q] = 0
  /\ \A q \in Procs : conn'[q] = "dead" => late'[q] = 0

LEMMA NoNewTrace ==
  ASSUME LoopInv, LeavesNoTrace
  PROVE  NoTraceOfFaults' /\ (faults' = 0 => faults = 0)
BY LoopFacts DEF LeavesNoTrace, NoTraceOfFaults

\* A process that dies has no connection and no completion to come.
LEMMA DeadNoTrace ==
  ASSUME LoopInv, NEW p \in Procs, Die(p), QueueGone(p),
         faults' = faults \/ faults' = faults + 1
  PROVE  LeavesNoTrace
<1>1. \A q \in Procs : /\ conn'[q] = IF q = p THEN "dead" ELSE conn[q]
                       /\ late'[q] = IF q = p THEN 0 ELSE late[q]
  BY LoopFacts DEF Die, QueueGone
<1> QED
  BY <1>1, LoopFacts DEF LeavesNoTrace

LEMMA SlotStepNoTrace ==
  ASSUME LoopInv, NEW p \in Procs, NEW s \in Slots,
         Locking(p, s) \/ Popping(p, s) \/ PopFails(p, s) \/ DeleteFails(p, s)
  PROVE  LeavesNoTrace
<1>1. CASE Locking(p, s)
  <2>1. UNCHANGED <<conn, faults, late>>
    BY <1>1 DEF Locking, CreateMutexNode, CreateMutexNodeComplete, GetChildren,
                WatchPrevious, PreviousGone, PreviousLeaderWatcher,
                DeleteMutexNode, DeleteMutexCompleted, queueVars, clientVars
  <2> QED
    BY <2>1, LoopFacts DEF LeavesNoTrace
<1>2. CASE Popping(p, s)
  <2>1. UNCHANGED <<conn, faults, late>>
    BY <1>2 DEF Popping, PopNolock, ListQueue, PopMinimum, ListQueueAndWatch,
                ChildWatcher, GetElement, QueueGetElement, DeleteElement,
                QueueDeleteCompleted, PopOnly, Obtained, MutexUnlock, vars
  <2> QED
    BY <2>1, LoopFacts DEF LeavesNoTrace
<1>3. CASE PopFails(p, s) \/ DeleteFails(p, s)
  <2>1. UNCHANGED <<conn, late>> /\ faults' = faults + 1
    BY <1>3 DEF PopFails, DeleteFails
  <2> QED
    BY <2>1, LoopFacts DEF LeavesNoTrace
<1> QED
  BY <1>1, <1>2, <1>3

LEMMA SessionNoTrace ==
  ASSUME LoopInv, NEW p \in Procs, QueueSession(p)
  PROVE  LeavesNoTrace
<1>1. CASE (DoPendingLocks(p) \/ Reconnect(p) \/ Restart(p)) /\ UNCHANGED queueVars
  <2>1. UNCHANGED <<faults, late>>
    BY <1>1 DEF DoPendingLocks, Reconnect, Restart, queueVars, clientVars
  <2>2. \A q \in Procs : /\ conn'[q] = "lost" => conn[q] = "lost"
                         /\ conn'[q] = "dead" => conn[q] = "dead"
    BY <1>1, LoopFacts DEF DoPendingLocks, Reconnect, Restart
  <2> QED
    BY <2>1, <2>2, LoopFacts DEF LeavesNoTrace
<1>2. CASE QueueCleanMutex(p)
  <2>1. /\ conn[p] = "lost" /\ faults' = faults
        /\ \A q \in Procs : /\ conn'[q] = IF q = p THEN "down" ELSE conn[q]
                            /\ q # p => late'[q] = late[q]
    BY <1>2, LoopFacts DEF QueueCleanMutex, CleanMutex
  <2> QED
    BY <2>1, LoopFacts DEF LeavesNoTrace
<1>3. CASE LateCompletion(p)
  <2>1. faults' = faults /\ late[p] > 0
    BY <1>3 DEF LateCompletion
  <2>2. CASE UNCHANGED conn /\ late' = [late EXCEPT ![p] = @ - 1]
    BY <2>1, <2>2, LoopFacts DEF LeavesNoTrace
  <2>3. CASE Die(p) /\ QueueGone(p)
    BY <2>1, <2>3, DeadNoTrace
  <2> QED
    BY <1>3, <2>2, <2>3 DEF LateCompletion
<1> QED
  BY <1>1, <1>2, <1>3 DEF QueueSession

LEMMA FaultsNoTrace ==
  ASSUME LoopInv, NEW p \in Procs, QueueFaults(p)
  PROVE  LeavesNoTrace
<1>1. CASE LoseConnection(p) /\ UNCHANGED queueVars
  <2>1. /\ faults' = faults + 1 /\ late' = late
        /\ \A q \in Procs : conn'[q] = "dead" => conn[q] = "dead"
    BY <1>1, LoopFacts DEF LoseConnection, queueVars, clientVars
  <2> QED
    BY <2>1, LoopFacts DEF LeavesNoTrace
<1>2. CASE SessionExpires(p) /\ UNCHANGED <<pop, late, serverVars, queueHistory>>
  BY <1>2, LoopFacts DEF SessionExpires, LeavesNoTrace
<1>3. CASE (Crash(p) \/ DoubleFree(p)) /\ QueueGone(p)
  BY <1>3, DeadNoTrace DEF Crash, DoubleFree
<1>4. CASE /\ StaleWatcher(p)
           /\ IF conn'[p] = "dead" THEN QueueGone(p) ELSE UNCHANGED queueVars
  <2>1. faults' = faults /\ conn[p] = "up"
    BY <1>4 DEF StaleWatcher
  <2>2. CASE Die(p)
    <3>1. conn'[p] = "dead"
      BY <2>2, LoopFacts DEF Die
    <3> QED
      BY <1>4, <2>1, <2>2, <3>1, DeadNoTrace
  <2>3. CASE UNCHANGED conn
    <3>1. UNCHANGED queueVars
      BY <1>4, <2>1, <2>3
    <3> QED
      BY <2>1, <2>3, <3>1, LoopFacts DEF LeavesNoTrace, queueVars, clientVars
  <2> QED
    BY <1>4, <2>2, <2>3 DEF StaleWatcher
<1>5. CASE StaleChildWatcher(p)
  <2>1. faults' = faults
    BY <1>5 DEF StaleChildWatcher
  <2>2. CASE UNCHANGED <<conn, late>>
    BY <2>1, <2>2, LoopFacts DEF LeavesNoTrace
  <2>3. CASE Die(p) /\ QueueGone(p)
    BY <2>1, <2>3, DeadNoTrace
  <2> QED
    BY <1>5, <2>2, <2>3 DEF StaleChildWatcher
<1>6. ASSUME NEW s \in Slots, Refused(p, s), UNCHANGED queueVars
      PROVE  LeavesNoTrace
  <2>1. UNCHANGED <<conn, late>> /\ faults' = faults + 1
    BY <1>6, LoopFacts, RefusedSlot
       DEF QueueInv, RequestFails, queueVars, clientVars
  <2> QED
    BY <2>1, LoopFacts DEF LeavesNoTrace
<1> QED
  BY <1>1, <1>2, <1>3, <1>4, <1>5, <1>6 DEF QueueFaults

-----------------------------------------------------------------------------
(* The steps, and the loops of all instances.                              *)

\* Nothing happens to any loop.
LEMMA AllLoopsStay ==
  ASSUME LoopInv, LeavesNoTrace,
         \A q \in Procs : conn'[q] = "dead" <=> conn[q] = "dead",
         \A q \in Procs, t \in Slots : IsLoop(q, t)' <=> IsLoop(q, t)
  PROVE  LoopsCounted'
<1>1. \A q \in Procs : LoopsOK(q)'
  BY LoopFacts, NoNewTrace, LoopsStayOK DEF LoopsStay
<1> QED
  BY <1>1, LoopsCountedNext

\* Something happens to the loops of one instance.
LEMMA LoopsOfOne ==
  ASSUME LoopInv, LeavesNoTrace, NEW p \in Procs, LoopsOK(p)',
         \A q \in Procs \ {p} : /\ conn'[q] = conn[q]
                                /\ mutex'[q] = mutex[q] /\ pop'[q] = pop[q]
  PROVE  LoopsCounted'
<1>1. ASSUME NEW q \in Procs \ {p}
      PROVE  LoopsOK(q)'
  <2>1. LoopsStay(q)
    BY DEF LoopsStay, IsLoop
  <2> QED
    BY <2>1, LoopFacts, NoNewTrace, LoopsStayOK
<1>2. \A q \in Procs : LoopsOK(q)'
  BY <1>1
<1> QED
  BY <1>2, LoopsCountedNext

\* A process that is gone has no loop.
LEMMA DeadLoops ==
  ASSUME LoopInv, LeavesNoTrace, NEW p \in Procs, Die(p), QueueGone(p)
  PROVE  LoopsCounted'
<1>1. /\ conn'[p] = "dead"
      /\ \A s \in Slots : mutex'[p][s].st = "free"
      /\ \A q \in Procs \ {p} : /\ conn'[q] = conn[q]
                                /\ mutex'[q] = mutex[q] /\ pop'[q] = pop[q]
  BY LoopFacts DEF Die, QueueGone, Mutex
<1>2. LoopsOK(p)'
  BY <1>1 DEF LoopsOK, IsLoop, Underway
<1> QED
  BY <1>1, <1>2, LoopsOfOne

\* sensors_queue_poll_loop_start.  There was a fault, so more loops do no harm.
LEMMA StartedLoops ==
  ASSUME LoopInv, LeavesNoTrace, NEW p \in Procs, LoopStart(p), faults' # 0,
         UNCHANGED conn, conn[p] # "dead",
         \A q \in Procs \ {p} : pop'[q] = pop[q]
  PROVE  LoopsCounted'
<1>1. PICK f \in FreeSlots(p) : Set(p, f, Mutex("pending"))
  BY LoopStartSlot
<1>2. f \in Slots
  BY <1>1 DEF FreeSlots
<1>3. /\ mutex'[p][f].st = "pending"
      /\ \A q \in Procs \ {p} : mutex'[q] = mutex[q]
  BY <1>1, <1>2, LoopFacts DEF Set, Mutex
<1>4. LoopsOK(p)'
  BY <1>2, <1>3 DEF LoopsOK, IsLoop, Underway
<1> QED
  BY <1>3, <1>4, LoopsOfOne

LEMMA LockingLoopsOK ==
  ASSUME LoopInv, NEW p \in Procs, NEW s \in Slots, Locking(p, s)
  PROVE  LoopsCounted'
<1>1. UNCHANGED conn
  BY DEF Locking, CreateMutexNode, CreateMutexNodeComplete, GetChildren,
         WatchPrevious, PreviousGone, PreviousLeaderWatcher,
         DeleteMutexNode, DeleteMutexCompleted
<1> QED
  BY <1>1, LoopFacts, LockingLoops, SlotStepNoTrace, AllLoopsStay

\* The pop of the loop goes on; PopNolock starts it.
LEMMA PopsGoOn ==
  ASSUME QueueInv, NEW p \in Procs, NEW s \in Slots, Popping(p, s),
         ~QueueDeleteCompleted(p, s)
  PROVE  \A q \in Procs, t \in Slots : IsLoop(q, t)' <=> IsLoop(q, t)
<1>1. /\ mutex \in [Procs -> [Slots -> Mutexes]]
      /\ pop \in [Procs -> [Slots -> Pops]]
      /\ pop[p][s] \in Pops /\ mutex[p][s] \in Mutexes
  BY QueueFacts
<1> DEFINE Others == \A q \in Procs, t \in Slots :
                       q # p \/ t # s => pop'[q][t].st = pop[q][t].st
<1>2. ASSUME NEW x, SetPop(p, s, x)
      PROVE  pop'[p][s] = x /\ Others
  BY <1>1, <1>2 DEF SetPop
<1>3. CASE UNCHANGED mutex /\ pop[p][s].st # "idle" /\ pop'[p][s].st # "idle" /\ Others
  BY <1>3 DEF IsLoop
<1>4. ASSUME NEW from, NEW to, PopGoto(p, s, from, to)
      PROVE  pop[p][s].st = from /\ pop'[p][s].st = to /\ Others
  <2> DEFINE x == [pop[p][s] EXCEPT !.st = to]
  <2>1. x.st = to
    BY <1>1 DEF Pops
  <2>2. SetPop(p, s, x) /\ pop[p][s].st = from
    BY <1>4 DEF PopGoto
  <2> HIDE DEF x
  <2> QED
    BY <1>2, <2>1, <2>2
<1>5. CASE PopNolock(p, s)
  <2> DEFINE m == [mutex[p][s] EXCEPT !.st = "first", !.obtained = TRUE]
             x == [Idle EXCEPT !.st = "listing"]
  <2>1. m.st = "first" /\ x.st = "listing"
    BY <1>1 DEF Mutexes, Idle
  <2>2. Set(p, s, m) /\ SetPop(p, s, x) /\ mutex[p][s].st = "listed"
    BY <1>5 DEF PopNolock, Obtained
  <2> HIDE DEF m, x
  <2>3. /\ mutex'[p][s].st = "first"
        /\ \A q \in Procs, t \in Slots :
             q # p \/ t # s => mutex'[q][t] = mutex[q][t]
    BY <1>1, <2>1, <2>2 DEF Set
  <2>4. pop'[p][s].st = "listing" /\ Others
    BY <1>2, <2>1, <2>2
  <2> QED
    BY <2>2, <2>3, <2>4 DEF IsLoop, Underway
<1>6. CASE ListQueue(p, s)
  <2> DEFINE x == [Idle EXCEPT !.st = "listed", !.elem = Lowest]
  <2>1. x.st = "listed"
    BY DEF Idle
  <2>2. SetPop(p, s, x) /\ pop[p][s].st = "listing" /\ UNCHANGED mutex
    BY <1>6 DEF ListQueue, PopOnly, vars
  <2> HIDE DEF x
  <2> QED
    BY <1>2, <1>3, <2>1, <2>2
<1>7. CASE PopMinimum(p, s)
  <2>1. UNCHANGED mutex
    BY <1>7 DEF PopMinimum, PopOnly, vars
  <2> QED
    BY <1>3, <1>4, <1>7, <2>1 DEF PopMinimum
<1>8. CASE ListQueueAndWatch(p, s)
  <2> DEFINE x == [st |-> "rechecked", elem |-> Lowest, watch |-> "set"]
  <2>1. SetPop(p, s, x) /\ pop[p][s].st = "rechecking" /\ UNCHANGED mutex
    BY <1>8 DEF ListQueueAndWatch, PopOnly, vars
  <2>2. x.st = "rechecked"
    OBVIOUS
  <2> HIDE DEF x
  <2> QED
    BY <1>2, <1>3, <2>1, <2>2
<1>9. CASE ChildWatcher(p, s)
  <2> DEFINE x == [Idle EXCEPT !.st = "listing"]
  <2>1. x.st = "listing"
    BY DEF Idle
  <2>2. SetPop(p, s, x) /\ pop[p][s].st = "waiting" /\ UNCHANGED mutex
    BY <1>9 DEF ChildWatcher, PopOnly, vars
  <2> HIDE DEF x
  <2> QED
    BY <1>2, <1>3, <2>1, <2>2
<1>10. CASE GetElement(p, s) \/ QueueGetElement(p, s)
  <2>1. UNCHANGED mutex
    BY <1>10 DEF GetElement, QueueGetElement, PopOnly, vars
  <2> QED
    BY <1>3, <1>4, <1>10, <2>1 DEF GetElement, QueueGetElement
<1>11. CASE DeleteElement(p, s)
  <2>1. /\ pop[p][s].st = "deleting" /\ UNCHANGED mutex
        /\ WatchesFire([pop EXCEPT ![p][s].st = "deleted"])
    BY <1>11 DEF DeleteElement, vars
  <2> DEFINE pops == [pop EXCEPT ![p][s].st = "deleted"]
  <2>2. \A q \in Procs, t \in Slots :
          /\ pops[q][t] \in Pops
          /\ pops[q][t].st = IF q = p /\ t = s THEN "deleted" ELSE pop[q][t].st
    BY <1>1, <2>1 DEF Pops, InFlight
  <2>3. WatchesFire(pops)
    BY <2>1
  <2> HIDE DEF pops
  <2>4. \A q \in Procs, t \in Slots : pop'[q][t].st = pops[q][t].st
    BY <2>2, <2>3 DEF WatchesFire, Pops
  <2> QED
    BY <1>3, <2>1, <2>2, <2>4
<1> QED
  BY <1>5, <1>6, <1>7, <1>8, <1>9, <1>10, <1>11 DEF Popping

\* rb_zk_queue_delete_completed: the next loop takes a free structure, and the
\* mutex of the last one is unlocked.
LEMMA NextLoop ==
  ASSUME LoopInv, NEW p \in Procs, NEW s \in Slots, QueueDeleteCompleted(p, s)
  PROVE  LoopsOK(p)' /\ \A q \in Procs \ {p} : mutex'[q] = mutex[q] /\ pop'[q] = pop[q]
<1>1. /\ MutexUnlock(p, s) /\ pop[p][s].st = "deleted" /\ SetPop(p, s, Idle)
      /\ mutex[p][s].st = "first" /\ UNCHANGED <<conn, faults>>
      /\ FreeSlots(p) # {} /\ Delivering(p)
  BY DEF QueueDeleteCompleted, MutexUnlock
<1>2. FreeSlots(p) \in SUBSET Nat /\ FreeSlots(p) # {}
  BY <1>1 DEF FreeSlots, Slots
<1>3. PICK f \in Slots : f = Min(FreeSlots(p)) /\ mutex[p][f].st = "free"
  BY <1>2, MinMember DEF FreeSlots
<1> DEFINE m == IF conn[p] = "up" THEN [mutex[p][s] EXCEPT !.st = "deleting"]
                ELSE Mutex("free")
<1>4. m.st \in {"deleting", "free"} /\ f # s
  BY <1>1, <1>3, LoopFacts DEF Mutex, Mutexes
<1>5. mutex' = [mutex EXCEPT ![p][f] = Mutex("pending"), ![p][s] = m]
  BY <1>1, <1>3, <1>4, LoopFacts DEF MutexUnlock
<1> HIDE DEF m
<1>6. \A q \in Procs, t \in Slots :
        /\ mutex'[q][t] = IF q = p /\ t = s THEN m
                          ELSE IF q = p /\ t = f THEN Mutex("pending")
                          ELSE mutex[q][t]
        /\ pop'[q][t] = IF q = p /\ t = s THEN Idle ELSE pop[q][t]
  BY <1>1, <1>3, <1>4, <1>5, LoopFacts DEF SetPop
<1>7. /\ IsLoop(p, s) /\ IsLoop(p, f)' /\ ~IsLoop(p, s)'
      /\ \A t \in Slots : t \notin {s, f} => (IsLoop(p, t)' <=> IsLoop(p, t))
  <2>1. IsLoop(p, s)
    BY <1>1 DEF IsLoop
  <2>2. mutex'[p][f].st = "pending"
    BY <1>3, <1>4, <1>6 DEF Mutex
  <2>3. mutex'[p][s].st \in {"deleting", "free"}
    BY <1>4, <1>6
  <2>4. \A t \in Slots : t \notin {s, f} =>
                         mutex'[p][t] = mutex[p][t] /\ pop'[p][t] = pop[p][t]
    BY <1>6
  <2> QED
    BY <2>1, <2>2, <2>3, <2>4 DEF IsLoop, Underway
<1>8. LoopsOK(p) /\ conn[p] # "dead"
  BY <1>1, LoopFacts DEF Delivering
<1>9. LoopsOK(p)'
  BY <1>1, <1>3, <1>7, <1>8 DEF LoopsOK
<1>10. \A q \in Procs \ {p} : mutex'[q] = mutex[q] /\ pop'[q] = pop[q]
  BY <1>1, <1>5, LoopFacts DEF SetPop
<1> QED
  BY <1>9, <1>10

LEMMA PoppingLoops ==
  ASSUME LoopInv, NEW p \in Procs, NEW s \in Slots, Popping(p, s)
  PROVE  LoopsCounted'
<1>1. UNCHANGED conn
  BY DEF Popping, PopNolock, ListQueue, PopMinimum, ListQueueAndWatch,
         ChildWatcher, GetElement, QueueGetElement, DeleteElement,
         QueueDeleteCompleted, PopOnly, Obtained, MutexUnlock, vars
<1>2. CASE QueueDeleteCompleted(p, s)
  BY <1>1, <1>2, NextLoop, SlotStepNoTrace, LoopsOfOne
<1>3. CASE ~QueueDeleteCompleted(p, s)
  BY <1>1, <1>3, LoopFacts, PopsGoOn, SlotStepNoTrace, AllLoopsStay
<1> QED
  BY <1>2, <1>3

\* error_cb of a request starts another loop; a deletion that fails goes on as
\* if it had not.
LEMMA FailedLoops ==
  ASSUME LoopInv, NEW p \in Procs, NEW s \in Slots,
         PopFails(p, s) \/ DeleteFails(p, s)
  PROVE  LoopsCounted'
<1>1. LeavesNoTrace
  BY SlotStepNoTrace
<1>2. CASE PopFails(p, s)
  <2>1. /\ LoopStart(p) /\ SetPop(p, s, Idle) /\ UNCHANGED conn
        /\ conn[p] = "up" /\ faults' = faults + 1
    BY <1>2 DEF PopFails
  <2>2. \A q \in Procs \ {p} : pop'[q] = pop[q]
    BY <2>1, LoopFacts DEF SetPop
  <2>3. faults' # 0
    BY <2>1, LoopFacts
  <2> QED
    BY <1>1, <2>1, <2>2, <2>3, StartedLoops
<1>3. CASE DeleteFails(p, s)
  <2> DEFINE x == [pop[p][s] EXCEPT !.st = "deleted"]
  <2>1. x.st = "deleted"
    BY LoopFacts DEF Pops
  <2>2. /\ SetPop(p, s, x) /\ pop[p][s].st = "deleting"
        /\ UNCHANGED <<conn, mutex>>
    BY <1>3 DEF DeleteFails, PopGoto
  <2> HIDE DEF x
  <2>3. \A q \in Procs, t \in Slots :
          pop'[q][t] = IF q = p /\ t = s THEN x ELSE pop[q][t]
    BY <2>2, LoopFacts DEF SetPop
  <2>4. \A q \in Procs, t \in Slots : IsLoop(q, t)' <=> IsLoop(q, t)
    BY <2>1, <2>2, <2>3 DEF IsLoop
  <2> QED
    BY <1>1, <2>2, <2>4, AllLoopsStay
<1> QED
  BY <1>2, <1>3

LEMMA SessionLoops ==
  ASSUME LoopInv, NEW p \in Procs, QueueSession(p)
  PROVE  LoopsCounted'
<1>1. LeavesNoTrace /\ mutex \in [Procs -> [Slots -> Mutexes]]
  BY SessionNoTrace, LoopFacts
<1>2. CASE DoPendingLocks(p) /\ UNCHANGED queueVars
  <2>1. UNCHANGED <<conn, pop>>
    BY <1>2 DEF DoPendingLocks, queueVars, clientVars
  <2>2. \A q \in Procs, t \in Slots :
          \/ mutex'[q][t] = mutex[q][t]
          \/ mutex[q][t].st = "pending" /\ mutex'[q][t].st = "creating"
    BY <1>1, <1>2 DEF DoPendingLocks, Mutexes
  <2>3. \A q \in Procs, t \in Slots : IsLoop(q, t)' <=> IsLoop(q, t)
    BY <2>1, <2>2 DEF IsLoop, Underway
  <2> QED
    BY <1>1, <2>1, <2>3, AllLoopsStay
<1>3. CASE Reconnect(p) /\ UNCHANGED queueVars
  <2>1. /\ UNCHANGED <<mutex, pop>>
        /\ \A q \in Procs : conn'[q] = "dead" <=> conn[q] = "dead"
    BY <1>3, LoopFacts DEF Reconnect, queueVars, clientVars
  <2>2. \A q \in Procs, t \in Slots : IsLoop(q, t)' <=> IsLoop(q, t)
    BY <2>1 DEF IsLoop
  <2> QED
    BY <1>1, <2>1, <2>2, AllLoopsStay
<1>4. CASE Restart(p) /\ UNCHANGED queueVars
  <2>1. 1 \in Slots
    BY BoundsAssumption DEF Slots
  <2>2. /\ UNCHANGED pop /\ conn[p] = "dead" /\ conn'[p] = "down"
        /\ \A t \in Slots : mutex'[p][t] = IF t = 1 THEN Mutex("pending")
                                           ELSE mutex[p][t]
        /\ \A q \in Procs \ {p} : mutex'[q] = mutex[q] /\ conn'[q] = conn[q]
    BY <1>1, <1>4, <2>1, LoopFacts DEF Restart, Set, queueVars, clientVars
  <2>3. /\ IsLoop(p, 1)'
        /\ \A t \in Slots : t # 1 => ~IsLoop(p, t)'
    BY <2>1, <2>2, LoopFacts DEF LoopsOK, IsLoop, Underway, Mutex
  <2>4. LoopsOK(p)'
    BY <2>1, <2>2, <2>3 DEF LoopsOK
  <2> QED
    BY <1>1, <2>2, <2>4, LoopsOfOne
<1>5. CASE QueueCleanMutex(p)
  <2>1. /\ conn[p] = "lost" /\ conn'[p] = "down" /\ UNCHANGED faults
        /\ \A t \in Slots :
             mutex'[p][t] = IF mutex[p][t].st \in {"free", "pending"}
                            THEN mutex[p][t] ELSE Mutex("pending")
        /\ \A q \in Procs \ {p} : /\ mutex'[q] = mutex[q] /\ conn'[q] = conn[q]
                                  /\ pop'[q] = pop[q]
    BY <1>1, <1>5, LoopFacts DEF QueueCleanMutex, CleanMutex
  <2>2. PICK t \in Slots : IsLoop(p, t)
    BY <2>1, LoopFacts DEF LoopsOK
  <2>3. mutex[p][t].st # "free"
    BY <2>2 DEF IsLoop, Underway
  <2>4. IsLoop(p, t)' /\ faults' # 0
    BY <2>1, <2>3, LoopFacts DEF IsLoop, Underway, Mutex
  <2>5. LoopsOK(p)'
    BY <2>1, <2>4 DEF LoopsOK
  <2> QED
    BY <1>1, <2>1, <2>5, LoopsOfOne
<1>6. CASE LateCompletion(p)
  <2>1. faults' # 0 /\ conn[p] # "dead"
    BY <1>6, LoopFacts DEF LateCompletion
  <2>2. CASE LoopStart(p) /\ UNCHANGED <<conn, pop>>
    BY <1>1, <2>1, <2>2, StartedLoops
  <2>3. CASE Die(p) /\ QueueGone(p)
    BY <1>1, <2>3, DeadLoops
  <2> QED
    BY <1>6, <2>2, <2>3 DEF LateCompletion
<1> QED
  BY <1>2, <1>3, <1>4, <1>5, <1>6 DEF QueueSession

LEMMA FaultsLoops ==
  ASSUME LoopInv, NEW p \in Procs, QueueFaults(p)
  PROVE  LoopsCounted'
<1>1. LeavesNoTrace
  BY FaultsNoTrace
<1>2. ASSUME UNCHANGED <<mutex, pop>>,
             \A q \in Procs : conn'[q] = "dead" <=> conn[q] = "dead"
      PROVE  LoopsCounted'
  <2>1. \A q \in Procs, t \in Slots : IsLoop(q, t)' <=> IsLoop(q, t)
    BY <1>2 DEF IsLoop
  <2> QED
    BY <1>1, <1>2, <2>1, AllLoopsStay
<1>3. CASE LoseConnection(p) /\ UNCHANGED queueVars
  BY <1>2, <1>3, LoopFacts DEF LoseConnection, queueVars, clientVars
<1>4. CASE SessionExpires(p) /\ UNCHANGED <<pop, late, serverVars, queueHistory>>
  BY <1>2, <1>4 DEF SessionExpires
<1>5. CASE (Crash(p) \/ DoubleFree(p)) /\ QueueGone(p)
  BY <1>1, <1>5, DeadLoops DEF Crash, DoubleFree
<1>6. CASE /\ StaleWatcher(p)
           /\ IF conn'[p] = "dead" THEN QueueGone(p) ELSE UNCHANGED queueVars
  <2>1. CASE Die(p)
    <3>1. conn'[p] = "dead"
      BY <2>1, LoopFacts DEF Die
    <3> QED
      BY <1>1, <1>6, <2>1, <3>1, DeadLoops
  <2>2. CASE UNCHANGED <<conn, mutex>>
    <3>1. UNCHANGED queueVars
      BY <1>6, <2>2 DEF StaleWatcher
    <3> QED
      BY <1>2, <2>2, <3>1 DEF queueVars, clientVars
  <2> QED
    BY <1>6, <2>1, <2>2 DEF StaleWatcher
<1>7. CASE StaleChildWatcher(p)
  BY <1>1, <1>2, <1>7, DeadLoops DEF StaleChildWatcher
<1>8. ASSUME NEW s \in Slots, Refused(p, s), UNCHANGED queueVars
      PROVE  LoopsCounted'
  <2>1. UNCHANGED <<conn, pop>>
    BY <1>8, LoopFacts, RefusedSlot
       DEF QueueInv, RequestFails, queueVars, clientVars
  <2>2. \A q \in Procs, t \in Slots : IsLoop(q, t)' <=> IsLoop(q, t)
    BY <1>8, <2>1, LoopFacts, RefusedLoops
  <2> QED
    BY <1>1, <2>1, <2>2, AllLoopsStay
<1> QED
  BY <1>3, <1>4, <1>5, <1>6, <1>7, <1>8 DEF QueueFaults

\* Neither a new sensor, whose push fires watches, nor a session that times out
\* touches a loop.
LEMMA OtherLoops ==
  ASSUME LoopInv, Push \/ (LeftoverExpires /\ UNCHANGED queueVars) \/ UNCHANGED allVars
  PROVE  LeavesNoTrace /\ LoopsCounted'
<1>1. UNCHANGED <<conn, mutex, faults, late>>
  BY DEF Push, LeftoverExpires, allVars, vars, queueVars, clientVars
<1>2. LeavesNoTrace
  BY <1>1, LoopFacts DEF LeavesNoTrace
<1>3. \A q \in Procs, t \in Slots : pop'[q][t].st = pop[q][t].st
  <2>1. CASE Push
    <3>1. ASSUME NEW q \in Procs, NEW t \in Slots
          PROVE  pop'[q][t].st = pop[q][t].st
      <4> DEFINE w == Fired(pop[q][t].watch)
      <4>1. pop[q][t] \in Pops /\ pop'[q][t] = [pop[q][t] EXCEPT !.watch = w]
        BY <2>1, LoopFacts DEF Push, WatchesFire
      <4> HIDE DEF w
      <4> QED
        BY <4>1 DEF Pops
    <3> QED
      BY <3>1
  <2>2. CASE UNCHANGED pop
    BY <2>2
  <2> QED
    BY <2>1, <2>2 DEF allVars, queueVars, clientVars
<1>4. \A q \in Procs, t \in Slots : IsLoop(q, t)' <=> IsLoop(q, t)
  BY <1>1, <1>3 DEF IsLoop
<1> QED
  BY <1>1, <1>2, <1>4, AllLoopsStay

-----------------------------------------------------------------------------
(* The pops that wait for an element.                                      *)

\* One pop is told of the first element to come.
ToldOK(q) ==
  /\ q.st = "waiting" => q.elem = NoElement
  /\ q.st \in {"rechecked", "waiting"} /\ q.elem = NoElement =>
       \/ q.watch = "fired"
       \/ q.watch = "set" /\ elements = {}

LEMMA ToldEach ==
  SleepersAreTold <=> \A p \in Procs, s \in Slots : ToldOK(pop[p][s])
BY DEF SleepersAreTold, ToldOK

LEMMA ToldNext ==
  ASSUME \A p \in Procs, s \in Slots : ToldOK(pop[p][s])'
  PROVE  SleepersAreTold'
BY DEF SleepersAreTold, ToldOK

LEMMA SleeperFacts ==
  ASSUME LoopInv
  PROVE  /\ QueueInv /\ \A p \in Procs, s \in Slots : ToldOK(pop[p][s])
         /\ pop \in [Procs -> [Slots -> Pops]]
BY ToldEach, QueueFacts DEF LoopInv

\* The queue is left alone, and every pop was there or does not sleep.
LEMMA SleepersStay ==
  ASSUME LoopInv, UNCHANGED elements,
         \A p \in Procs, s \in Slots :
           \/ pop'[p][s] = pop[p][s]
           \/ pop'[p][s].st \notin {"rechecked", "waiting"}
           \/ ToldOK(pop'[p][s])
  PROVE  SleepersAreTold'
<1>1. \A p \in Procs, s \in Slots : ToldOK(pop[p][s])'
  BY SleeperFacts DEF ToldOK
<1> QED
  BY <1>1, ToldNext

\* Whatever happens to the queue: every watch that was set fires.
LEMMA SleepersWoken ==
  ASSUME LoopInv, NEW pops, WatchesFire(pops),
         \A p \in Procs, s \in Slots :
           /\ pops[p][s] \in Pops
           /\ \/ pops[p][s] = pop[p][s]
              \/ pops[p][s].st \notin {"rechecked", "waiting"}
  PROVE  SleepersAreTold'
<1>1. ASSUME NEW p \in Procs, NEW s \in Slots
      PROVE  ToldOK(pop[p][s])'
  <2> DEFINE x == pops[p][s]
             w == Fired(x.watch)
  <2>1. x \in Pops /\ pop'[p][s] = [x EXCEPT !.watch = w]
    BY DEF WatchesFire
  <2>2. /\ \/ x.st \notin {"rechecked", "waiting"} \/ x.elem # NoElement
           \/ x.watch \in {"set", "fired"}
        /\ x.st = "waiting" => x.elem = NoElement
    BY SleeperFacts DEF ToldOK
  <2>3. x.watch \in {"set", "fired"} => w = "fired"
    BY DEF Fired
  <2> HIDE DEF x, w
  <2>4. pop'[p][s].st = x.st /\ pop'[p][s].elem = x.elem /\ pop'[p][s].watch = w
    BY <2>1 DEF Pops
  <2> QED
    BY <2>2, <2>3, <2>4 DEF ToldOK
<1> QED
  BY <1>1, ToldNext

\* One pop goes on.
LEMMA SleeperGoesOn ==
  ASSUME LoopInv, NEW p \in Procs, NEW s \in Slots, NEW x, SetPop(p, s, x),
         x.st \notin {"rechecked", "waiting"} \/ ToldOK(x), UNCHANGED elements
  PROVE  SleepersAreTold'
<1>1. \A q \in Procs, t \in Slots :
        pop'[q][t] = IF q = p /\ t = s THEN x ELSE pop[q][t]
  BY SleeperFacts DEF SetPop
<1> QED
  BY <1>1, SleepersStay

LEMMA PopGotoSleeper ==
  ASSUME LoopInv, NEW p \in Procs, NEW s \in Slots, NEW from, NEW to,
         PopGoto(p, s, from, to), UNCHANGED elements,
         to \in {"rechecked", "waiting"} => from = "rechecked",
         to = "waiting" => pop[p][s].elem = NoElement
  PROVE  SleepersAreTold'
<1> DEFINE x == [pop[p][s] EXCEPT !.st = to]
<1>1. pop[p][s] \in Pops /\ ToldOK(pop[p][s])
  BY SleeperFacts
<1>2. x.st = to /\ x.elem = pop[p][s].elem /\ x.watch = pop[p][s].watch
  BY <1>1 DEF Pops
<1>3. SetPop(p, s, x) /\ pop[p][s].st = from
  BY DEF PopGoto
<1> HIDE DEF x
<1>4. x.st \notin {"rechecked", "waiting"} \/ ToldOK(x)
  BY <1>1, <1>2, <1>3 DEF ToldOK
<1> QED
  BY <1>3, <1>4, SleeperGoesOn

LEMMA PoppingSleepers ==
  ASSUME LoopInv, NEW p \in Procs, NEW s \in Slots, Popping(p, s)
  PROVE  SleepersAreTold'
<1>1. CASE PopNolock(p, s) \/ ChildWatcher(p, s)
  <2> DEFINE x == [Idle EXCEPT !.st = "listing"]
  <2>1. x.st = "listing"
    BY DEF Idle
  <2>2. SetPop(p, s, x) /\ UNCHANGED elements
    BY <1>1 DEF PopNolock, ChildWatcher, PopOnly, serverVars
  <2> HIDE DEF x
  <2> QED
    BY <2>1, <2>2, SleeperGoesOn
<1>2. CASE ListQueue(p, s)
  <2> DEFINE x == [Idle EXCEPT !.st = "listed", !.elem = Lowest]
  <2>1. x.st = "listed"
    BY DEF Idle
  <2>2. SetPop(p, s, x) /\ UNCHANGED elements
    BY <1>2 DEF ListQueue, PopOnly, serverVars
  <2> HIDE DEF x
  <2> QED
    BY <2>1, <2>2, SleeperGoesOn
<1>3. CASE PopMinimum(p, s)
  <2>1. UNCHANGED elements
    BY <1>3 DEF PopMinimum, PopOnly, serverVars
  <2> QED
    BY <1>3, <2>1, PopGotoSleeper DEF PopMinimum
<1>4. CASE ListQueueAndWatch(p, s)
  <2> DEFINE x == [st |-> "rechecked", elem |-> Lowest, watch |-> "set"]
  <2>1. Lowest = NoElement => elements = {}
    <3>1. elements \in SUBSET Nat /\ elements \subseteq Elements
      BY SleeperFacts, QueueFacts, ElementsAssumption DEF Elements
    <3>2. elements # {} => Min(elements) \in elements
      BY <3>1, MinMember
    <3> QED
      BY <3>1, <3>2 DEF Lowest, Elements, NoElement
  <2>2. ToldOK(x)
    BY <2>1 DEF ToldOK
  <2>3. SetPop(p, s, x) /\ UNCHANGED elements
    BY <1>4 DEF ListQueueAndWatch, PopOnly, serverVars
  <2> HIDE DEF x
  <2> QED
    BY <2>2, <2>3, SleeperGoesOn
<1>5. CASE GetElement(p, s) \/ QueueGetElement(p, s)
  <2>1. UNCHANGED elements
    BY <1>5 DEF GetElement, QueueGetElement, PopOnly, serverVars
  <2> QED
    BY <1>5, <2>1, PopGotoSleeper DEF GetElement, QueueGetElement
<1>6. CASE DeleteElement(p, s)
  <2> DEFINE x == [pop[p][s] EXCEPT !.st = "deleted"]
             pops == [pop EXCEPT ![p][s] = x]
  <2>1. pop \in [Procs -> [Slots -> Pops]] /\ pop[p][s] \in Pops
    BY SleeperFacts
  <2>2. WatchesFire(pops)
    <3>1. [pop EXCEPT ![p][s].st = "deleted"] = pops
      OBVIOUS
    <3> HIDE DEF pops
    <3> QED
      BY <1>6, <3>1 DEF DeleteElement
  <2>3. x \in Pops /\ x.st = "deleted"
    BY <2>1 DEF Pops, InFlight
  <2> HIDE DEF x
  <2>4. \A q \in Procs, t \in Slots :
          pops[q][t] = IF q = p /\ t = s THEN x ELSE pop[q][t]
    BY <2>1
  <2> HIDE DEF pops
  <2> QED
    BY <2>1, <2>2, <2>3, <2>4, SleepersWoken
<1>7. CASE QueueDeleteCompleted(p, s)
  BY <1>7, IdleOK, SleeperGoesOn DEF QueueDeleteCompleted, serverVars
<1> QED
  BY <1>1, <1>2, <1>3, <1>4, <1>5, <1>6, <1>7 DEF Popping

LEMMA FailedSleepers ==
  ASSUME LoopInv, NEW p \in Procs, NEW s \in Slots,
         PopFails(p, s) \/ DeleteFails(p, s)
  PROVE  SleepersAreTold'
<1>1. CASE PopFails(p, s)
  BY <1>1, IdleOK, SleeperGoesOn DEF PopFails, serverVars
<1>2. CASE DeleteFails(p, s)
  BY <1>2, PopGotoSleeper DEF DeleteFails, serverVars
<1> QED
  BY <1>1, <1>2

\* The pops of an instance end with its mutexes.
LEMMA SleepersGone ==
  ASSUME LoopInv, NEW p \in Procs, UNCHANGED serverVars,
         pop' = [pop EXCEPT ![p] = [s \in Slots |-> Idle]]
  PROVE  SleepersAreTold'
<1>1. \A q \in Procs, t \in Slots :
        pop'[q][t] = IF q = p THEN Idle ELSE pop[q][t]
  BY SleeperFacts
<1> QED
  BY <1>1, IdleOK, SleepersStay DEF serverVars

LEMMA OtherSleepers ==
  ASSUME LoopInv,
         \/ \E p \in Procs : \/ \E s \in Slots : Locking(p, s)
                             \/ QueueSession(p) \/ QueueFaults(p)
         \/ LeftoverExpires /\ UNCHANGED queueVars
         \/ Push
         \/ UNCHANGED allVars
  PROVE  SleepersAreTold'
<1>1. CASE UNCHANGED <<pop, elements>>
  BY <1>1, SleepersStay
<1>2. ASSUME NEW p \in Procs, QueueCleanMutex(p) \/ QueueGone(p)
      PROVE  SleepersAreTold'
  BY <1>2, SleepersGone DEF QueueCleanMutex, QueueGone
<1>3. ASSUME NEW p \in Procs, QueueSession(p) \/ QueueFaults(p)
      PROVE  SleepersAreTold'
  <2>1. \/ UNCHANGED <<pop, elements>> \/ QueueCleanMutex(p) \/ QueueGone(p)
    BY <1>3 DEF QueueSession, QueueFaults, LateCompletion, StaleChildWatcher,
                queueVars, clientVars, serverVars
  <2> QED
    BY <1>1, <1>2, <2>1
<1>4. CASE Push
  BY <1>4, SleeperFacts, SleepersWoken DEF Push
<1>5. CASE UNCHANGED queueVars
  BY <1>1, <1>5 DEF queueVars, clientVars, serverVars
<1> QED
  BY <1>3, <1>4, <1>5 DEF Locking, allVars

-----------------------------------------------------------------------------
(* The invariant of the loops.                                             *)

\* Without a fault no mutex is stranded: what the queue does to its mutex
\* beside the steps of ZkMutex ends mutexes or locks new ones.
LEMMA StrandedStep ==
  ASSUME LoopInv, MutexInv', [QueueNext]_allVars,
         faults' = 0 => faults = 0
  PROVE  StrandedByFault'
<1> SUFFICES ASSUME faults' = 0 PROVE \A q \in Procs : Stranded(q)' = {}
  BY DEF StrandedByFault
<1>1. /\ faults = 0 /\ MutexInv
      /\ \A q \in Procs, t \in Slots : mutex[q][t].st # "stranded"
  BY DEF LoopInv, QueueInv, StrandedByFault, Stranded
<1>2. CASE [Next]_vars
  <2>1. \A q \in Procs, t \in Slots : mutex'[q][t].st # "stranded"
    BY <1>1, <1>2, OnlyFaultsStrand
  <2> QED
    BY <2>1 DEF Stranded
<1>3. ASSUME NEW p \in Procs, LockMove(p)
      PROVE  \A q \in Procs : Stranded(q)' = {}
  <2>1. mutex \in [Procs -> [Slots -> Mutexes]]
    BY LoopFacts
  <2>2. CASE Die(p)
    <3>1. \A q \in Procs, t \in Slots : mutex'[q][t].st # "stranded"
      BY <1>1, <2>1, <2>2 DEF Die, Mutex
    <3> QED
      BY <3>1 DEF Stranded
  <2>3. ASSUME NEW s \in FreeSlots(p), Set(p, s, Mutex("pending"))
        PROVE  \A q \in Procs : Stranded(q)' = {}
    <3>1. \A q \in Procs, t \in Slots : mutex'[q][t].st # "stranded"
      BY <1>1, <2>1, <2>3 DEF Set, Mutex
    <3> QED
      BY <3>1 DEF Stranded
  <2>4. CASE UNCHANGED mutex
    BY <1>1, <2>4 DEF Stranded
  <2> QED
    BY <1>2, <1>3, <2>2, <2>3, <2>4 DEF LockMove
<1>4. CASE UNCHANGED allVars
  BY <1>1, <1>4 DEF allVars, vars, Stranded
<1> QED
  BY <1>1, <1>2, <1>3, <1>4, QueueMoves

LEMMA LoopInitInv == QueueInit => LoopInv
<1> SUFFICES ASSUME QueueInit PROVE LoopInv
  OBVIOUS
<1>1. /\ faults = 0 /\ 1 \in Slots
      /\ \A p \in Procs :
           /\ conn[p] = "down" /\ late[p] = 0
           /\ \A s \in Slots :
                /\ mutex[p][s].st = IF s = 1 THEN "pending" ELSE "free"
                /\ pop[p][s].st = "idle"
  BY BoundsAssumption DEF QueueInit, Init, Mutex, Idle, Slots
<1>2. NoTraceOfFaults
  BY <1>1 DEF NoTraceOfFaults
<1>3. \A p \in Procs : LoopsOK(p)
  BY <1>1 DEF LoopsOK, IsLoop, Underway
<1>4. SleepersAreTold
  BY <1>1 DEF SleepersAreTold
<1>5. StrandedByFault
  BY <1>1 DEF StrandedByFault, Stranded
<1> QED
  BY <1>2, <1>3, <1>4, <1>5, QueueInitInv, LoopsCountedOne DEF LoopInv

LEMMA LoopStepInv ==
  ASSUME LoopInv, [QueueNext]_allVars
  PROVE  LoopInv'
<1>1. QueueInv'
  BY QueueStepInv DEF LoopInv
<1>2. ASSUME NEW p \in Procs, NEW s \in Slots,
             Locking(p, s) \/ Popping(p, s) \/ PopFails(p, s) \/ DeleteFails(p, s)
      PROVE  LeavesNoTrace /\ LoopsCounted'
  BY <1>2, SlotStepNoTrace, LockingLoopsOK, PoppingLoops, FailedLoops
<1>3. ASSUME NEW p \in Procs, QueueSession(p) \/ QueueFaults(p)
      PROVE  LeavesNoTrace /\ LoopsCounted'
  BY <1>3, SessionNoTrace, FaultsNoTrace, SessionLoops, FaultsLoops
<1>4. LeavesNoTrace /\ LoopsCounted'
  BY <1>2, <1>3, OtherLoops DEF QueueNext, Progress
<1>5. SleepersAreTold'
  BY PoppingSleepers, FailedSleepers, OtherSleepers DEF QueueNext, Progress
<1>6. StrandedByFault'
  BY <1>1, <1>4, NoNewTrace, StrandedStep DEF QueueInv
<1> QED
  BY <1>1, <1>4, <1>5, <1>6, NoNewTrace DEF LoopInv

\* Every step that ends a loop starts the next, but for the error answer to a
\* listing, which leaves a stranded mutex (rb_zk.c:314-318); only a fault makes
\* two (rb_monitor_zk.c:217-230,281-305), and a pop sleeps only while the queue
\* is empty or the event that wakes it is on its way (rb_zk.c:753-817).
THEOREM LoopInvariant == QueueSpec => []LoopInv
BY LoopInitInv, LoopStepInv, PTL DEF QueueSpec

\* An instance that runs has a poll loop, whatever requests fail, connections
\* get lost and other instances do, or a mutex that the error answer to its
\* listing stranded (rb_zk.c:314-318), the only way to lose the loop; it has
\* exactly one loop as long as nothing failed (sensors_queue_poll_loop_start,
\* rb_monitor_zk.c:217-230,281-305).
THEOREM LoopLostOnlyStranded == QueueSpec => []PollLoopAlive
<1>1. LoopInv => PollLoopAlive
  <2> SUFFICES ASSUME LoopInv, NEW p \in Procs, conn[p] # "dead"
               PROVE  /\ Loops(p) # {} \/ Stranded(p) # {}
                      /\ faults = 0 => Cardinality(Loops(p)) = 1
    BY DEF PollLoopAlive
  <2>1. PICK s \in Begun(p) : faults = 0 => Begun(p) = {s}
    BY DEF LoopInv, LoopsCounted
  <2>2. faults = 0 => Loops(p) = {s}
    BY <2>1 DEF LoopInv, StrandedByFault, Begun
  <2>3. Cardinality({s}) = 1
    BY FS_Singleton
  <2> QED
    BY <2>1, <2>2, <2>3 DEF Begun
<1> QED
  BY <1>1, LoopInvariant, PTL

\* No pop sleeps through an element: its second listing, with the watch, found
\* the queue empty, and the first push fires the watch
\* (rb_zk_queue_pop_minimum0, rb_zk.c:753-817).
THEOREM NoWakeUpLost == QueueSpec => []SleepersAreTold
<1>1. LoopInv => SleepersAreTold
  BY DEF LoopInv
<1> QED
  BY <1>1, LoopInvariant, PTL

-----------------------------------------------------------------------------
(* The queue at rest.                                                      *)

\* With an element there no pop waits, so none has the mutex.
LEMMA NobodyPops ==
  ASSUME LoopInv, AtRest, elements # {}, Abandoned = {}
  PROVE  ~ SomeoneHolds
<1> SUFFICES ASSUME NEW p \in Procs, NEW s \in Slots, Holds(p, s)
             PROVE  FALSE
  BY DEF SomeoneHolds
<1>1. mutex[p][s].st = "first"
  BY HoldsFirst DEF LoopInv, QueueInv
<1>2. pop[p][s].st # "idle"
  <2>1. <<p, s>> \in Procs \X Slots /\ <<p, s>>[1] = p /\ <<p, s>>[2] = s
    OBVIOUS
  <2> QED
    BY <1>1, <2>1 DEF Abandoned
<1>3. pop[p][s].st = "waiting" /\ pop[p][s].watch # "fired"
  BY <1>2 DEF AtRest
<1>4. ToldOK(pop[p][s])
  BY SleeperFacts
<1> QED
  BY <1>3, <1>4 DEF ToldOK

\* Then every loop waits for its mutex or is stranded, and some node is there to
\* be obtained or was left behind.
LEMMA EmptyAtRest ==
  ASSUME LoopInv, ProcsAssumption
  PROVE  AtRestQueueEmpty
<1> SUFFICES ASSUME AtRest, elements # {}, Abandoned = {}
             PROVE  Orphans # {}
  BY DEF AtRestQueueEmpty
<1>1. MutexInv /\ MutexAtRest /\ ~ SomeoneHolds
  BY NobodyPops DEF LoopInv, QueueInv, AtRest
<1>2. PICK p \in Procs : conn[p] # "dead"
  BY <1>1 DEF ProcsAssumption, MutexAtRest
<1>3. PICK s \in Slots : s \in Begun(p)
  BY <1>2 DEF LoopInv, LoopsCounted, Begun, Loops, Stranded
<1>4. mutex[p][s].st \notin {"free", "first"}
  BY <1>1, <1>3, HoldsFirst DEF Begun, Loops, Stranded, SomeoneHolds
<1>5. mutex[p][s].st \in {"watching", "stranded"}
  BY <1>1, <1>4 DEF MutexAtRest
<1>6. nodes # {}
  BY <1>1, <1>5, SlotFacts DEF SlotOK, NoPath
<1> QED
  BY <1>1, <1>6, LowestHolds

\* The system never comes to rest with a sensor in the queue, for any number of
\* instances and elements, unless a node is left behind (rb_zk.c:753-884).
THEOREM RestIsEmpty == QueueSpec => []AtRestQueueEmpty
BY LoopInvariant, EmptyAtRest, ProcsAssumption, PTL

-----------------------------------------------------------------------------
(* The queue implements the queue of ZkFifo.                               *)

LEMMA InHandIs ==
  ASSUME NEW e
  PROVE  e \in InHand <=>
           \E p \in Procs, s \in Slots :
             pop[p][s].st = "deleting" /\ pop[p][s].elem = e
<1>1. ASSUME e \in InHand
      PROVE  \E p \in Procs, s \in Slots :
               pop[p][s].st = "deleting" /\ pop[p][s].elem = e
  <2>1. PICK x \in {y \in Procs \X Slots : pop[y[1]][y[2]].st = "deleting"} :
               e = pop[x[1]][x[2]].elem
    BY <1>1 DEF InHand
  <2>2. x[1] \in Procs /\ x[2] \in Slots
    BY <2>1
  <2> QED
    BY <2>1, <2>2
<1>2. ASSUME NEW p \in Procs, NEW s \in Slots,
             pop[p][s].st = "deleting", pop[p][s].elem = e
      PROVE  e \in InHand
  <2>1. <<p, s>> \in {y \in Procs \X Slots : pop[y[1]][y[2]].st = "deleting"}
    BY <1>2
  <2> QED
    BY <1>2, <2>1 DEF InHand
<1> QED
  BY <1>1, <1>2

LEMMA InHandNext ==
  ASSUME NEW e
  PROVE  (e \in InHand)' <=>
           \E p \in Procs, s \in Slots :
             pop'[p][s].st = "deleting" /\ pop'[p][s].elem = e
<1>1. ASSUME (e \in InHand)'
      PROVE  \E p \in Procs, s \in Slots :
               pop'[p][s].st = "deleting" /\ pop'[p][s].elem = e
  <2>1. PICK x \in {y \in Procs \X Slots : pop'[y[1]][y[2]].st = "deleting"} :
               e = pop'[x[1]][x[2]].elem
    BY <1>1 DEF InHand
  <2>2. x[1] \in Procs /\ x[2] \in Slots
    BY <2>1
  <2> QED
    BY <2>1, <2>2
<1>2. ASSUME NEW p \in Procs, NEW s \in Slots,
             pop'[p][s].st = "deleting", pop'[p][s].elem = e
      PROVE  (e \in InHand)'
  <2>1. <<p, s>> \in {y \in Procs \X Slots : pop'[y[1]][y[2]].st = "deleting"}
    BY <1>2
  <2> QED
    BY <1>2, <2>1 DEF InHand
<1> QED
  BY <1>1, <1>2

\* The pop that deletes has the only element in hand.
LEMMA InHandOne ==
  ASSUME QueueInv, NEW p \in Procs, NEW s \in Slots, pop[p][s].st = "deleting"
  PROVE  InHand = {pop[p][s].elem}
<1>1. \A e : e \in InHand <=> e = pop[p][s].elem
  BY InHandIs, OnePopWorks
<1> QED
  BY <1>1

LEMMA InHandNone ==
  ASSUME \A p \in Procs, s \in Slots : pop[p][s].st # "deleting"
  PROVE  InHand = {}
BY InHandIs

\* The queue and what was delivered are left alone and nothing new comes to a
\* hand: a hand that loses its element is cut off.
LEMMA QuietHands ==
  ASSUME QueueInv, UNCHANGED <<elements, nextElement, delivered>>,
         \A p \in Procs, s \in Slots :
           pop'[p][s].st = "deleting" => pop'[p][s] = pop[p][s]
  PROVE  [Fifo!Next]_(Fifo!vars)
<1>1. \A e : (e \in InHand)' => e \in InHand
  BY InHandIs, InHandNext
<1>2. InHand' \subseteq InHand
  BY <1>1
<1>3. InHand = {} \/ \E e : InHand = {e}
  BY InHandOne, InHandNone
<1>4. InHand' = InHand \/ (InHand # {} /\ InHand' = {})
  BY <1>2, <1>3
<1>5. CASE InHand' = InHand
  BY <1>5 DEF Fifo!vars
<1>6. CASE InHand # {} /\ InHand' = {}
  BY <1>6 DEF Fifo!Next, Fifo!CutOff
<1> QED
  BY <1>4, <1>5, <1>6

LEMMA QuietSetPop ==
  ASSUME QueueInv, NEW p \in Procs, NEW s \in Slots, NEW x, SetPop(p, s, x),
         x.st # "deleting", UNCHANGED <<elements, nextElement, delivered>>
  PROVE  [Fifo!Next]_(Fifo!vars)
<1>1. \A q \in Procs, t \in Slots :
        pop'[q][t] = IF q = p /\ t = s THEN x ELSE pop[q][t]
  BY QueueFacts DEF SetPop
<1> QED
  BY <1>1, QuietHands

LEMMA QuietPopGoto ==
  ASSUME QueueInv, NEW p \in Procs, NEW s \in Slots, NEW from, NEW to,
         PopGoto(p, s, from, to), to # "deleting",
         UNCHANGED <<elements, nextElement, delivered>>
  PROVE  [Fifo!Next]_(Fifo!vars)
<1> DEFINE x == [pop[p][s] EXCEPT !.st = to]
<1>1. pop[p][s] \in Pops
  BY QueueFacts
<1>2. x.st = to /\ SetPop(p, s, x)
  BY <1>1 DEF Pops, PopGoto
<1> HIDE DEF x
<1> QED
  BY <1>2, QuietSetPop

\* rb_zk_queue_get_element hands the lowest element over: no other is in hand.
LEMMA FifoHandOver ==
  ASSUME QueueInv, NEW p \in Procs, NEW s \in Slots, QueueGetElement(p, s)
  PROVE  [Fifo!Next]_(Fifo!vars)
<1> DEFINE x == [pop[p][s] EXCEPT !.st = "deleting"]
           e == pop[p][s].elem
<1>1. /\ pop[p][s].st = "got" /\ SetPop(p, s, x)
      /\ delivered' = [delivered EXCEPT ![e] = @ + 1]
      /\ UNCHANGED <<elements, nextElement>>
  BY DEF QueueGetElement, PopGoto, HandOver, serverVars
<1>2. pop[p][s] \in Pops /\ HandOK(pop[p][s])
  BY QueueFacts, HandsOK
<1>3. x \in Pops /\ x.st = "deleting" /\ x.elem = e
  BY <1>2 DEF Pops, InFlight
<1>4. e \in elements /\ \A f \in elements : e <= f
  BY <1>1, <1>2 DEF HandOK, InFlight
<1> HIDE DEF x, e
<1>5. /\ pop'[p][s] = x
      /\ \A q \in Procs, t \in Slots : q # p \/ t # s =>
           pop'[q][t] = pop[q][t] /\ pop[q][t].st = "idle"
  BY <1>1, <1>3, SetPopSlot, OnePopWorks
<1>6. InHand = {}
  <2>1. \A q \in Procs, t \in Slots : pop[q][t].st # "deleting"
    BY <1>1, <1>5
  <2> QED
    BY <2>1, InHandNone
<1>7. \A f : (f \in InHand)' <=> f = e
  BY <1>3, <1>5, InHandNext
<1>8. InHand' = {e}
  BY <1>7
<1>9. Fifo!HandOver(e)
  BY <1>1, <1>4, <1>6, <1>8 DEF Fifo!HandOver
<1> QED
  BY <1>4, <1>9 DEF Fifo!Next

LEMMA FifoDelete ==
  ASSUME QueueInv, NEW p \in Procs, NEW s \in Slots, DeleteElement(p, s)
  PROVE  [Fifo!Next]_(Fifo!vars)
<1> DEFINE x == [pop[p][s] EXCEPT !.st = "deleted"]
           pops == [pop EXCEPT ![p][s] = x]
<1>1. /\ pop[p][s].st = "deleting"
      /\ elements' = elements \ {pop[p][s].elem}
      /\ UNCHANGED <<nextElement, delivered>>
  BY DEF DeleteElement, queueHistory
<1>2. /\ pop \in [Procs -> [Slots -> Pops]] /\ pop[p][s] \in Pops
      /\ staleChild \in [Procs -> Watches]
  BY QueueFacts
<1>3. WatchesFire(pops)
  <2>1. [pop EXCEPT ![p][s].st = "deleted"] = pops
    OBVIOUS
  <2> HIDE DEF pops
  <2> QED
    BY <2>1 DEF DeleteElement
<1>4. x \in Pops /\ x.st = "deleted"
  BY <1>2 DEF Pops, InFlight
<1> HIDE DEF x
<1>5. /\ pops \in [Procs -> [Slots -> Pops]]
      /\ \A q \in Procs, t \in Slots :
           pops[q][t] = IF q = p /\ t = s THEN x ELSE pop[q][t]
  BY <1>2, <1>4
<1> HIDE DEF pops
<1>6. \A q \in Procs, t \in Slots : pop'[q][t].st = pops[q][t].st
  BY <1>2, <1>3, <1>5, WatchesFireOnly
<1>7. \A q \in Procs, t \in Slots : pop'[q][t].st # "deleting"
  BY <1>1, <1>4, <1>5, <1>6, OnePopWorks
<1>8. InHand = {pop[p][s].elem}
  BY <1>1, InHandOne
<1>9. InHand' = {}
  BY <1>7, InHandNext
<1> QED
  BY <1>1, <1>8, <1>9 DEF Fifo!Next, Fifo!Delete

LEMMA FifoPush ==
  ASSUME QueueInv, Push
  PROVE  [Fifo!Next]_(Fifo!vars)
<1>1. /\ nextElement <= MaxElements /\ elements' = elements \cup {nextElement}
      /\ nextElement' = nextElement + 1 /\ UNCHANGED delivered
      /\ WatchesFire(pop)
  BY DEF Push, queueHistory
<1>2. /\ pop \in [Procs -> [Slots -> Pops]] /\ nextElement \in Nat
      /\ staleChild \in [Procs -> Watches] /\ nextElement >= 1
  BY QueueFacts, ElementsAssumption
<1>3. \A q \in Procs, t \in Slots :
        pop'[q][t].st = pop[q][t].st /\ pop'[q][t].elem = pop[q][t].elem
  BY <1>1, <1>2, WatchesFireOnly
<1>4. \A e : (e \in InHand)' <=> e \in InHand
  BY <1>3, InHandIs, InHandNext
<1>5. InHand' = InHand
  BY <1>4
<1>6. /\ (nextElement - 1)' = nextElement - 1 + 1
      /\ nextElement - 1 + 1 \in Elements
      /\ elements' = elements \cup {(nextElement - 1)'}
  <2>1. nextElement - 1 + 1 = nextElement /\ nextElement' - 1 = nextElement
    BY <1>1, <1>2
  <2> QED
    BY <1>1, <1>2, <2>1, ElementsAssumption DEF Elements
<1>7. Fifo!Push
  BY <1>1, <1>5, <1>6 DEF Fifo!Push
<1> QED
  BY <1>7 DEF Fifo!Next

LEMMA FifoPopping ==
  ASSUME QueueInv, NEW p \in Procs, NEW s \in Slots, Popping(p, s)
  PROVE  [Fifo!Next]_(Fifo!vars)
<1>1. CASE PopNolock(p, s) \/ ChildWatcher(p, s)
  <2> DEFINE x == [Idle EXCEPT !.st = "listing"]
  <2>1. x.st # "deleting"
    BY DEF Idle
  <2>2. SetPop(p, s, x) /\ UNCHANGED <<elements, nextElement, delivered>>
    BY <1>1 DEF PopNolock, ChildWatcher, PopOnly, serverVars, queueHistory
  <2> HIDE DEF x
  <2> QED
    BY <2>1, <2>2, QuietSetPop
<1>2. CASE ListQueue(p, s)
  <2> DEFINE x == [Idle EXCEPT !.st = "listed", !.elem = Lowest]
  <2>1. x.st # "deleting"
    BY DEF Idle
  <2>2. SetPop(p, s, x) /\ UNCHANGED <<elements, nextElement, delivered>>
    BY <1>2 DEF ListQueue, PopOnly, serverVars, queueHistory
  <2> HIDE DEF x
  <2> QED
    BY <2>1, <2>2, QuietSetPop
<1>3. CASE ListQueueAndWatch(p, s)
  <2> DEFINE x == [st |-> "rechecked", elem |-> Lowest, watch |-> "set"]
  <2>1. x.st # "deleting"
    OBVIOUS
  <2>2. SetPop(p, s, x) /\ UNCHANGED <<elements, nextElement, delivered>>
    BY <1>3 DEF ListQueueAndWatch, PopOnly, serverVars, queueHistory
  <2> HIDE DEF x
  <2> QED
    BY <2>1, <2>2, QuietSetPop
<1>4. CASE PopMinimum(p, s) \/ GetElement(p, s)
  <2>1. UNCHANGED <<elements, nextElement, delivered>>
    BY <1>4 DEF PopMinimum, GetElement, PopOnly, serverVars, queueHistory
  <2> QED
    BY <1>4, <2>1, QuietPopGoto DEF PopMinimum, GetElement
<1>5. CASE QueueDeleteCompleted(p, s)
  BY <1>5, IdleOK, QuietSetPop
     DEF QueueDeleteCompleted, serverVars, queueHistory
<1> QED
  BY <1>1, <1>2, <1>3, <1>4, <1>5, FifoHandOver, FifoDelete DEF Popping

LEMMA FifoFailed ==
  ASSUME QueueInv, NEW p \in Procs, NEW s \in Slots,
         PopFails(p, s) \/ DeleteFails(p, s)
  PROVE  [Fifo!Next]_(Fifo!vars)
<1>1. CASE PopFails(p, s)
  BY <1>1, IdleOK, QuietSetPop DEF PopFails, serverVars, queueHistory
<1>2. CASE DeleteFails(p, s)
  BY <1>2, QuietPopGoto DEF DeleteFails, serverVars
<1> QED
  BY <1>1, <1>2

\* The session or the process ends, and with it every hand of the instance.
LEMMA FifoOther ==
  ASSUME QueueInv,
         \/ \E p \in Procs : \/ \E s \in Slots : Locking(p, s)
                             \/ QueueSession(p) \/ QueueFaults(p)
         \/ LeftoverExpires /\ UNCHANGED queueVars
         \/ UNCHANGED allVars
  PROVE  [Fifo!Next]_(Fifo!vars)
<1>1. CASE UNCHANGED <<pop, elements, nextElement, delivered>>
  BY <1>1, QuietHands
<1>2. ASSUME NEW p \in Procs, QueueCleanMutex(p) \/ QueueGone(p)
      PROVE  [Fifo!Next]_(Fifo!vars)
  <2>1. \A q \in Procs, t \in Slots :
          pop'[q][t] = IF q = p THEN Idle ELSE pop[q][t]
    BY <1>2, QueueFacts DEF QueueCleanMutex, QueueGone
  <2> QED
    BY <1>2, <2>1, IdleOK, QuietHands
       DEF QueueCleanMutex, QueueGone, serverVars
<1>3. ASSUME NEW p \in Procs, QueueSession(p) \/ QueueFaults(p)
      PROVE  [Fifo!Next]_(Fifo!vars)
  <2>1. \/ UNCHANGED <<pop, elements, nextElement, delivered>>
        \/ QueueCleanMutex(p) \/ QueueGone(p)
    BY <1>3 DEF QueueSession, QueueFaults, LateCompletion, StaleChildWatcher,
                queueVars, clientVars, serverVars, queueHistory
  <2> QED
    BY <1>1, <1>2, <2>1
<1>4. CASE UNCHANGED queueVars
  BY <1>1, <1>4 DEF queueVars, clientVars, serverVars, queueHistory
<1> QED
  BY <1>3, <1>4 DEF Locking, allVars

LEMMA FifoStep ==
  ASSUME QueueInv, [QueueNext]_allVars
  PROVE  [Fifo!Next]_(Fifo!vars)
BY FifoPopping, FifoFailed, FifoPush, FifoOther DEF QueueNext, Progress

LEMMA FifoInit == QueueInit => Fifo!Init
<1> SUFFICES ASSUME QueueInit PROVE Fifo!Init
  OBVIOUS
<1>1. \A p \in Procs, s \in Slots : pop[p][s].st # "deleting"
  BY DEF QueueInit, Idle
<1>2. InHand = {}
  BY <1>1, InHandNone
<1> QED
  BY <1>2 DEF QueueInit, Fifo!Init

\* All the pops together are one queue that hands over its oldest element, one
\* at a time, and hands none over again that was not cut off (rb_zk.c:630-884,
\* rb_monitor_zk.c:217-305).
THEOREM FifoImplemented == QueueSpec => ImplementsFifo
BY FifoInit, FifoStep, QueueInvariant, PTL
   DEF QueueSpec, ImplementsFifo, Fifo!Spec

=============================================================================
