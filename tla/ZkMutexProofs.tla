---------------------------- MODULE ZkMutexProofs ----------------------------
(***************************************************************************)
(* Proofs about ZkMutex for any set of instances and any bounds.           *)
(***************************************************************************)
EXTENDS ZkMutex, WellFoundedInduction, TLAPS

-----------------------------------------------------------------------------
(* The nodes listed.                                                       *)

LEMMA NotBelow ==
  ASSUME NEW x \in Nat, NEW y \in Nat, ~ (<<y, x>> \in OpToRel(<, Nat))
  PROVE  x <= y
BY DEF OpToRel

LEMMA LeastNumber ==
  ASSUME NEW S \in SUBSET Nat, S # {}
  PROVE  \E x \in S : \A y \in S : x <= y
<1>1. PICK x \in S : \A y \in S : ~ (<<y, x>> \in OpToRel(<, Nat))
  BY NatLessThanWellFounded, WFMin
<1>2. ASSUME NEW y \in S PROVE x <= y
  BY <1>1, NotBelow
<1> QED
  BY <1>2

LEMMA GreatestNumber ==
  ASSUME NEW k \in Nat, NEW S \in SUBSET (0..k), S # {}
  PROVE  \E x \in S : \A y \in S : x >= y
<1> DEFINE T == {k - x : x \in S}
<1>1. T \in SUBSET Nat
  OBVIOUS
<1>2. T # {}
  OBVIOUS
<1>3. PICK t \in T : \A u \in T : t <= u
  <2> HIDE DEF T
  <2> QED
    BY <1>1, <1>2, LeastNumber
<1>4. PICK x \in S : t = k - x
  OBVIOUS
<1>5. ASSUME NEW y \in S PROVE x >= y
  <2>1. k - y \in T
    OBVIOUS
  <2>2. t <= k - y
    BY <1>3, <2>1
  <2> QED
    BY <1>4, <2>2
<1> QED
  BY <1>5

\* The lowest of some numbers is one of them.
LEMMA MinMember ==
  ASSUME NEW S \in SUBSET Nat, S # {}
  PROVE  Min(S) \in S /\ \A y \in S : Min(S) <= y
BY LeastNumber DEF Min

\* leader_previous_string finds the node just before ours, or none.
LEMMA PreviousNodeBefore ==
  ASSUME MaxNodes \in Nat, Numbers \subseteq 1..MaxNodes, NEW node \in 0..MaxNodes
  PROVE  /\ PreviousNode(node) \in 0..MaxNodes
         /\ PreviousNode(node) = NoNode \/ PreviousNode(node) \in Numbers
         /\ PreviousNode(node) # NoNode => PreviousNode(node) < node
         /\ \A n \in Numbers : n < node => n <= PreviousNode(node)
<1> DEFINE before == {n \in Numbers : n < node}
<1>1. CASE before = {}
  BY <1>1 DEF PreviousNode, NoNode
<1>2. CASE before # {}
  <2>1. before \in SUBSET (0..MaxNodes)
    <3>1. ASSUME NEW n \in before PROVE n \in 0..MaxNodes
      <4>1. n \in Numbers
        OBVIOUS
      <4>2. n \in 1..MaxNodes
        BY <4>1
      <4> QED
        BY <4>2
    <3> QED
      BY <3>1
  <2>2. Max(before) \in before /\ \A y \in before : Max(before) >= y
    BY <1>2, <2>1, GreatestNumber DEF Max
  <2>3. PreviousNode(node) = Max(before)
    BY <1>2 DEF PreviousNode
  <2>4. PreviousNode(node) \in Numbers
    BY <2>2, <2>3
  <2>5. ASSUME NEW n \in Numbers, n < node PROVE n <= PreviousNode(node)
    <3>1. n \in before
      BY <2>5
    <3>2. Max(before) >= n
      BY <2>2, <3>1
    <3>3. n \in 1..MaxNodes /\ Max(before) \in 1..MaxNodes
      BY <2>3, <2>4
    <3> HIDE DEF before
    <3> QED
      BY <2>3, <3>2, <3>3
  <2>6. PreviousNode(node) \in 1..MaxNodes
    BY <2>4
  <2>7. PreviousNode(node) < node
    BY <2>2, <2>3
  <2> QED
    BY <2>4, <2>5, <2>6, <2>7
<1> QED
  BY <1>1, <1>2

-----------------------------------------------------------------------------
(* The invariant, by the mutex of each slot and what all of them share.    *)

SlotOK(p, s) ==
  /\ mutex[p][s].node = NoNode <=> mutex[p][s].st \in NoPath
  /\ conn[p] \in {"down", "dead"} => mutex[p][s].st \in {"free", "pending"}
  /\ mutex[p][s].st \notin NoPath \cup {"deleted"} =>
       [seq |-> mutex[p][s].node, owner |-> p, live |-> TRUE] \in nodes
  /\ mutex[p][s].node < nextNode
  /\ mutex[p][s].st \in {"listed", "watching"} =>
       ~ \E n \in Numbers : mutex[p][s].prev < n /\ n < mutex[p][s].node
  /\ mutex[p][s].obtained <=>
       mutex[p][s].st \in {"first", "deleting", "deleted"}
  /\ mutex[p][s].prev # NoNode => mutex[p][s].prev < mutex[p][s].node
  /\ mutex[p][s].st = "watching" => mutex[p][s].prev # NoNode
  /\ mutex[p][s].st = "first" => \A n \in Numbers : mutex[p][s].node <= n
  /\ mutex[p][s].st \in {"created", "listing", "listed", "watching"} =>
       granted < mutex[p][s].node

SharedOK ==
  /\ conn \in [Procs -> {"up", "lost", "down", "dead"}]
  /\ mutex \in [Procs -> [Slots -> Mutexes]]
  /\ stale \in [Procs -> SUBSET (1..MaxNodes)]
  /\ nodes \subseteq [seq : 1..MaxNodes, owner : Procs, live : BOOLEAN]
  /\ nextNode \in 1..(MaxNodes + 1)
  /\ faults \in 0..MaxFaults
  /\ granted \in 0..MaxNodes
  /\ \A n \in Numbers : n < nextNode
  /\ granted < nextNode
  /\ \A n \in Numbers : granted <= n

LEMMA InvBySlots ==
  MutexInv <=>
    SharedOK /\ OneMutexPerNode /\ \A p \in Procs, s \in Slots : SlotOK(p, s)
BY DEF MutexInv, TypeOK, SessionEventSeen, OwnNodeThere, NumbersPast,
       WatchesItsTurn, WatchesBefore, HolderIsLowest, GrantsPast, SharedOK,
       SlotOK

LEMMA InvBySlotsNext ==
  MutexInv' <=>
    /\ SharedOK' /\ OneMutexPerNode'
    /\ \A p \in Procs, s \in Slots : SlotOK(p, s)'
BY DEF MutexInv, TypeOK, SessionEventSeen, OwnNodeThere, NumbersPast,
       WatchesItsTurn, WatchesBefore, HolderIsLowest, GrantsPast, SharedOK,
       SlotOK

\* A step that creates no node and gives no mutex away keeps the invariant if
\* every mutex stays in order and has its old node or none.
LEMMA NoNewNode ==
  ASSUME MutexInv,
         UNCHANGED <<nextNode, granted>>,
         nodes' \subseteq [seq : 1..MaxNodes, owner : Procs, live : BOOLEAN],
         Numbers' \subseteq Numbers,
         conn' \in [Procs -> {"up", "lost", "down", "dead"}],
         mutex' \in [Procs -> [Slots -> Mutexes]],
         stale' \in [Procs -> SUBSET (1..MaxNodes)],
         faults' \in 0..MaxFaults,
         \A q \in Procs, t \in Slots :
           /\ SlotOK(q, t)'
           /\ mutex'[q][t].node = NoNode \/ mutex'[q][t].node = mutex[q][t].node
  PROVE  MutexInv'
<1>1. SharedOK /\ OneMutexPerNode
  BY InvBySlots
<1>2. SharedOK'
  BY <1>1 DEF SharedOK
<1>3. OneMutexPerNode'
  BY <1>1 DEF OneMutexPerNode
<1> QED
  BY <1>2, <1>3, InvBySlotsNext

\* Such a step keeps in order a mutex that it leaves alone.
LEMMA Undisturbed ==
  ASSUME MutexInv, NEW q \in Procs, NEW t \in Slots,
         UNCHANGED <<nextNode, granted>>,
         Numbers' \subseteq Numbers,
         mutex'[q][t] = mutex[q][t],
         \/ conn'[q] = conn[q] \/ conn'[q] \notin {"down", "dead"}
         \/ mutex[q][t].st \in {"free", "pending"},
         mutex[q][t].st \notin NoPath \cup {"deleted"} =>
           [seq |-> mutex[q][t].node, owner |-> q, live |-> TRUE] \in nodes'
  PROVE  SlotOK(q, t)'
BY InvBySlots DEF SlotOK

\* A mutex that is locked anew, or given back, is in order.
LEMMA FreshOK ==
  ASSUME MutexInv, NEW q \in Procs, NEW t \in Slots, UNCHANGED nextNode,
         mutex'[q][t] \in {Mutex("pending"), Mutex("free")}
  PROVE  SlotOK(q, t)'
<1>1. nextNode \in Nat /\ nextNode > 0
  BY InvBySlots DEF SharedOK
<1> QED
  BY <1>1 DEF SlotOK, Mutex, NoPath, NoNode

LEMMA FreshMutex == Mutex("pending") \in Mutexes /\ Mutex("free") \in Mutexes
BY BoundsAssumption DEF Mutex, Mutexes, NoPath, NoNode

\* One slot changes.
LEMMA SetSlot ==
  ASSUME MutexInv, NEW p \in Procs, NEW s \in Slots, NEW m \in Mutexes,
         Set(p, s, m)
  PROVE  /\ mutex' \in [Procs -> [Slots -> Mutexes]]
         /\ mutex'[p][s] = m
         /\ \A q \in Procs, t \in Slots :
              q # p \/ t # s => mutex'[q][t] = mutex[q][t]
<1>1. mutex \in [Procs -> [Slots -> Mutexes]]
  BY InvBySlots DEF SharedOK
<1> QED
  BY <1>1 DEF Set

\* Nothing but one mutex changes, and it keeps its node.
LEMMA OneSlot ==
  ASSUME MutexInv, NEW p \in Procs, NEW s \in Slots, NEW m \in Mutexes,
         Set(p, s, m), m.node = NoNode \/ m.node = mutex[p][s].node,
         SlotOK(p, s)',
         UNCHANGED <<conn, stale, nodes, nextNode, granted>>,
         faults' \in 0..MaxFaults
  PROVE  MutexInv'
<1>1. SharedOK
  BY InvBySlots
<1>2. /\ mutex' \in [Procs -> [Slots -> Mutexes]]
      /\ mutex'[p][s] = m
      /\ \A q \in Procs, t \in Slots :
           q # p \/ t # s => mutex'[q][t] = mutex[q][t]
  BY SetSlot
<1>3. Numbers' = Numbers
  BY DEF Numbers
<1>4. ASSUME NEW q \in Procs, NEW t \in Slots
      PROVE  /\ SlotOK(q, t)'
             /\ mutex'[q][t].node = NoNode \/ mutex'[q][t].node = mutex[q][t].node
  <2>1. CASE q = p /\ t = s
    BY <1>2, <2>1
  <2>2. CASE q # p \/ t # s
    <3>1. mutex'[q][t] = mutex[q][t]
      BY <1>2, <2>2
    <3>2. SlotOK(q, t)
      BY InvBySlots
    <3>3. mutex[q][t].st \notin NoPath \cup {"deleted"} =>
            [seq |-> mutex[q][t].node, owner |-> q, live |-> TRUE] \in nodes'
      BY <3>2 DEF SlotOK
    <3> QED
      BY <1>3, <3>1, <3>3, Undisturbed
  <2> QED
    BY <2>1, <2>2
<1> QED
  BY <1>1, <1>2, <1>3, <1>4, NoNewNode DEF SharedOK

-----------------------------------------------------------------------------
(* Each action keeps the invariant.                                        *)

\* The facts about one mutex that the steps below start from.
LEMMA SlotFacts ==
  ASSUME MutexInv, NEW p \in Procs, NEW s \in Slots
  PROVE  /\ mutex[p][s] \in Mutexes
         /\ SlotOK(p, s)
         /\ Numbers \subseteq 1..MaxNodes
         /\ faults \in 0..MaxFaults
         /\ nextNode \in 1..(MaxNodes + 1)
         /\ granted \in 0..MaxNodes
BY InvBySlots DEF SharedOK, Numbers

LEMMA CreateCompleteStep ==
  ASSUME MutexInv, NEW p \in Procs, NEW s \in Slots,
         CreateMutexNodeComplete(p, s)
  PROVE  MutexInv'
<1> DEFINE m == [mutex[p][s] EXCEPT !.st = "listing"]
<1>1. mutex[p][s] \in Mutexes /\ SlotOK(p, s) /\ faults \in 0..MaxFaults
  BY SlotFacts
<1>2. /\ Delivering(p) /\ mutex[p][s].st = "created" /\ Set(p, s, m)
      /\ UNCHANGED <<conn, stale, nodes, nextNode, faults, granted>>
  BY DEF CreateMutexNodeComplete
<1>3. m \in Mutexes /\ m.node = mutex[p][s].node
  BY <1>1 DEF Mutexes, Paths
<1>4. mutex'[p][s] = m
  BY <1>2, <1>3, SetSlot
<1>5. SlotOK(p, s)'
  BY <1>1, <1>2, <1>4 DEF SlotOK, Delivering, Numbers, NoPath, Mutexes
<1> QED
  BY <1>1, <1>2, <1>3, <1>5, OneSlot

LEMMA GetChildrenStep ==
  ASSUME MutexInv, NEW p \in Procs, NEW s \in Slots, GetChildren(p, s)
  PROVE  MutexInv'
<1> DEFINE m == [mutex[p][s] EXCEPT
                   !.st = "listed", !.prev = PreviousNode(mutex[p][s].node)]
<1>1. /\ mutex[p][s] \in Mutexes /\ SlotOK(p, s) /\ faults \in 0..MaxFaults
      /\ Numbers \subseteq 1..MaxNodes
  BY SlotFacts
<1>2. /\ conn[p] = "up" /\ mutex[p][s].st = "listing" /\ Set(p, s, m)
      /\ UNCHANGED <<conn, stale, nodes, nextNode, faults, granted>>
  BY DEF GetChildren
<1>3. mutex[p][s].node \in 0..MaxNodes
  BY <1>1 DEF Mutexes
<1>4. /\ PreviousNode(mutex[p][s].node) \in 0..MaxNodes
      /\ \A n \in Numbers :
           n < mutex[p][s].node => n <= PreviousNode(mutex[p][s].node)
      /\ PreviousNode(mutex[p][s].node) # NoNode =>
           PreviousNode(mutex[p][s].node) < mutex[p][s].node
  BY <1>1, <1>3, PreviousNodeBefore, BoundsAssumption
<1>5. m \in Mutexes /\ m.node = mutex[p][s].node
  BY <1>1, <1>4 DEF Mutexes, Paths
<1>6. mutex'[p][s] = m
  BY <1>2, <1>5, SetSlot
<1>7. Numbers' = Numbers
  BY <1>2 DEF Numbers
<1>8. ~ \E n \in Numbers :
          PreviousNode(mutex[p][s].node) < n /\ n < mutex[p][s].node
  <2>1. ASSUME NEW n \in Numbers, PreviousNode(mutex[p][s].node) < n,
               n < mutex[p][s].node
        PROVE  FALSE
    <3>1. n \in 1..MaxNodes
      BY <1>1
    <3>2. n <= PreviousNode(mutex[p][s].node)
      BY <1>4, <2>1
    <3> QED
      BY <1>4, <2>1, <3>1, <3>2
  <2> QED
    BY <2>1
<1>9. /\ m.st = "listed" /\ m.prev = PreviousNode(mutex[p][s].node)
      /\ m.obtained = mutex[p][s].obtained
  BY <1>1 DEF Mutexes
<1>10. SlotOK(p, s)'
  <2> HIDE DEF m
  <2> QED
    BY <1>1, <1>2, <1>4, <1>5, <1>6, <1>7, <1>8, <1>9 DEF SlotOK, NoPath
<1> QED
  BY <1>1, <1>2, <1>5, <1>10, OneSlot

LEMMA WatchPreviousStep ==
  ASSUME MutexInv, NEW p \in Procs, NEW s \in Slots, WatchPrevious(p, s)
  PROVE  MutexInv'
<1> DEFINE m == [mutex[p][s] EXCEPT !.st = "watching"]
<1>1. /\ mutex[p][s] \in Mutexes /\ SlotOK(p, s) /\ faults \in 0..MaxFaults
      /\ Numbers \subseteq 1..MaxNodes
  BY SlotFacts
<1>2. /\ conn[p] = "up" /\ mutex[p][s].st = "listed" /\ Set(p, s, m)
      /\ mutex[p][s].prev \in Numbers
      /\ UNCHANGED <<conn, stale, nodes, nextNode, faults, granted>>
  BY DEF WatchPrevious
<1>3. m \in Mutexes /\ m.node = mutex[p][s].node
  BY <1>1 DEF Mutexes, Paths
<1>4. mutex'[p][s] = m
  BY <1>2, <1>3, SetSlot
<1>5. mutex[p][s].prev # NoNode
  <2>1. mutex[p][s].prev \in 1..MaxNodes
    BY <1>1, <1>2
  <2> QED
    BY <2>1 DEF NoNode
<1>6. Numbers' = Numbers
  BY <1>2 DEF Numbers
<1>7. SlotOK(p, s)'
  BY <1>1, <1>2, <1>4, <1>5, <1>6 DEF SlotOK, NoPath, Mutexes
<1> QED
  BY <1>1, <1>2, <1>3, <1>7, OneSlot

LEMMA PreviousGoneStep ==
  ASSUME MutexInv, NEW p \in Procs, NEW s \in Slots, PreviousGone(p, s)
  PROVE  MutexInv'
<1> DEFINE m == Mutex("pending")
<1>1. faults \in 0..MaxFaults
  BY SlotFacts
<1>2. /\ Set(p, s, m)
      /\ UNCHANGED <<conn, stale, nodes, nextNode, faults, granted>>
  BY DEF PreviousGone
<1>3. m \in Mutexes /\ m.node = NoNode
  BY FreshMutex DEF Mutex
<1>4. mutex'[p][s] = m
  BY <1>2, <1>3, SetSlot
<1>5. SlotOK(p, s)'
  BY <1>2, <1>4, FreshOK
<1> QED
  BY <1>1, <1>2, <1>3, <1>5, OneSlot

LEMMA PreviousLeaderWatcherStep ==
  ASSUME MutexInv, NEW p \in Procs, NEW s \in Slots,
         PreviousLeaderWatcher(p, s)
  PROVE  MutexInv'
<1> DEFINE m == [mutex[p][s] EXCEPT !.st = "listing", !.prev = NoNode]
<1>1. mutex[p][s] \in Mutexes /\ SlotOK(p, s) /\ faults \in 0..MaxFaults
  BY SlotFacts
<1>2. /\ conn[p] = "up" /\ mutex[p][s].st = "watching" /\ Set(p, s, m)
      /\ UNCHANGED <<conn, stale, nodes, nextNode, faults, granted>>
  BY DEF PreviousLeaderWatcher
<1>0. NoNode \in 0..MaxNodes
  BY BoundsAssumption DEF NoNode
<1>3. m \in Mutexes /\ m.node = mutex[p][s].node
  BY <1>0, <1>1 DEF Mutexes, Paths
<1>4. mutex'[p][s] = m
  BY <1>2, <1>3, SetSlot
<1>5. SlotOK(p, s)'
  BY <1>1, <1>2, <1>4 DEF SlotOK, Numbers, NoPath, Mutexes
<1> QED
  BY <1>1, <1>2, <1>3, <1>5, OneSlot

LEMMA DeleteMutexCompletedStep ==
  ASSUME MutexInv, NEW p \in Procs, NEW s \in Slots,
         DeleteMutexCompleted(p, s)
  PROVE  MutexInv'
<1> DEFINE m == Mutex("free")
<1>1. faults \in 0..MaxFaults
  BY SlotFacts
<1>2. /\ Set(p, s, m)
      /\ UNCHANGED <<conn, stale, nodes, nextNode, faults, granted>>
  BY DEF DeleteMutexCompleted
<1>3. m \in Mutexes /\ m.node = NoNode
  BY FreshMutex DEF Mutex
<1>4. mutex'[p][s] = m
  BY <1>2, <1>3, SetSlot
<1>5. SlotOK(p, s)'
  BY <1>2, <1>4, FreshOK
<1> QED
  BY <1>1, <1>2, <1>3, <1>5, OneSlot

\* Every slot of one instance may change.
LEMMA SlotsOf ==
  ASSUME MutexInv, NEW p \in Procs, NEW f \in [Slots -> Mutexes],
         mutex' = [mutex EXCEPT ![p] = f]
  PROVE  /\ mutex' \in [Procs -> [Slots -> Mutexes]]
         /\ \A t \in Slots : mutex'[p][t] = f[t]
         /\ \A q \in Procs, t \in Slots :
              q # p => mutex'[q][t] = mutex[q][t]
<1>1. mutex \in [Procs -> [Slots -> Mutexes]]
  BY InvBySlots DEF SharedOK
<1> QED
  BY <1>1

LEMMA DoPendingLocksStep ==
  ASSUME MutexInv, NEW p \in Procs, DoPendingLocks(p)
  PROVE  MutexInv'
<1> DEFINE f == [s \in Slots |->
                   IF mutex[p][s].st = "pending"
                     THEN [mutex[p][s] EXCEPT !.st = "creating"]
                     ELSE mutex[p][s]]
<1>1. SharedOK
  BY InvBySlots
<1>2. f \in [Slots -> Mutexes]
  <2>1. ASSUME NEW s \in Slots PROVE f[s] \in Mutexes
    BY SlotFacts DEF Mutexes, NoPath
  <2> QED
    BY <2>1
<1>3. mutex' = [mutex EXCEPT ![p] = f]
  BY <1>1 DEF DoPendingLocks, SharedOK
<1>4. /\ conn[p] = "up"
      /\ UNCHANGED <<conn, stale, nodes, nextNode, faults, granted>>
  BY DEF DoPendingLocks
<1>5. /\ mutex' \in [Procs -> [Slots -> Mutexes]]
      /\ \A t \in Slots : mutex'[p][t] = f[t]
      /\ \A q \in Procs, t \in Slots : q # p => mutex'[q][t] = mutex[q][t]
  <2> HIDE DEF f
  <2> QED
    BY <1>2, <1>3, SlotsOf
<1>6. Numbers' = Numbers
  BY <1>4 DEF Numbers
<1>7. ASSUME NEW q \in Procs, NEW t \in Slots
      PROVE  /\ SlotOK(q, t)'
             /\ mutex'[q][t].node = NoNode \/ mutex'[q][t].node = mutex[q][t].node
  <2>1. SlotOK(q, t) /\ mutex[q][t] \in Mutexes
    BY SlotFacts
  <2>2. CASE mutex'[q][t] = mutex[q][t]
    BY <1>4, <1>6, <2>1, <2>2, Undisturbed DEF SlotOK
  <2>3. CASE /\ q = p /\ mutex[q][t].st = "pending"
             /\ mutex'[q][t] = [mutex[q][t] EXCEPT !.st = "creating"]
    BY <1>4, <1>6, <2>1, <2>3 DEF SlotOK, Mutexes, NoPath
  <2> QED
    BY <1>5, <2>2, <2>3
<1> QED
  BY <1>1, <1>4, <1>5, <1>6, <1>7, NoNewNode DEF SharedOK

LEMMA CreateMutexNodeStep ==
  ASSUME MutexInv, NEW p \in Procs, NEW s \in Slots, CreateMutexNode(p, s)
  PROVE  MutexInv'
<1> DEFINE m == [mutex[p][s] EXCEPT !.st = "created", !.node = nextNode]
           node == [seq |-> nextNode, owner |-> p, live |-> TRUE]
<1>1. SharedOK /\ OneMutexPerNode /\ SlotOK(p, s) /\ mutex[p][s] \in Mutexes
  BY InvBySlots, SlotFacts
<1>2. /\ conn[p] = "up" /\ mutex[p][s].st = "creating"
      /\ nextNode <= MaxNodes /\ Set(p, s, m)
      /\ nodes' = nodes \cup {node} /\ nextNode' = nextNode + 1
      /\ UNCHANGED <<conn, stale, faults, granted>>
  BY DEF CreateMutexNode
<1>3. nextNode \in 1..MaxNodes
  BY <1>1, <1>2, BoundsAssumption DEF SharedOK
<1>4. m \in Mutexes
  <2>1. nextNode \in 0..MaxNodes
    BY <1>3
  <2> QED
    BY <1>1, <2>1 DEF Mutexes, Paths
<1>5. /\ mutex' \in [Procs -> [Slots -> Mutexes]]
      /\ mutex'[p][s] = m
      /\ \A q \in Procs, t \in Slots :
           q # p \/ t # s => mutex'[q][t] = mutex[q][t]
  BY <1>2, <1>4, SetSlot
<1>6. Numbers' = Numbers \cup {nextNode}
  <2>1. node.seq = nextNode
    OBVIOUS
  <2> HIDE DEF node
  <2> QED
    BY <1>2, <2>1 DEF Numbers
<1>7. \A n \in Numbers : n \in 1..MaxNodes /\ n < nextNode
  BY <1>1 DEF SharedOK, Numbers
<1>8. SharedOK'
  <2>1. nodes' \subseteq [seq : 1..MaxNodes, owner : Procs, live : BOOLEAN]
    <3>1. node \in [seq : 1..MaxNodes, owner : Procs, live : BOOLEAN]
      BY <1>3
    <3> HIDE DEF node
    <3> QED
      BY <1>1, <1>2, <3>1 DEF SharedOK
  <2>2. /\ \A n \in Numbers' : n < nextNode'
        /\ granted' < nextNode'
        /\ \A n \in Numbers' : granted' <= n
    BY <1>1, <1>2, <1>3, <1>6, <1>7, BoundsAssumption DEF SharedOK
  <2>3. nextNode' \in 1..(MaxNodes + 1)
    BY <1>2, <1>3, BoundsAssumption
  <2> QED
    BY <1>1, <1>2, <1>5, <2>1, <2>2, <2>3 DEF SharedOK
<1>9. ASSUME NEW q \in Procs, NEW t \in Slots, q # p \/ t # s
      PROVE  SlotOK(q, t)' /\ mutex'[q][t].node # nextNode
  <2>1. SlotOK(q, t) /\ mutex[q][t] \in Mutexes
    BY SlotFacts
  <2>2. mutex'[q][t] = mutex[q][t]
    BY <1>5, <1>9
  <2>3. mutex[q][t].node \in 0..MaxNodes /\ mutex[q][t].node < nextNode
    BY <2>1 DEF SlotOK, Mutexes
  <2>4. mutex[q][t].st \in {"listed", "watching"} =>
          ~ \E n \in Numbers' :
              mutex[q][t].prev < n /\ n < mutex[q][t].node
    BY <1>3, <1>6, <2>1, <2>3 DEF SlotOK
  <2>5. mutex[q][t].st = "first" =>
          \A n \in Numbers' : mutex[q][t].node <= n
    BY <1>3, <1>6, <2>1, <2>3 DEF SlotOK
  <2>6. mutex[q][t].node < nextNode'
    BY <1>2, <1>3, <2>3
  <2> QED
    BY <1>2, <1>3, <2>1, <2>2, <2>3, <2>4, <2>5, <2>6 DEF SlotOK
<1>10. SlotOK(p, s)'
  <2>1. /\ m.st = "created" /\ m.node = nextNode /\ m.prev = mutex[p][s].prev
        /\ m.obtained = mutex[p][s].obtained
    BY <1>1 DEF Mutexes
  <2>2. granted < nextNode /\ nextNode # NoNode /\ nextNode < nextNode + 1
    BY <1>1, <1>3 DEF SharedOK, NoNode
  <2>3. ~ mutex[p][s].obtained
    BY <1>1, <1>2 DEF SlotOK
  <2>4. mutex[p][s].prev = NoNode
    BY <1>1, <1>2 DEF SlotOK, Mutexes, NoPath, NoNode
  <2> HIDE DEF m
  <2> QED
    BY <1>2, <1>5, <2>1, <2>2, <2>3, <2>4 DEF SlotOK, NoPath
<1>11. OneMutexPerNode'
  <2>1. mutex'[p][s].node = nextNode
    BY <1>1, <1>5 DEF Mutexes
  <2>2. ASSUME NEW q \in Procs, NEW t \in Slots,
               NEW q2 \in Procs, NEW t2 \in Slots,
               mutex'[q][t].node # NoNode,
               mutex'[q][t].node = mutex'[q2][t2].node
        PROVE  q = q2 /\ t = t2
    <3>1. CASE q = p /\ t = s
      BY <1>9, <2>1, <2>2, <3>1
    <3>2. CASE q2 = p /\ t2 = s
      BY <1>9, <2>1, <2>2, <3>2
    <3>3. CASE ~ (q = p /\ t = s) /\ ~ (q2 = p /\ t2 = s)
      <4>1. mutex'[q][t] = mutex[q][t] /\ mutex'[q2][t2] = mutex[q2][t2]
        BY <1>5, <3>3
      <4> QED
        BY <1>1, <2>2, <4>1 DEF OneMutexPerNode
    <3> QED
      BY <3>1, <3>2, <3>3
  <2> HIDE DEF m
  <2> QED
    BY <2>2 DEF OneMutexPerNode
<1> QED
  BY <1>8, <1>9, <1>10, <1>11, InvBySlotsNext

LEMMA ObtainedStep ==
  ASSUME MutexInv, NEW p \in Procs, NEW s \in Slots, Obtained(p, s)
  PROVE  MutexInv'
<1> DEFINE m == [mutex[p][s] EXCEPT !.st = "first", !.obtained = TRUE]
<1>1. SharedOK /\ OneMutexPerNode /\ SlotOK(p, s) /\ mutex[p][s] \in Mutexes
  BY InvBySlots, SlotFacts
<1>2. /\ Delivering(p) /\ mutex[p][s].st = "listed"
      /\ mutex[p][s].prev = NoNode /\ Set(p, s, m)
      /\ granted' = mutex[p][s].node
      /\ UNCHANGED <<conn, stale, nodes, nextNode, faults>>
  BY DEF Obtained
<1>3. m \in Mutexes /\ m.node = mutex[p][s].node
  BY <1>1 DEF Mutexes, Paths
<1>4. /\ mutex' \in [Procs -> [Slots -> Mutexes]]
      /\ mutex'[p][s] = m
      /\ \A q \in Procs, t \in Slots :
           q # p \/ t # s => mutex'[q][t] = mutex[q][t]
  BY <1>2, <1>3, SetSlot
<1>5. Numbers' = Numbers
  BY <1>2 DEF Numbers
<1>6. \A n \in Numbers : n \in 1..MaxNodes
  BY <1>1 DEF SharedOK, Numbers
<1>7. mutex[p][s].node \in 0..MaxNodes
  BY <1>1 DEF Mutexes
<1>8. \A n \in Numbers : mutex[p][s].node <= n
  BY <1>1, <1>2, <1>6, <1>7 DEF SlotOK, NoNode
<1>9. SharedOK'
  BY <1>1, <1>2, <1>4, <1>5, <1>7, <1>8 DEF SharedOK, SlotOK
<1>10. ASSUME NEW q \in Procs, NEW t \in Slots, q # p \/ t # s
       PROVE  SlotOK(q, t)'
  <2>1. SlotOK(q, t) /\ mutex[q][t] \in Mutexes
    BY SlotFacts
  <2>2. mutex'[q][t] = mutex[q][t]
    BY <1>4, <1>10
  <2>3. mutex[q][t].st \in {"created", "listing", "listed", "watching"} =>
          mutex[p][s].node < mutex[q][t].node
    <3> SUFFICES ASSUME mutex[q][t].st \in
                          {"created", "listing", "listed", "watching"}
                 PROVE  mutex[p][s].node < mutex[q][t].node
      OBVIOUS
    <3>1. mutex[q][t].node \in Numbers /\ mutex[q][t].node # NoNode
      BY <2>1 DEF SlotOK, NoPath, Numbers
    <3>2. mutex[q][t].node # mutex[p][s].node
      BY <1>1, <1>10, <3>1 DEF OneMutexPerNode
    <3> QED
      BY <1>6, <1>7, <1>8, <3>1, <3>2
  <2> QED
    BY <1>2, <1>5, <2>1, <2>2, <2>3 DEF SlotOK
<1>11. SlotOK(p, s)'
  <2>1. m.st = "first" /\ m.obtained /\ m.prev = NoNode
    BY <1>1, <1>2 DEF Mutexes
  <2> HIDE DEF m
  <2> QED
    BY <1>1, <1>2, <1>3, <1>4, <1>5, <1>8, <2>1
       DEF SlotOK, NoPath, Delivering
<1>12. OneMutexPerNode'
  <2>1. \A q \in Procs, t \in Slots : mutex'[q][t].node = mutex[q][t].node
    BY <1>3, <1>4
  <2> QED
    BY <1>1, <2>1 DEF OneMutexPerNode
<1> QED
  BY <1>9, <1>10, <1>11, <1>12, InvBySlotsNext

\* The old mutex of the queue is deleted or freed, and a new one is locked.
LEMMA UnlockSlots ==
  ASSUME MutexInv, NEW p \in Procs, NEW s \in Slots, MutexUnlock(p, s)
  PROVE  /\ mutex' \in [Procs -> [Slots -> Mutexes]]
         /\ \A q \in Procs, t \in Slots :
              \/ mutex'[q][t] = mutex[q][t]
              \/ mutex'[q][t] \in {Mutex("pending"), Mutex("free")}
              \/ /\ q = p /\ t = s
                 /\ mutex'[q][t] = [mutex[p][s] EXCEPT !.st = "deleting"]
<1> DEFINE r == Min(FreeSlots(p))
           m == [mutex[p][s] EXCEPT !.st = "deleting"]
           f == [t \in Slots |->
                   IF t = s THEN IF conn[p] = "up" THEN m ELSE Mutex("free")
                   ELSE IF t = r THEN Mutex("pending")
                   ELSE mutex[p][t]]
<1>1. SharedOK /\ SlotOK(p, s) /\ mutex[p][s] \in Mutexes
  BY InvBySlots, SlotFacts
<1>2. /\ Delivering(p) /\ mutex[p][s].obtained /\ mutex[p][s].st = "first"
      /\ UNCHANGED <<conn, stale, nodes, nextNode, faults, granted>>
  BY DEF MutexUnlock
<1>3. r \in Slots /\ mutex[p][r].st = "free"
  <2>1. FreeSlots(p) \in SUBSET Nat /\ FreeSlots(p) # {}
    BY DEF MutexUnlock, FreeSlots, Slots
  <2>2. r \in FreeSlots(p)
    BY <2>1, MinMember
  <2> QED
    BY <2>2 DEF FreeSlots
<1>4. r # s
  BY <1>2, <1>3
<1>5. m \in Mutexes /\ m.node = mutex[p][s].node /\ m.st = "deleting"
      /\ m.obtained = mutex[p][s].obtained
  BY <1>1 DEF Mutexes, Paths
<1>6. f \in [Slots -> Mutexes]
  <2>1. ASSUME NEW t \in Slots PROVE f[t] \in Mutexes
    <3> HIDE DEF r, m
    <3> QED
      BY <1>5, FreshMutex, SlotFacts
  <2> QED
    BY <2>1
<1>7. mutex' = [mutex EXCEPT ![p] = f]
  <2>1. mutex \in [Procs -> [Slots -> Mutexes]]
    BY <1>1 DEF SharedOK
  <2>2. mutex' = [mutex EXCEPT ![p][r] = Mutex("pending"),
                               ![p][s] = IF conn[p] = "up" THEN m
                                         ELSE Mutex("free")]
    <3> HIDE DEF r
    <3>1. mutex' = [mutex EXCEPT
                      ![p][Min(FreeSlots(p))] = Mutex("pending"),
                      ![p][s] = IF conn[p] = "up"
                                  THEN [@ EXCEPT !.st = "deleting"]
                                  ELSE Mutex("free")]
      BY DEF MutexUnlock
    <3>2. r = Min(FreeSlots(p))
      BY DEF r
    <3>3. [mutex EXCEPT ![p][r] = Mutex("pending")][p][s] = mutex[p][s]
      BY <1>3, <1>4, <2>1
    <3> QED
      BY <1>4, <2>1, <3>1, <3>2, <3>3
  <2> HIDE DEF r, m
  <2> QED
    BY <1>3, <1>4, <2>1, <2>2
<1>8. /\ mutex' \in [Procs -> [Slots -> Mutexes]]
      /\ \A t \in Slots : mutex'[p][t] = f[t]
      /\ \A q \in Procs, t \in Slots : q # p => mutex'[q][t] = mutex[q][t]
  <2> HIDE DEF f
  <2> QED
    BY <1>6, <1>7, SlotsOf
<1> HIDE DEF r, m
<1>9. \A q \in Procs, t \in Slots :
        \/ mutex'[q][t] = mutex[q][t]
        \/ mutex'[q][t] \in {Mutex("pending"), Mutex("free")}
        \/ q = p /\ t = s /\ mutex'[q][t] = m
  BY <1>8
<1> QED
  BY <1>8, <1>9 DEF m

LEMMA MutexUnlockStep ==
  ASSUME MutexInv, NEW p \in Procs, NEW s \in Slots, MutexUnlock(p, s)
  PROVE  MutexInv'
<1> DEFINE m == [mutex[p][s] EXCEPT !.st = "deleting"]
<1>1. SharedOK /\ SlotOK(p, s) /\ mutex[p][s] \in Mutexes
  BY InvBySlots, SlotFacts
<1>2. /\ Delivering(p) /\ mutex[p][s].obtained /\ mutex[p][s].st = "first"
      /\ UNCHANGED <<conn, stale, nodes, nextNode, faults, granted>>
  BY DEF MutexUnlock
<1>3. m.node = mutex[p][s].node /\ m.st = "deleting"
      /\ m.obtained = mutex[p][s].obtained /\ m.prev = mutex[p][s].prev
  BY <1>1 DEF Mutexes, Paths
<1>4. /\ mutex' \in [Procs -> [Slots -> Mutexes]]
      /\ \A q \in Procs, t \in Slots :
           \/ mutex'[q][t] = mutex[q][t]
           \/ mutex'[q][t] \in {Mutex("pending"), Mutex("free")}
           \/ q = p /\ t = s /\ mutex'[q][t] = m
  BY UnlockSlots
<1>5. Numbers' = Numbers
  BY <1>2 DEF Numbers
<1>6. ASSUME NEW q \in Procs, NEW t \in Slots
      PROVE  /\ SlotOK(q, t)'
             /\ mutex'[q][t].node = NoNode \/ mutex'[q][t].node = mutex[q][t].node
  <2>1. SlotOK(q, t) /\ mutex[q][t] \in Mutexes
    BY SlotFacts
  <2>2. CASE mutex'[q][t] = mutex[q][t]
    BY <1>2, <1>5, <2>1, <2>2, Undisturbed DEF SlotOK
  <2>3. CASE mutex'[q][t] \in {Mutex("pending"), Mutex("free")}
    BY <1>2, <2>3, FreshOK DEF Mutex
  <2>4. CASE q = p /\ t = s /\ mutex'[q][t] = m
    <3> HIDE DEF m
    <3> QED
      BY <1>1, <1>2, <1>3, <1>5, <2>4 DEF SlotOK, NoPath, Delivering
  <2> HIDE DEF m
  <2> QED
    BY <1>4, <2>2, <2>3, <2>4
<1> QED
  BY <1>1, <1>2, <1>4, <1>5, <1>6, NoNewNode DEF SharedOK

LEMMA DeleteMutexNodeStep ==
  ASSUME MutexInv, NEW p \in Procs, NEW s \in Slots, DeleteMutexNode(p, s)
  PROVE  MutexInv'
<1> DEFINE m == [mutex[p][s] EXCEPT !.st = "deleted"]
<1>1. SharedOK /\ OneMutexPerNode /\ SlotOK(p, s) /\ mutex[p][s] \in Mutexes
  BY InvBySlots, SlotFacts
<1>2. /\ conn[p] = "up" /\ mutex[p][s].st = "deleting" /\ Set(p, s, m)
      /\ nodes' = {n \in nodes : n.seq # mutex[p][s].node}
      /\ UNCHANGED <<conn, stale, nextNode, faults, granted>>
  BY DEF DeleteMutexNode
<1>3. m \in Mutexes /\ m.node = mutex[p][s].node /\ m.st = "deleted"
      /\ m.obtained = mutex[p][s].obtained /\ m.prev = mutex[p][s].prev
  BY <1>1 DEF Mutexes, Paths
<1>4. /\ mutex' \in [Procs -> [Slots -> Mutexes]]
      /\ mutex'[p][s] = m
      /\ \A q \in Procs, t \in Slots :
           q # p \/ t # s => mutex'[q][t] = mutex[q][t]
  BY <1>2, <1>3, SetSlot
<1>5. Numbers' \subseteq Numbers /\ nodes' \subseteq nodes
  BY <1>2 DEF Numbers
<1>6. ASSUME NEW q \in Procs, NEW t \in Slots
      PROVE  /\ SlotOK(q, t)'
             /\ mutex'[q][t].node = NoNode \/ mutex'[q][t].node = mutex[q][t].node
  <2>1. SlotOK(q, t)
    BY SlotFacts
  <2>2. CASE q = p /\ t = s
    <3> HIDE DEF m
    <3> QED
      BY <1>1, <1>2, <1>3, <1>4, <2>2 DEF SlotOK, NoPath
  <2>3. CASE q # p \/ t # s
    <3>1. mutex'[q][t] = mutex[q][t]
      BY <1>4, <2>3
    <3>2. mutex[q][t].st \notin NoPath \cup {"deleted"} =>
            [seq |-> mutex[q][t].node, owner |-> q, live |-> TRUE] \in nodes'
      <4> SUFFICES ASSUME mutex[q][t].st \notin NoPath \cup {"deleted"}
                   PROVE  [seq |-> mutex[q][t].node, owner |-> q,
                           live |-> TRUE] \in nodes'
        OBVIOUS
      <4>1. mutex[q][t].node # NoNode
        BY <2>1 DEF SlotOK
      <4>2. mutex[q][t].node # mutex[p][s].node
        BY <1>1, <2>3, <4>1 DEF OneMutexPerNode
      <4> QED
        BY <1>2, <2>1, <4>2 DEF SlotOK
    <3> QED
      BY <1>2, <1>5, <3>1, <3>2, Undisturbed
  <2> QED
    BY <2>2, <2>3
<1> QED
  BY <1>1, <1>2, <1>4, <1>5, <1>6, NoNewNode DEF SharedOK

\* The connection changes, or nodes of ended sessions vanish, and no mutex
\* notices.
LEMMA MutexesUntouched ==
  ASSUME MutexInv,
         UNCHANGED <<mutex, nextNode, granted>>,
         conn' \in [Procs -> {"up", "lost", "down", "dead"}],
         stale' \in [Procs -> SUBSET (1..MaxNodes)],
         faults' \in 0..MaxFaults,
         nodes' \subseteq nodes,
         \A q \in Procs : conn'[q] = conn[q] \/ conn'[q] \notin {"down", "dead"},
         \A q \in Procs, t \in Slots :
           mutex[q][t].st \notin NoPath \cup {"deleted"} =>
             [seq |-> mutex[q][t].node, owner |-> q, live |-> TRUE] \in nodes'
  PROVE  MutexInv'
<1>1. SharedOK
  BY InvBySlots
<1>2. Numbers' \subseteq Numbers
  BY DEF Numbers
<1>3. ASSUME NEW q \in Procs, NEW t \in Slots
      PROVE  SlotOK(q, t)'
  BY <1>2, Undisturbed
<1>4. nodes' \subseteq [seq : 1..MaxNodes, owner : Procs, live : BOOLEAN]
  BY <1>1 DEF SharedOK
<1>5. mutex' \in [Procs -> [Slots -> Mutexes]]
  BY <1>1 DEF SharedOK
<1> QED
  BY <1>2, <1>3, <1>4, <1>5, NoNewNode

LEMMA LoseConnectionStep ==
  ASSUME MutexInv, NEW p \in Procs, LoseConnection(p)
  PROVE  MutexInv'
<1>1. SharedOK /\ \A q \in Procs, t \in Slots : SlotOK(q, t)
  BY InvBySlots
<1>2. /\ conn' = [conn EXCEPT ![p] = "lost"]
      /\ faults < MaxFaults /\ faults' = faults + 1
      /\ UNCHANGED <<mutex, stale, nodes, nextNode, granted>>
  BY DEF LoseConnection
<1>3. faults' \in 0..MaxFaults
  BY <1>1, <1>2, BoundsAssumption DEF SharedOK
<1>4. /\ conn' \in [Procs -> {"up", "lost", "down", "dead"}]
      /\ \A q \in Procs :
           conn'[q] = conn[q] \/ conn'[q] \notin {"down", "dead"}
  BY <1>1, <1>2 DEF SharedOK
<1>5. \A q \in Procs, t \in Slots :
        mutex[q][t].st \notin NoPath \cup {"deleted"} =>
          [seq |-> mutex[q][t].node, owner |-> q, live |-> TRUE] \in nodes'
  BY <1>1, <1>2 DEF SlotOK
<1>6. stale' \in [Procs -> SUBSET (1..MaxNodes)]
  BY <1>1, <1>2 DEF SharedOK
<1> QED
  BY <1>2, <1>3, <1>4, <1>5, <1>6, MutexesUntouched

LEMMA ReconnectStep ==
  ASSUME MutexInv, NEW p \in Procs, Reconnect(p)
  PROVE  MutexInv'
<1>1. SharedOK /\ \A q \in Procs, t \in Slots : SlotOK(q, t)
  BY InvBySlots
<1>2. /\ conn' = [conn EXCEPT ![p] = "up"]
      /\ UNCHANGED <<mutex, stale, nodes, nextNode, faults, granted>>
  BY DEF Reconnect
<1>4. /\ conn' \in [Procs -> {"up", "lost", "down", "dead"}]
      /\ \A q \in Procs :
           conn'[q] = conn[q] \/ conn'[q] \notin {"down", "dead"}
  BY <1>1, <1>2 DEF SharedOK
<1>5. \A q \in Procs, t \in Slots :
        mutex[q][t].st \notin NoPath \cup {"deleted"} =>
          [seq |-> mutex[q][t].node, owner |-> q, live |-> TRUE] \in nodes'
  BY <1>1, <1>2 DEF SlotOK
<1>6. stale' \in [Procs -> SUBSET (1..MaxNodes)] /\ faults' \in 0..MaxFaults
  BY <1>1, <1>2 DEF SharedOK
<1> QED
  BY <1>2, <1>4, <1>5, <1>6, MutexesUntouched

\* The session that expires is one without a mutex that has a path.
LEMMA SessionExpiresStep ==
  ASSUME MutexInv, NEW p \in Procs, SessionExpires(p)
  PROVE  MutexInv'
<1>1. SharedOK /\ \A q \in Procs, t \in Slots : SlotOK(q, t)
  BY InvBySlots
<1>2. /\ conn[p] = "down"
      /\ nodes' = {n \in nodes : ~ (n.live /\ n.owner = p)}
      /\ stale' = [stale EXCEPT ![p] = {}]
      /\ UNCHANGED <<conn, mutex, nextNode, faults, granted>>
  BY DEF SessionExpires
<1>3. stale' \in [Procs -> SUBSET (1..MaxNodes)] /\ faults' \in 0..MaxFaults
      /\ conn' \in [Procs -> {"up", "lost", "down", "dead"}]
  BY <1>1, <1>2 DEF SharedOK
<1>4. ASSUME NEW q \in Procs, NEW t \in Slots,
             mutex[q][t].st \notin NoPath \cup {"deleted"}
      PROVE  [seq |-> mutex[q][t].node, owner |-> q, live |-> TRUE] \in nodes'
  <2>1. [seq |-> mutex[q][t].node, owner |-> q, live |-> TRUE] \in nodes
    BY <1>1, <1>4 DEF SlotOK
  <2>2. q # p
    BY <1>1, <1>2, <1>4 DEF SlotOK, NoPath
  <2> QED
    BY <1>2, <2>1, <2>2
<1> QED
  BY <1>2, <1>3, <1>4, MutexesUntouched

LEMMA LeftoverExpiresStep ==
  ASSUME MutexInv, LeftoverExpires
  PROVE  MutexInv'
<1>1. SharedOK /\ \A q \in Procs, t \in Slots : SlotOK(q, t)
  BY InvBySlots
<1>2. /\ nodes' = {n \in nodes : n.live}
      /\ UNCHANGED <<conn, mutex, stale, nextNode, faults, granted>>
  BY DEF LeftoverExpires
<1>3. stale' \in [Procs -> SUBSET (1..MaxNodes)] /\ faults' \in 0..MaxFaults
      /\ conn' \in [Procs -> {"up", "lost", "down", "dead"}]
  BY <1>1, <1>2 DEF SharedOK
<1>4. ASSUME NEW q \in Procs, NEW t \in Slots,
             mutex[q][t].st \notin NoPath \cup {"deleted"}
      PROVE  [seq |-> mutex[q][t].node, owner |-> q, live |-> TRUE] \in nodes'
  BY <1>1, <1>2, <1>4 DEF SlotOK
<1> QED
  BY <1>2, <1>3, <1>4, MutexesUntouched

\* zk_watcher_clean_mutex ends every mutex that has a path.
LEMMA CleanMutexStep ==
  ASSUME MutexInv, NEW p \in Procs, CleanMutex(p)
  PROVE  MutexInv'
<1> DEFINE f == [s \in Slots |->
                   IF mutex[p][s].st \in {"free", "pending"} THEN mutex[p][s]
                   ELSE Mutex("pending")]
<1>1. SharedOK
  BY InvBySlots
<1>2. /\ conn' = [conn EXCEPT ![p] = "down"]
      /\ stale' = [stale EXCEPT ![p] = @ \cup
                     {mutex[p][s].prev
                        : s \in {s \in Slots : mutex[p][s].st = "watching"}}]
      /\ UNCHANGED <<nodes, nextNode, faults, granted>>
  BY DEF CleanMutex
<1>3. f \in [Slots -> Mutexes]
  <2>1. ASSUME NEW s \in Slots PROVE f[s] \in Mutexes
    BY SlotFacts, FreshMutex
  <2> QED
    BY <2>1
<1>4. mutex' = [mutex EXCEPT ![p] = f]
  BY <1>1 DEF CleanMutex, SharedOK
<1>5. /\ mutex' \in [Procs -> [Slots -> Mutexes]]
      /\ \A t \in Slots : mutex'[p][t] = f[t]
      /\ \A q \in Procs, t \in Slots : q # p => mutex'[q][t] = mutex[q][t]
  <2> HIDE DEF f
  <2> QED
    BY <1>3, <1>4, SlotsOf
<1>6. Numbers' = Numbers
  BY <1>2 DEF Numbers
<1>7. conn' \in [Procs -> {"up", "lost", "down", "dead"}]
      /\ \A q \in Procs : q # p => conn'[q] = conn[q]
  BY <1>1, <1>2 DEF SharedOK
<1>8. stale' \in [Procs -> SUBSET (1..MaxNodes)]
  <2>1. ASSUME NEW s \in Slots, mutex[p][s].st = "watching"
        PROVE  mutex[p][s].prev \in 1..MaxNodes
    <3>1. mutex[p][s].prev \in 0..MaxNodes /\ mutex[p][s].prev # 0
      BY <2>1, SlotFacts DEF SlotOK, Mutexes, NoNode
    <3> QED
      BY <3>1, BoundsAssumption
  <2>2. {mutex[p][s].prev : s \in {s \in Slots : mutex[p][s].st = "watching"}}
          \in SUBSET (1..MaxNodes)
    BY <2>1
  <2> QED
    BY <1>1, <1>2, <2>2 DEF SharedOK
<1>9. ASSUME NEW q \in Procs, NEW t \in Slots
      PROVE  /\ SlotOK(q, t)'
             /\ mutex'[q][t].node = NoNode \/ mutex'[q][t].node = mutex[q][t].node
  <2>1. SlotOK(q, t)
    BY SlotFacts
  <2>2. CASE mutex'[q][t] = Mutex("pending")
    BY <1>2, <2>2, FreshOK DEF Mutex
  <2>3. CASE /\ mutex'[q][t] = mutex[q][t]
             /\ q # p \/ mutex[q][t].st \in {"free", "pending"}
    BY <1>2, <1>6, <1>7, <2>1, <2>3, Undisturbed DEF SlotOK
  <2> QED
    BY <1>5, <2>2, <2>3
<1> QED
  BY <1>1, <1>2, <1>5, <1>6, <1>7, <1>8, <1>9, NoNewNode DEF SharedOK

\* The end of a process, whatever kills it.
LEMMA DieStep ==
  ASSUME MutexInv, NEW p \in Procs, Die(p), UNCHANGED <<nextNode, granted>>,
         faults' \in 0..MaxFaults
  PROVE  MutexInv' /\ Numbers' = Numbers
<1> DEFINE f == [s \in Slots |-> Mutex("free")]
           Left(n) == IF n.owner = p THEN [n EXCEPT !.live = FALSE] ELSE n
<1>1. SharedOK
  BY InvBySlots
<1>2. /\ conn' = [conn EXCEPT ![p] = "dead"]
      /\ mutex' = [mutex EXCEPT ![p] = f]
      /\ stale' = [stale EXCEPT ![p] = {}]
      /\ nodes' = {Left(n) : n \in nodes}
  BY DEF Die
<1>3. f \in [Slots -> Mutexes]
  BY FreshMutex
<1>4. /\ mutex' \in [Procs -> [Slots -> Mutexes]]
      /\ \A t \in Slots : mutex'[p][t] = f[t]
      /\ \A q \in Procs, t \in Slots : q # p => mutex'[q][t] = mutex[q][t]
  <2> HIDE DEF f
  <2> QED
    BY <1>2, <1>3, SlotsOf
<1>5. ASSUME NEW n \in nodes
      PROVE  /\ Left(n) \in [seq : 1..MaxNodes, owner : Procs, live : BOOLEAN]
             /\ Left(n).seq = n.seq
             /\ n.owner # p => Left(n) = n
  <2>1. n \in [seq : 1..MaxNodes, owner : Procs, live : BOOLEAN]
    BY <1>1 DEF SharedOK
  <2> QED
    BY <2>1
<1> HIDE DEF Left
<1>6. nodes' \subseteq [seq : 1..MaxNodes, owner : Procs, live : BOOLEAN]
  BY <1>2, <1>5
<1>7. Numbers' = Numbers
  BY <1>2, <1>5 DEF Numbers
<1>8. /\ conn' \in [Procs -> {"up", "lost", "down", "dead"}]
      /\ \A q \in Procs : q # p => conn'[q] = conn[q]
      /\ stale' \in [Procs -> SUBSET (1..MaxNodes)]
  BY <1>1, <1>2 DEF SharedOK
<1>9. ASSUME NEW q \in Procs, NEW t \in Slots
      PROVE  /\ SlotOK(q, t)'
             /\ mutex'[q][t].node = NoNode \/ mutex'[q][t].node = mutex[q][t].node
  <2>1. CASE q = p
    <3>1. mutex'[q][t] = Mutex("free")
      BY <1>4, <2>1
    <3> QED
      BY <3>1, FreshOK DEF Mutex
  <2>2. CASE q # p
    <3>1. SlotOK(q, t)
      BY SlotFacts
    <3>2. mutex'[q][t] = mutex[q][t] /\ conn'[q] = conn[q]
      BY <1>4, <1>8, <2>2
    <3>3. ASSUME mutex[q][t].st \notin NoPath \cup {"deleted"}
          PROVE  [seq |-> mutex[q][t].node, owner |-> q, live |-> TRUE]
                   \in nodes'
      <4> DEFINE n == [seq |-> mutex[q][t].node, owner |-> q, live |-> TRUE]
      <4>1. n \in nodes /\ n.owner # p
        BY <2>2, <3>1, <3>3 DEF SlotOK
      <4> QED
        BY <1>2, <1>5, <4>1
    <3> QED
      BY <1>7, <3>2, <3>3, Undisturbed
  <2> QED
    BY <2>1, <2>2
<1> QED
  BY <1>4, <1>6, <1>7, <1>8, <1>9, NoNewNode

\* A mutex is locked in a slot that has none with a path.
LEMMA NewLockStep ==
  ASSUME MutexInv, NEW p \in Procs, NEW s \in Slots, Set(p, s, Mutex("pending")),
         conn' \in [Procs -> {"up", "lost", "down", "dead"}],
         \A q \in Procs : \/ conn'[q] = conn[q]
                          \/ q = p /\ conn[q] = "dead" /\ conn'[q] = "down",
         UNCHANGED <<stale, nodes, nextNode, granted>>,
         faults' \in 0..MaxFaults
  PROVE  MutexInv'
<1>1. SharedOK
  BY InvBySlots
<1>2. /\ mutex' \in [Procs -> [Slots -> Mutexes]]
      /\ mutex'[p][s] = Mutex("pending")
      /\ \A q \in Procs, t \in Slots :
           q # p \/ t # s => mutex'[q][t] = mutex[q][t]
  BY FreshMutex, SetSlot
<1>3. Numbers' = Numbers
  BY DEF Numbers
<1>4. ASSUME NEW q \in Procs, NEW t \in Slots
      PROVE  /\ SlotOK(q, t)'
             /\ mutex'[q][t].node = NoNode \/ mutex'[q][t].node = mutex[q][t].node
  <2>1. SlotOK(q, t)
    BY SlotFacts
  <2>2. CASE q = p /\ t = s
    BY <1>2, <2>2, FreshOK DEF Mutex
  <2>3. CASE q # p \/ t # s
    <3>1. mutex'[q][t] = mutex[q][t]
      BY <1>2, <2>3
    <3>2. conn'[q] = conn[q] \/ mutex[q][t].st \in {"free", "pending"}
      BY <2>1 DEF SlotOK
    <3> QED
      BY <1>3, <2>1, <3>1, <3>2, Undisturbed DEF SlotOK
  <2> QED
    BY <2>2, <2>3
<1> QED
  BY <1>1, <1>2, <1>3, <1>4, NoNewNode DEF SharedOK

LEMMA RestartStep ==
  ASSUME MutexInv, NEW p \in Procs, Restart(p)
  PROVE  MutexInv'
<1>1. SharedOK
  BY InvBySlots
<1>2. /\ conn[p] = "dead" /\ conn' = [conn EXCEPT ![p] = "down"]
      /\ Set(p, 1, Mutex("pending"))
      /\ UNCHANGED <<stale, nodes, nextNode, faults, granted>>
  BY DEF Restart
<1>3. 1 \in Slots
  BY BoundsAssumption DEF Slots
<1>4. /\ conn' \in [Procs -> {"up", "lost", "down", "dead"}]
      /\ \A q \in Procs : \/ conn'[q] = conn[q]
                          \/ q = p /\ conn[q] = "dead" /\ conn'[q] = "down"
      /\ faults' \in 0..MaxFaults
  BY <1>1, <1>2 DEF SharedOK
<1> QED
  BY <1>2, <1>3, <1>4, NewLockStep

\* A watch that nobody waits for fires, or the process dies of it.
LEMMA StaleWatcherStep ==
  ASSUME MutexInv, NEW p \in Procs, StaleWatcher(p)
  PROVE  MutexInv'
<1>1. SharedOK /\ \A q \in Procs, t \in Slots : SlotOK(q, t)
  BY InvBySlots
<1>2. UNCHANGED <<nextNode, faults, granted>> /\ faults' \in 0..MaxFaults
  BY <1>1 DEF StaleWatcher, SharedOK
<1>3. CASE Die(p)
  BY <1>2, <1>3, DieStep
<1>4. CASE UNCHANGED <<conn, mutex, nodes>>
           /\ \E n \in stale[p] : stale' = [stale EXCEPT ![p] = @ \ {n}]
  <2>1. stale' \in [Procs -> SUBSET (1..MaxNodes)]
        /\ conn' \in [Procs -> {"up", "lost", "down", "dead"}]
    BY <1>1, <1>4 DEF SharedOK
  <2>2. \A q \in Procs, t \in Slots :
          mutex[q][t].st \notin NoPath \cup {"deleted"} =>
            [seq |-> mutex[q][t].node, owner |-> q, live |-> TRUE] \in nodes'
    BY <1>1, <1>4 DEF SlotOK
  <2> QED
    BY <1>2, <1>4, <2>1, <2>2, MutexesUntouched
<1> QED
  BY <1>3, <1>4 DEF StaleWatcher

LEMMA CrashStep ==
  ASSUME MutexInv, NEW p \in Procs, Crash(p) \/ DoubleFree(p)
  PROVE  MutexInv'
<1>1. faults' \in 0..MaxFaults
  BY SlotFacts, InvBySlots, BoundsAssumption DEF Crash, DoubleFree, SharedOK
<1>2. Die(p) /\ UNCHANGED <<nextNode, granted>>
  BY DEF Crash, DoubleFree
<1> QED
  BY <1>1, <1>2, DieStep

\* A request that is answered with an error changes its mutex, and no node.
LEMMA RefusedSlot ==
  ASSUME MutexInv, NEW p \in Procs, NEW s \in Slots, Refused(p, s)
  PROVE  /\ RequestFails(p)
         /\ \E m \in Mutexes :
              /\ Set(p, s, m)
              /\ \/ /\ mutex[p][s].st \in {"creating", "listed"}
                    /\ m = Mutex("pending")
                 \/ /\ mutex[p][s].st = "listing"
                    /\ m = [mutex[p][s] EXCEPT !.st = "stranded"]
                 \/ /\ mutex[p][s].st = "deleting"
                    /\ m = [mutex[p][s] EXCEPT !.st = "deleted"]
<1>1. mutex[p][s] \in Mutexes
  BY SlotFacts
<1>2. CASE CreateFails(p, s) \/ WatchFails(p, s)
  BY <1>2, FreshMutex DEF CreateFails, WatchFails
<1>3. CASE ListFails(p, s)
  <2>1. [mutex[p][s] EXCEPT !.st = "stranded"] \in Mutexes
    BY <1>1 DEF Mutexes, Paths
  <2> QED
    BY <1>3, <2>1 DEF ListFails
<1>4. CASE DeleteMutexFails(p, s)
  <2>1. [mutex[p][s] EXCEPT !.st = "deleted"] \in Mutexes
    BY <1>1 DEF Mutexes, Paths
  <2> QED
    BY <1>4, <2>1 DEF DeleteMutexFails
<1> QED
  BY <1>2, <1>3, <1>4 DEF Refused

LEMMA RefusedStep ==
  ASSUME MutexInv, NEW p \in Procs, NEW s \in Slots, Refused(p, s)
  PROVE  MutexInv'
<1>1. mutex[p][s] \in Mutexes /\ SlotOK(p, s) /\ faults \in 0..MaxFaults
  BY SlotFacts
<1>2. /\ conn[p] = "up" /\ faults' \in 0..MaxFaults
      /\ UNCHANGED <<conn, stale, nodes, nextNode, granted>>
  BY <1>1, RefusedSlot, BoundsAssumption DEF RequestFails
<1>3. PICK m \in Mutexes :
        /\ Set(p, s, m)
        /\ \/ m = Mutex("pending")
           \/ /\ mutex[p][s].st = "listing"
              /\ m = [mutex[p][s] EXCEPT !.st = "stranded"]
           \/ /\ mutex[p][s].st = "deleting"
              /\ m = [mutex[p][s] EXCEPT !.st = "deleted"]
  BY RefusedSlot
<1>4. mutex'[p][s] = m
  BY <1>3, SetSlot
<1>5. CASE m = Mutex("pending")
  <2>1. SlotOK(p, s)'
    BY <1>2, <1>4, <1>5, FreshOK
  <2>2. m.node = NoNode
    BY <1>5 DEF Mutex
  <2> QED
    BY <1>2, <1>3, <2>1, <2>2, OneSlot
<1>6. CASE /\ mutex[p][s].st = "listing"
           /\ m = [mutex[p][s] EXCEPT !.st = "stranded"]
  <2>1. /\ m.st = "stranded" /\ m.node = mutex[p][s].node
        /\ m.prev = mutex[p][s].prev /\ m.obtained = mutex[p][s].obtained
    BY <1>1, <1>6 DEF Mutexes
  <2>2. SlotOK(p, s)'
    BY <1>1, <1>2, <1>4, <1>6, <2>1 DEF SlotOK, NoPath
  <2> QED
    BY <1>2, <1>3, <2>1, <2>2, OneSlot
<1>7. CASE /\ mutex[p][s].st = "deleting"
           /\ m = [mutex[p][s] EXCEPT !.st = "deleted"]
  <2>1. /\ m.st = "deleted" /\ m.node = mutex[p][s].node
        /\ m.prev = mutex[p][s].prev /\ m.obtained = mutex[p][s].obtained
    BY <1>1, <1>7 DEF Mutexes
  <2>2. SlotOK(p, s)'
    BY <1>1, <1>2, <1>4, <1>7, <2>1 DEF SlotOK, NoPath
  <2> QED
    BY <1>2, <1>3, <2>1, <2>2, OneSlot
<1> QED
  BY <1>3, <1>5, <1>6, <1>7

-----------------------------------------------------------------------------
(* The invariant.                                                          *)

LEMMA InitInv == Init => MutexInv
<1> SUFFICES ASSUME Init PROVE MutexInv
  OBVIOUS
<1>1. /\ conn = [p \in Procs |-> "down"]
      /\ mutex = [p \in Procs |-> [s \in Slots |->
                    Mutex(IF s = 1 THEN "pending" ELSE "free")]]
      /\ stale = [p \in Procs |-> {}]
      /\ nodes = {} /\ nextNode = 1 /\ faults = 0 /\ granted = NoNode
  BY DEF Init
<1>2. Numbers = {}
  BY <1>1 DEF Numbers
<1>3. mutex \in [Procs -> [Slots -> Mutexes]]
  BY <1>1, FreshMutex
<1>4. SharedOK
  BY <1>1, <1>2, <1>3, BoundsAssumption DEF SharedOK, NoNode
<1>5. ASSUME NEW p \in Procs, NEW s \in Slots
      PROVE  /\ mutex[p][s] \in {Mutex("pending"), Mutex("free")}
             /\ SlotOK(p, s) /\ mutex[p][s].node = NoNode
  <2>1. mutex[p][s] \in {Mutex("pending"), Mutex("free")}
    BY <1>1
  <2> QED
    BY <1>1, <2>1 DEF SlotOK, Mutex, NoPath, NoNode
<1>6. OneMutexPerNode
  BY <1>5 DEF OneMutexPerNode
<1> QED
  BY <1>4, <1>5, <1>6, InvBySlots

\* Every step of the mutex keeps the invariant.
LEMMA StepInv ==
  ASSUME MutexInv, [Next]_vars
  PROVE  MutexInv'
<1>1. CASE UNCHANGED vars
  <2>1. UNCHANGED <<conn, mutex, stale, nodes, nextNode, faults, granted>>
    BY <1>1 DEF vars
  <2> QED
    BY <2>1 DEF MutexInv, TypeOK, SessionEventSeen, OwnNodeThere,
                OneMutexPerNode, NumbersPast, WatchesItsTurn, WatchesBefore,
                HolderIsLowest, GrantsPast, Numbers
<1>2. ASSUME NEW p \in Procs, NEW s \in Slots, Ordinary(p, s)
      PROVE  MutexInv'
  BY <1>2, CreateMutexNodeStep, CreateCompleteStep, GetChildrenStep,
     ObtainedStep, WatchPreviousStep, PreviousGoneStep,
     PreviousLeaderWatcherStep, MutexUnlockStep, DeleteMutexNodeStep,
     DeleteMutexCompletedStep DEF Ordinary
<1>3. ASSUME NEW p \in Procs, Session(p)
      PROVE  MutexInv'
  BY <1>3, DoPendingLocksStep, CleanMutexStep, ReconnectStep, RestartStep
     DEF Session
<1>4. ASSUME NEW p \in Procs, Faults(p)
      PROVE  MutexInv'
  BY <1>4, LoseConnectionStep, SessionExpiresStep, CrashStep,
     StaleWatcherStep, RefusedStep DEF Faults
<1>5. CASE LeftoverExpires
  BY <1>5, LeftoverExpiresStep
<1> QED
  BY <1>1, <1>2, <1>3, <1>4, <1>5 DEF Next

\* The invariant of the mutex holds whatever the number of instances, of their
\* mutexes, and of faults (rb_zk.c:277-327,525-557).
THEOREM MutexInvariant == Spec => []MutexInv
<1>1. Init => MutexInv
  BY InitInv
<1>2. MutexInv /\ [Next]_vars => MutexInv'
  BY StepInv
<1> QED
  BY <1>1, <1>2, PTL DEF Spec

-----------------------------------------------------------------------------
(* What follows from it.                                                   *)

\* Under the invariant a mutex holds exactly in its state "first".
LEMMA HoldsFirst ==
  ASSUME MutexInv, NEW p \in Procs, NEW s \in Slots
  PROVE  Holds(p, s) <=> mutex[p][s].st = "first"
BY DEF MutexInv, HolderIsLowest, Holds

\* The holder's node exists and is the lowest.
LEMMA HolderNode ==
  ASSUME MutexInv, NEW p \in Procs, NEW s \in Slots, mutex[p][s].st = "first"
  PROVE  /\ mutex[p][s].node \in Numbers
         /\ mutex[p][s].node # NoNode
         /\ \A n \in Numbers : mutex[p][s].node <= n
<1>1. SlotOK(p, s) /\ mutex[p][s] \in Mutexes
  BY SlotFacts
<1>2. mutex[p][s].st \notin NoPath \cup {"deleted"}
  BY DEF NoPath
<1>3. [seq |-> mutex[p][s].node, owner |-> p, live |-> TRUE] \in nodes
  BY <1>1, <1>2 DEF SlotOK
<1>4. mutex[p][s].node \in Numbers
  BY <1>3 DEF Numbers
<1> QED
  BY <1>1, <1>2, <1>4 DEF SlotOK

\* Two mutexes whose nodes are both the lowest are one.
LEMMA InvExcludes == MutexInv => MutualExclusion
<1> SUFFICES ASSUME MutexInv,
                    NEW p \in Procs, NEW q \in Procs,
                    NEW s \in Slots, NEW t \in Slots,
                    Holds(p, s), Holds(q, t)
             PROVE  p = q /\ s = t
  BY DEF MutualExclusion
<1>1. mutex[p][s].st = "first" /\ mutex[q][t].st = "first"
  BY HoldsFirst
<1>2. mutex[p][s].node <= mutex[q][t].node /\ mutex[q][t].node <= mutex[p][s].node
  BY <1>1, HolderNode
<1>3. mutex[p][s].node \in Int /\ mutex[q][t].node \in Int
  BY SlotFacts DEF Mutexes
<1>4. mutex[p][s].node = mutex[q][t].node /\ mutex[p][s].node # NoNode
  BY <1>1, <1>2, <1>3, HolderNode
<1> QED
  BY <1>4 DEF MutexInv, OneMutexPerNode

\* At most one mutex of all the instances is obtained, for any number of them,
\* through lost connections, expired sessions and crashes (rb_zk.c:309-350).
THEOREM Exclusion == Spec => []MutualExclusion
BY MutexInvariant, InvExcludes, PTL

\* No wake-up is lost: the node that a mutex watches is the one just before its
\* own (leader_previous_string, rb_zk.c:277-301).
THEOREM TurnWatched == Spec => []WatchesItsTurn
<1>1. MutexInv => WatchesItsTurn
  BY DEF MutexInv
<1> QED
  BY <1>1, MutexInvariant, PTL

-----------------------------------------------------------------------------
(* The mutex at rest: the watches lead down to a node that watches none.   *)

LEMMA LowestHolds ==
  ASSUME MutexInv, MutexAtRest, nodes # {}
  PROVE  SomeoneHolds \/ Orphans # {}
<1>1. SharedOK
  BY InvBySlots
<1>2. Numbers \subseteq 1..MaxNodes /\ Numbers # {} /\ Numbers \in SUBSET Nat
  BY <1>1, BoundsAssumption DEF SharedOK, Numbers
<1>3. PICK k \in Numbers : \A j \in Numbers : k <= j
  BY <1>2, LeastNumber
<1>4. PICK n \in nodes : n.seq = k
  BY DEF Numbers
<1>5. n.live /\ n.owner \in Procs
  BY <1>1, <1>4 DEF MutexAtRest, SharedOK
<1> SUFFICES ASSUME Orphans = {} PROVE SomeoneHolds
  OBVIOUS
<1>6. PICK s \in Slots : mutex[n.owner][s].node = k /\ s \notin Stranded(n.owner)
  BY <1>4, <1>5 DEF Orphans
<1> DEFINE p == n.owner
<1>7. SlotOK(p, s) /\ mutex[p][s] \in Mutexes
  BY <1>5, SlotFacts
<1>8. mutex[p][s].st # "free"
  BY <1>2, <1>3, <1>6, <1>7 DEF SlotOK, NoPath, NoNode
<1>9. ~ (mutex[p][s].st = "watching" /\ mutex[p][s].prev \in Numbers)
  <2> SUFFICES ASSUME mutex[p][s].prev \in Numbers, mutex[p][s].st = "watching"
               PROVE  FALSE
    OBVIOUS
  <2>1. mutex[p][s].prev < k /\ k <= mutex[p][s].prev
    BY <1>3, <1>6, <1>7 DEF SlotOK
  <2>2. k \in Nat /\ mutex[p][s].prev \in Nat
    BY <1>2
  <2> QED
    BY <2>1, <2>2
<1>10. mutex[p][s].st = "first"
  BY <1>5, <1>6, <1>8, <1>9 DEF MutexAtRest, Stranded
<1> QED
  BY <1>5, <1>10, HoldsFirst DEF SomeoneHolds

\* What an instance that has not given the mutex up has.
Kept(m) == m.st \notin {"free", "deleting", "deleted"}

LEMMA KeptStays ==
  ASSUME MutexInv, KeepsLocking,
         \A q \in Procs : conn'[q] = "dead" \/ conn[q] # "dead",
         \A q \in Procs, t \in Slots :
           conn'[q] # "dead" /\ Kept(mutex[q][t]) => Kept(mutex'[q][t])
  PROVE  KeepsLocking'
BY DEF KeepsLocking, Kept

LEMMA KeptSlot ==
  ASSUME MutexInv, KeepsLocking, NEW p \in Procs, NEW s \in Slots,
         NEW m, Set(p, s, m), UNCHANGED conn, Kept(mutex[p][s]) => Kept(m)
  PROVE  KeepsLocking'
<1>1. mutex \in [Procs -> [Slots -> Mutexes]]
  BY InvBySlots DEF SharedOK
<1>2. /\ mutex'[p][s] = m
      /\ \A q \in Procs, t \in Slots :
           q # p \/ t # s => mutex'[q][t] = mutex[q][t]
  BY <1>1 DEF Set
<1>3. ASSUME NEW q \in Procs, NEW t \in Slots, Kept(mutex[q][t])
      PROVE  Kept(mutex'[q][t])
  <2>1. CASE q = p /\ t = s
    BY <1>2, <1>3, <2>1
  <2>2. CASE q # p \/ t # s
    BY <1>2, <1>3, <2>2
  <2> QED
    BY <2>1, <2>2
<1> QED
  BY <1>3, KeptStays DEF KeepsLocking

LEMMA KeptOrdinary ==
  ASSUME MutexInv, KeepsLocking, NEW p \in Procs, NEW s \in Slots,
         Ordinary(p, s), ~ MutexUnlock(p, s)
  PROVE  KeepsLocking'
<1>1. mutex[p][s] \in Mutexes
  BY SlotFacts
<1>2. UNCHANGED conn
  BY DEF Ordinary, CreateMutexNode, CreateMutexNodeComplete, GetChildren,
         Obtained, WatchPrevious, PreviousGone, PreviousLeaderWatcher,
         DeleteMutexNode, DeleteMutexCompleted
<1>3. ASSUME NEW m, Set(p, s, m), NEW st, m.st = st,
             st \notin {"free", "deleting", "deleted"}
      PROVE  KeepsLocking'
  BY <1>2, <1>3, KeptSlot DEF Kept
<1>4. ASSUME NEW m, Set(p, s, m), mutex[p][s].st \in {"deleting", "deleted"}
      PROVE  KeepsLocking'
  BY <1>2, <1>4, KeptSlot DEF Kept
<1>5. CASE CreateMutexNode(p, s)
  <2> DEFINE m == [mutex[p][s] EXCEPT !.st = "created", !.node = nextNode]
  <2>1. Set(p, s, m) /\ m.st = "created"
    BY <1>1, <1>5 DEF CreateMutexNode, Mutexes
  <2> HIDE DEF m
  <2> QED
    BY <1>3, <2>1
<1>6. CASE CreateMutexNodeComplete(p, s)
  <2> DEFINE m == [mutex[p][s] EXCEPT !.st = "listing"]
  <2>1. Set(p, s, m) /\ m.st = "listing"
    BY <1>1, <1>6 DEF CreateMutexNodeComplete, Mutexes
  <2> HIDE DEF m
  <2> QED
    BY <1>3, <2>1
<1>7. CASE GetChildren(p, s)
  <2> DEFINE m == [mutex[p][s] EXCEPT
                     !.st = "listed", !.prev = PreviousNode(mutex[p][s].node)]
  <2>1. Set(p, s, m) /\ m.st = "listed"
    BY <1>1, <1>7 DEF GetChildren, Mutexes
  <2> HIDE DEF m
  <2> QED
    BY <1>3, <2>1
<1>8. CASE Obtained(p, s)
  <2> DEFINE m == [mutex[p][s] EXCEPT !.st = "first", !.obtained = TRUE]
  <2>1. Set(p, s, m) /\ m.st = "first"
    BY <1>1, <1>8 DEF Obtained, Mutexes
  <2> HIDE DEF m
  <2> QED
    BY <1>3, <2>1
<1>9. CASE WatchPrevious(p, s)
  <2> DEFINE m == [mutex[p][s] EXCEPT !.st = "watching"]
  <2>1. Set(p, s, m) /\ m.st = "watching"
    BY <1>1, <1>9 DEF WatchPrevious, Mutexes
  <2> HIDE DEF m
  <2> QED
    BY <1>3, <2>1
<1>10. CASE PreviousGone(p, s)
  <2>1. Set(p, s, Mutex("pending")) /\ Mutex("pending").st = "pending"
    BY <1>10 DEF PreviousGone, Mutex
  <2> QED
    BY <1>3, <2>1
<1>11. CASE PreviousLeaderWatcher(p, s)
  <2> DEFINE m == [mutex[p][s] EXCEPT !.st = "listing", !.prev = NoNode]
  <2>1. Set(p, s, m) /\ m.st = "listing"
    BY <1>1, <1>11 DEF PreviousLeaderWatcher, Mutexes
  <2> HIDE DEF m
  <2> QED
    BY <1>3, <2>1
<1>12. CASE DeleteMutexNode(p, s) \/ DeleteMutexCompleted(p, s)
  BY <1>4, <1>12 DEF DeleteMutexNode, DeleteMutexCompleted
<1> QED
  BY <1>5, <1>6, <1>7, <1>8, <1>9, <1>10, <1>11, <1>12 DEF Ordinary

\* rb_zk_mutex_unlock: delete_cb has locked again.
LEMMA KeptUnlock ==
  ASSUME MutexInv, KeepsLocking, NEW p \in Procs, NEW s \in Slots,
         MutexUnlock(p, s)
  PROVE  KeepsLocking'
<1>1. mutex \in [Procs -> [Slots -> Mutexes]] /\ UNCHANGED conn
  BY InvBySlots DEF SharedOK, MutexUnlock
<1>2. PICK f \in FreeSlots(p) : f = Min(FreeSlots(p))
  <2>1. FreeSlots(p) \in SUBSET Nat /\ FreeSlots(p) # {}
    BY DEF MutexUnlock, FreeSlots, Slots
  <2> QED
    BY <2>1, MinMember
<1>3. f \in Slots /\ f # s
  BY DEF FreeSlots, MutexUnlock
<1>4. /\ mutex'[p][f] = Mutex("pending")
      /\ \A q \in Procs, t \in Slots : q # p => mutex'[q][t] = mutex[q][t]
  BY <1>1, <1>2, <1>3 DEF MutexUnlock
<1>5. Mutex("pending").st = "pending"
  BY DEF Mutex
<1>6. ASSUME NEW q \in Procs, conn'[q] # "dead"
      PROVE  \E t \in Slots :
               mutex'[q][t].st \notin {"free", "deleting", "deleted"}
  <2>1. CASE q = p
    BY <1>3, <1>4, <1>5, <2>1
  <2>2. CASE q # p
    BY <1>1, <1>4, <1>6, <2>2 DEF KeepsLocking
  <2> QED
    BY <2>1, <2>2
<1> QED
  BY <1>6 DEF KeepsLocking

LEMMA KeptSession ==
  ASSUME MutexInv, KeepsLocking, NEW p \in Procs, Session(p)
  PROVE  KeepsLocking'
<1>1. /\ mutex \in [Procs -> [Slots -> Mutexes]]
      /\ conn \in [Procs -> {"up", "lost", "down", "dead"}]
  BY InvBySlots DEF SharedOK
<1>2. Kept(Mutex("pending"))
  BY DEF Mutex, Kept
<1>3. CASE DoPendingLocks(p)
  <2>1. ASSUME NEW q \in Procs, NEW t \in Slots
        PROVE  \/ mutex'[q][t] = mutex[q][t]
               \/ mutex'[q][t] = [mutex[q][t] EXCEPT !.st = "creating"]
    BY <1>1, <1>3 DEF DoPendingLocks
  <2>2. ASSUME NEW q \in Procs, NEW t \in Slots, Kept(mutex[q][t])
        PROVE  Kept(mutex'[q][t])
    <3>1. mutex[q][t] \in Mutexes
      BY SlotFacts
    <3>2. [mutex[q][t] EXCEPT !.st = "creating"].st = "creating"
      BY <3>1 DEF Mutexes
    <3>3. CASE mutex'[q][t] = mutex[q][t]
      BY <2>2, <3>3
    <3>4. CASE mutex'[q][t] = [mutex[q][t] EXCEPT !.st = "creating"]
      BY <3>2, <3>4 DEF Kept
    <3> QED
      BY <2>1, <3>3, <3>4
  <2> QED
    BY <1>3, <2>2, KeptStays DEF DoPendingLocks
<1>4. CASE CleanMutex(p)
  <2>1. \A q \in Procs, t \in Slots :
          \/ mutex'[q][t] = mutex[q][t]
          \/ mutex'[q][t] = Mutex("pending")
    BY <1>1, <1>4 DEF CleanMutex
  <2>2. \A q \in Procs : conn'[q] = "dead" \/ conn[q] # "dead"
    BY <1>1, <1>4 DEF CleanMutex
  <2> QED
    BY <1>2, <2>1, <2>2, KeptStays
<1>5. CASE Reconnect(p)
  <2>1. /\ UNCHANGED mutex
        /\ \A q \in Procs : conn'[q] = "dead" \/ conn[q] # "dead"
    BY <1>1, <1>5 DEF Reconnect
  <2> QED
    BY <2>1, KeptStays
<1>6. CASE Restart(p)
  <2>1. 1 \in Slots
    BY BoundsAssumption DEF Slots
  <2>2. /\ mutex'[p][1] = Mutex("pending")
        /\ \A q \in Procs : q # p =>
             conn'[q] = conn[q] /\ \A t \in Slots : mutex'[q][t] = mutex[q][t]
    BY <1>1, <1>6, <2>1 DEF Restart, Set
  <2>3. ASSUME NEW q \in Procs, conn'[q] # "dead"
        PROVE  \E t \in Slots :
                 mutex'[q][t].st \notin {"free", "deleting", "deleted"}
    <3>1. CASE q = p
      BY <1>2, <2>1, <2>2, <3>1 DEF Kept
    <3>2. CASE q # p
      BY <2>2, <2>3, <3>2 DEF KeepsLocking
    <3> QED
      BY <3>1, <3>2
  <2> QED
    BY <2>3 DEF KeepsLocking
<1> QED
  BY <1>3, <1>4, <1>5, <1>6 DEF Session

LEMMA KeptDie ==
  ASSUME MutexInv, KeepsLocking, NEW p \in Procs, Die(p)
  PROVE  KeepsLocking'
<1>1. /\ mutex \in [Procs -> [Slots -> Mutexes]]
      /\ conn \in [Procs -> {"up", "lost", "down", "dead"}]
  BY InvBySlots DEF SharedOK
<1>2. /\ conn'[p] = "dead"
      /\ \A q \in Procs : q # p =>
           conn'[q] = conn[q] /\ \A t \in Slots : mutex'[q][t] = mutex[q][t]
  BY <1>1 DEF Die
<1> QED
  BY <1>2 DEF KeepsLocking

LEMMA KeptFaults ==
  ASSUME MutexInv, KeepsLocking, NEW p \in Procs, Faults(p)
  PROVE  KeepsLocking'
<1>1. conn \in [Procs -> {"up", "lost", "down", "dead"}]
  BY InvBySlots DEF SharedOK
<1>2. CASE Die(p)
  BY <1>2, KeptDie
<1>3. CASE UNCHANGED <<conn, mutex>>
  BY <1>3, KeptStays
<1>4. CASE LoseConnection(p)
  <2>1. /\ UNCHANGED mutex
        /\ \A q \in Procs : conn'[q] = "dead" \/ conn[q] # "dead"
    BY <1>1, <1>4 DEF LoseConnection
  <2> QED
    BY <2>1, KeptStays
<1>5. ASSUME NEW s \in Slots, Refused(p, s)
      PROVE  KeepsLocking'
  <2>1. UNCHANGED conn /\ mutex[p][s] \in Mutexes
    BY <1>5, RefusedSlot, SlotFacts DEF RequestFails
  <2>2. PICK m \in Mutexes :
          /\ Set(p, s, m)
          /\ \/ m = Mutex("pending")
             \/ /\ mutex[p][s].st = "listing"
                /\ m = [mutex[p][s] EXCEPT !.st = "stranded"]
             \/ /\ mutex[p][s].st = "deleting"
                /\ m = [mutex[p][s] EXCEPT !.st = "deleted"]
    BY <1>5, RefusedSlot
  <2>3. Kept(mutex[p][s]) => Kept(m)
    BY <2>1, <2>2 DEF Kept, Mutex, Mutexes
  <2>4. \A q \in Procs, t \in Slots : Kept(mutex[q][t]) => Kept(mutex'[q][t])
    BY <2>2, <2>3, SetSlot
  <2> QED
    BY <2>1, <2>4, KeptStays
<1> QED
  BY <1>2, <1>3, <1>4, <1>5
     DEF Faults, SessionExpires, Crash, DoubleFree, StaleWatcher

LEMMA KeptInit == Init => KeepsLocking
<1> SUFFICES ASSUME Init PROVE KeepsLocking
  OBVIOUS
<1>1. 1 \in Slots
  BY BoundsAssumption DEF Slots
<1> QED
  BY <1>1 DEF Init, KeepsLocking, Mutex

LEMMA KeptStep ==
  ASSUME MutexInv, KeepsLocking, [Next]_vars
  PROVE  KeepsLocking'
<1>1. CASE UNCHANGED vars
  BY <1>1 DEF vars, KeepsLocking
<1>2. ASSUME NEW p \in Procs, NEW s \in Slots, Ordinary(p, s)
      PROVE  KeepsLocking'
  BY <1>2, KeptOrdinary, KeptUnlock
<1>3. CASE LeftoverExpires
  BY <1>3 DEF LeftoverExpires, KeepsLocking
<1> QED
  BY <1>1, <1>2, <1>3, KeptSession, KeptFaults DEF Next

LEMMA SomeoneHoldsAtRest ==
  ASSUME MutexInv, KeepsLocking, ProcsAssumption
  PROVE  AtRestSomeoneHolds
<1> SUFFICES ASSUME MutexAtRest PROVE SomeoneHolds \/ Orphans # {}
  BY DEF AtRestSomeoneHolds
<1>1. PICK p \in Procs : TRUE
  BY DEF ProcsAssumption
<1>2. PICK s \in Slots : mutex[p][s].st # "free"
  BY DEF MutexAtRest, KeepsLocking
<1>3. CASE mutex[p][s].st = "first"
  BY <1>3, HoldsFirst DEF SomeoneHolds
<1>4. CASE mutex[p][s].st = "watching" /\ mutex[p][s].prev \in Numbers
  BY <1>4, LowestHolds DEF Numbers
<1>5. CASE mutex[p][s].st = "stranded"
  <2>1. nodes # {}
    BY <1>5, SlotFacts DEF SlotOK, NoPath
  <2> QED
    BY <2>1, LowestHolds
<1> QED
  BY <1>2, <1>3, <1>4, <1>5 DEF MutexAtRest

\* An instance that runs has a mutex at any time that it has not given up.
THEOREM LockingKept == Spec => []KeepsLocking
BY KeptInit, KeptStep, MutexInvariant, PTL DEF Spec

\* The instances never all wait for one another: a mutex waits for a node before
\* its own, so a node that was not left behind is obtained (rb_zk.c:277-356).
THEOREM NoCircleOfWaits == Spec => []AtRestSomeoneHolds
BY LockingKept, MutexInvariant, SomeoneHoldsAtRest, ProcsAssumption, PTL

-----------------------------------------------------------------------------
(* The mutex implements the lock of ZkLock.                                *)

LEMMA HeldNodesAre ==
  ASSUME NEW n
  PROVE  n \in HeldNodes <=>
           \E p \in Procs, s \in Slots : Holds(p, s) /\ n = mutex[p][s].node
<1>1. ASSUME n \in HeldNodes
      PROVE  \E p \in Procs, s \in Slots : Holds(p, s) /\ n = mutex[p][s].node
  <2>1. PICK x \in {y \in Procs \X Slots : Holds(y[1], y[2])} :
               n = mutex[x[1]][x[2]].node
    BY <1>1 DEF HeldNodes
  <2>2. x[1] \in Procs /\ x[2] \in Slots
    OBVIOUS
  <2> QED
    BY <2>1, <2>2
<1>2. ASSUME NEW p \in Procs, NEW s \in Slots, Holds(p, s), n = mutex[p][s].node
      PROVE  n \in HeldNodes
  <2>1. <<p, s>> \in {y \in Procs \X Slots : Holds(y[1], y[2])}
    BY <1>2
  <2> QED
    BY <1>2, <2>1 DEF HeldNodes
<1> QED
  BY <1>1, <1>2

LEMMA HeldNodesByState ==
  ASSUME MutexInv, NEW n
  PROVE  n \in HeldNodes <=>
           \E p \in Procs, s \in Slots :
             mutex[p][s].st = "first" /\ n = mutex[p][s].node
BY HeldNodesAre, HoldsFirst

LEMMA HeldNodesNext ==
  ASSUME MutexInv', NEW n
  PROVE  n \in HeldNodes' <=>
           \E p \in Procs, s \in Slots :
             mutex'[p][s].st = "first" /\ n = mutex'[p][s].node
<1>1. ASSUME NEW p \in Procs, NEW s \in Slots
      PROVE  Holds(p, s)' <=> mutex'[p][s].st = "first"
  BY DEF MutexInv, HolderIsLowest, Holds
<1>2. ASSUME n \in HeldNodes'
      PROVE  \E p \in Procs, s \in Slots :
               Holds(p, s)' /\ n = mutex'[p][s].node
  <2>1. PICK x \in {y \in Procs \X Slots : Holds(y[1], y[2])'} :
               n = mutex'[x[1]][x[2]].node
    BY <1>2 DEF HeldNodes
  <2>2. x[1] \in Procs /\ x[2] \in Slots
    OBVIOUS
  <2> QED
    BY <2>1, <2>2
<1>3. ASSUME NEW p \in Procs, NEW s \in Slots,
             Holds(p, s)', n = mutex'[p][s].node
      PROVE  n \in HeldNodes'
  <2>1. <<p, s>> \in {y \in Procs \X Slots : Holds(y[1], y[2])'}
    BY <1>3
  <2> QED
    BY <1>3, <2>1 DEF HeldNodes
<1> QED
  BY <1>1, <1>2, <1>3

\* The held nodes exist, and there is one at most.
LEMMA HeldNodesOne ==
  ASSUME MutexInv
  PROVE  /\ HeldNodes \subseteq Numbers
         /\ \A m, n \in HeldNodes : m = n
<1>1. HeldNodes \subseteq Numbers
  BY HeldNodesByState, HolderNode
<1>2. ASSUME NEW m \in HeldNodes, NEW n \in HeldNodes PROVE m = n
  <2>1. PICK p \in Procs, s \in Slots : Holds(p, s) /\ m = mutex[p][s].node
    BY HeldNodesAre
  <2>2. PICK q \in Procs, t \in Slots : Holds(q, t) /\ n = mutex[q][t].node
    BY HeldNodesAre
  <2> QED
    BY <2>1, <2>2, InvExcludes DEF MutualExclusion
<1> QED
  BY <1>1, <1>2

LEMMA HeldNodesThereNext ==
  ASSUME MutexInv'
  PROVE  HeldNodes' \subseteq Numbers'
<1> SUFFICES ASSUME NEW n \in HeldNodes' PROVE n \in Numbers'
  OBVIOUS
<1>1. PICK p \in Procs, s \in Slots :
             mutex'[p][s].st = "first" /\ n = mutex'[p][s].node
  BY HeldNodesNext
<1>2. [seq |-> mutex'[p][s].node, owner |-> p, live |-> TRUE] \in nodes'
  BY <1>1 DEF MutexInv, OwnNodeThere, NoPath
<1> QED
  BY <1>1, <1>2 DEF Numbers

\* A step without a new node or a new holder gives the lock up, or lets numbers
\* vanish, or is none of the lock's; it does not do the first two at once.
LEMMA QuietStep ==
  ASSUME MutexInv, MutexInv', UNCHANGED <<nextNode, granted>>,
         Numbers' \subseteq Numbers,
         \A p \in Procs, s \in Slots : mutex'[p][s].st = "first" =>
           mutex[p][s].st = "first" /\ mutex'[p][s].node = mutex[p][s].node,
         \/ Numbers' = Numbers
         \/ \A p \in Procs, s \in Slots : mutex[p][s].st = "first" =>
              mutex'[p][s] = mutex[p][s]
  PROVE  [Lock!Next]_(Lock!vars)
<1>1. HeldNodes' \subseteq HeldNodes
  <2> SUFFICES ASSUME NEW n \in HeldNodes' PROVE n \in HeldNodes
    OBVIOUS
  <2>1. PICK p \in Procs, s \in Slots :
               mutex'[p][s].st = "first" /\ n = mutex'[p][s].node
    BY HeldNodesNext
  <2> QED
    BY <2>1, HeldNodesByState
<1>2. HeldNodes' \subseteq Numbers'
  BY HeldNodesThereNext
<1>3. CASE HeldNodes' = HeldNodes /\ Numbers' = Numbers
  BY <1>3 DEF Lock!vars
<1>4. CASE HeldNodes' = HeldNodes /\ Numbers' # Numbers
  BY <1>2, <1>4 DEF Lock!Next, Lock!Vanish
<1>5. CASE HeldNodes' # HeldNodes
  <2>1. Numbers' = Numbers
    <3> SUFFICES ASSUME Numbers' # Numbers PROVE HeldNodes \subseteq HeldNodes'
      BY <1>1, <1>5
    <3> SUFFICES ASSUME NEW n \in HeldNodes PROVE n \in HeldNodes'
      OBVIOUS
    <3>1. PICK p \in Procs, s \in Slots :
                 mutex[p][s].st = "first" /\ n = mutex[p][s].node
      BY HeldNodesByState
    <3>2. mutex'[p][s] = mutex[p][s]
      BY <3>1
    <3> QED
      BY <3>1, <3>2, HeldNodesNext
  <2>2. HeldNodes # {} /\ HeldNodes' = {}
    BY <1>1, <1>5, HeldNodesOne
  <2> QED
    BY <2>1, <2>2 DEF Lock!Next, Lock!GiveUp
<1> QED
  BY <1>3, <1>4, <1>5

\* zoo_acreate takes the next number.
LEMMA EnterStep ==
  ASSUME MutexInv, MutexInv', NEW p \in Procs, NEW s \in Slots,
         CreateMutexNode(p, s)
  PROVE  Lock!Enter
<1> DEFINE m == [mutex[p][s] EXCEPT !.st = "created", !.node = nextNode]
           node == [seq |-> nextNode, owner |-> p, live |-> TRUE]
<1>1. /\ mutex[p][s].st = "creating" /\ Set(p, s, m)
      /\ nodes' = nodes \cup {node}
      /\ nextNode' = nextNode + 1 /\ nextNode <= MaxNodes
      /\ UNCHANGED granted
  BY DEF CreateMutexNode
<1>2. nextNode \in 1..(MaxNodes + 1) /\ mutex[p][s] \in Mutexes
  BY SlotFacts
<1>3. m \in Mutexes /\ m.st = "created"
  <2>1. nextNode \in 0..MaxNodes
    BY <1>1, <1>2, BoundsAssumption
  <2> QED
    BY <1>2, <2>1 DEF Mutexes, Paths
<1>4. /\ mutex'[p][s] = m
      /\ \A q \in Procs, t \in Slots :
           q # p \/ t # s => mutex'[q][t] = mutex[q][t]
  BY <1>1, <1>3, SetSlot
<1>5. \A q \in Procs, t \in Slots :
        /\ mutex'[q][t].st = "first" <=> mutex[q][t].st = "first"
        /\ mutex[q][t].st = "first" => mutex'[q][t] = mutex[q][t]
  BY <1>1, <1>3, <1>4
<1>6. HeldNodes' = HeldNodes
  <2>1. ASSUME NEW n PROVE n \in HeldNodes' <=> n \in HeldNodes
    BY <1>5, HeldNodesByState, HeldNodesNext
  <2> QED
    BY <2>1
<1>7. Numbers' = Numbers \cup {nextNode}
  <2>1. node.seq = nextNode
    OBVIOUS
  <2> HIDE DEF node
  <2> QED
    BY <1>1, <2>1 DEF Numbers
<1> QED
  BY <1>1, <1>2, <1>6, <1>7 DEF Lock!Enter

\* The mutex is obtained as its node's turn comes.
LEMMA GrantStep ==
  ASSUME MutexInv, MutexInv', NEW p \in Procs, NEW s \in Slots, Obtained(p, s)
  PROVE  \E n \in Numbers : Lock!Grant(n)
<1> DEFINE m == [mutex[p][s] EXCEPT !.st = "first", !.obtained = TRUE]
           n == mutex[p][s].node
<1>1. /\ mutex[p][s].st = "listed" /\ mutex[p][s].prev = NoNode
      /\ Set(p, s, m) /\ granted' = n
      /\ UNCHANGED <<nodes, nextNode>>
  BY DEF Obtained
<1>2. mutex[p][s] \in Mutexes /\ SlotOK(p, s) /\ Numbers \subseteq 1..MaxNodes
  BY SlotFacts
<1>3. m \in Mutexes /\ m.st = "first" /\ m.node = n
  BY <1>2 DEF Mutexes, Paths
<1>4. /\ mutex'[p][s] = m
      /\ \A q \in Procs, t \in Slots :
           q # p \/ t # s => mutex'[q][t] = mutex[q][t]
  BY <1>1, <1>3, SetSlot
<1>5. n \in Numbers /\ n # NoNode /\ n \in 0..MaxNodes
  <2>1. mutex[p][s].st \notin NoPath \cup {"deleted"}
    BY <1>1 DEF NoPath
  <2>2. [seq |-> n, owner |-> p, live |-> TRUE] \in nodes
    BY <1>2, <2>1 DEF SlotOK
  <2>3. n \in Numbers
    BY <2>2 DEF Numbers
  <2> QED
    BY <1>2, <2>1, <2>3 DEF SlotOK, Mutexes
<1>6. \A k \in Numbers : n <= k
  <2> SUFFICES ASSUME NEW k \in Numbers PROVE n <= k
    OBVIOUS
  <2>1. ~ (NoNode < k /\ k < n)
    BY <1>1, <1>2 DEF SlotOK
  <2>2. k \in 1..MaxNodes
    BY <1>2
  <2> QED
    BY <1>5, <2>1, <2>2 DEF NoNode
<1>7. HeldNodes = {}
  <2> SUFFICES ASSUME NEW h \in HeldNodes PROVE FALSE
    OBVIOUS
  <2>1. PICK q \in Procs, t \in Slots :
               mutex[q][t].st = "first" /\ h = mutex[q][t].node
    BY HeldNodesByState
  <2>2. h \in Numbers /\ h <= n
    BY <1>5, <2>1, HolderNode
  <2>3. h = n
    <3>1. n <= h /\ h \in 1..MaxNodes
      BY <1>2, <1>6, <2>2
    <3> HIDE DEF n
    <3> QED
      BY <1>5, <2>2, <3>1
  <2>4. OneMutexPerNode
    BY DEF MutexInv
  <2>5. mutex[p][s].node = mutex[q][t].node /\ mutex[p][s].node # NoNode
    BY <1>5, <2>1, <2>3
  <2>6. p = q /\ s = t
    BY <2>4, <2>5 DEF OneMutexPerNode
  <2> QED
    BY <1>1, <2>1, <2>6
<1>8. HeldNodes' = {n}
  <2>1. ASSUME NEW k \in HeldNodes' PROVE k = n
    <3>1. PICK q \in Procs, t \in Slots :
                 mutex'[q][t].st = "first" /\ k = mutex'[q][t].node
      BY <2>1, HeldNodesNext
    <3>2. CASE q = p /\ t = s
      BY <1>3, <1>4, <3>1, <3>2
    <3>3. CASE q # p \/ t # s
      BY <1>4, <1>7, <3>1, <3>3, HeldNodesByState
    <3> QED
      BY <3>2, <3>3
  <2>2. n \in HeldNodes'
    BY <1>3, <1>4, HeldNodesNext
  <2> QED
    BY <2>1, <2>2
<1>9. n > granted
  BY <1>1, <1>2 DEF SlotOK
<1>10. Numbers' = Numbers
  BY <1>1 DEF Numbers
<1> HIDE DEF n
<1> QED
  BY <1>1, <1>5, <1>6, <1>7, <1>8, <1>9, <1>10 DEF Lock!Grant

\* Every other step is quiet.
LEMMA QuietSlot ==
  ASSUME MutexInv, MutexInv', NEW p \in Procs, NEW s \in Slots,
         NEW m \in Mutexes, Set(p, s, m), m.st # "first",
         mutex[p][s].st # "first", UNCHANGED <<nextNode, granted>>,
         Numbers' \subseteq Numbers
  PROVE  [Lock!Next]_(Lock!vars)
<1>1. /\ mutex'[p][s] = m
      /\ \A q \in Procs, t \in Slots :
           q # p \/ t # s => mutex'[q][t] = mutex[q][t]
  BY SetSlot
<1>2. \A q \in Procs, t \in Slots :
        /\ mutex'[q][t].st = "first" =>
             mutex[q][t].st = "first" /\ mutex'[q][t].node = mutex[q][t].node
        /\ mutex[q][t].st = "first" => mutex'[q][t] = mutex[q][t]
  BY <1>1
<1> QED
  BY <1>2, QuietStep

\* What the requests of one mutex change, but for obtaining and releasing it.
LEMMA RequestSlot ==
  ASSUME MutexInv, MutexInv', NEW p \in Procs, NEW s \in Slots,
         \/ CreateMutexNode(p, s) \/ CreateMutexNodeComplete(p, s)
         \/ GetChildren(p, s) \/ WatchPrevious(p, s) \/ PreviousGone(p, s)
         \/ PreviousLeaderWatcher(p, s)
         \/ DeleteMutexNode(p, s) \/ DeleteMutexCompleted(p, s)
  PROVE  /\ mutex[p][s].st # "first"
         /\ \E m \in Mutexes : Set(p, s, m) /\ m.st \notin {"first", "stranded"}
<1>1. mutex[p][s] \in Mutexes /\ mutex'[p][s] \in Mutexes
  BY SlotFacts DEF MutexInv, TypeOK
<1>2. mutex \in [Procs -> [Slots -> Mutexes]]
  BY DEF MutexInv, TypeOK
<1>3. ASSUME NEW m, Set(p, s, m) PROVE m \in Mutexes
  BY <1>1, <1>2, <1>3 DEF Set
<1>4. mutex[p][s].st # "first"
  BY DEF CreateMutexNode, CreateMutexNodeComplete, GetChildren, WatchPrevious,
         PreviousGone, PreviousLeaderWatcher, DeleteMutexNode,
         DeleteMutexCompleted
<1>5. \E m : Set(p, s, m) /\ m.st \notin {"first", "stranded"}
  <2>0. CASE CreateMutexNode(p, s)
    <3> DEFINE m == [mutex[p][s] EXCEPT !.st = "created", !.node = nextNode]
    <3>1. Set(p, s, m) /\ m.st \notin {"first", "stranded"}
      BY <1>1, <2>0 DEF CreateMutexNode, Mutexes
    <3> QED
      BY <3>1
  <2>1. CASE CreateMutexNodeComplete(p, s)
    <3> DEFINE m == [mutex[p][s] EXCEPT !.st = "listing"]
    <3>1. Set(p, s, m) /\ m.st \notin {"first", "stranded"}
      BY <1>1, <2>1 DEF CreateMutexNodeComplete, Mutexes
    <3> QED
      BY <3>1
  <2>2. CASE GetChildren(p, s)
    <3> DEFINE m == [mutex[p][s] EXCEPT
                       !.st = "listed", !.prev = PreviousNode(mutex[p][s].node)]
    <3>1. Set(p, s, m) /\ m.st \notin {"first", "stranded"}
      BY <1>1, <2>2 DEF GetChildren, Mutexes
    <3> QED
      BY <3>1
  <2>3. CASE WatchPrevious(p, s)
    <3> DEFINE m == [mutex[p][s] EXCEPT !.st = "watching"]
    <3>1. Set(p, s, m) /\ m.st \notin {"first", "stranded"}
      BY <1>1, <2>3 DEF WatchPrevious, Mutexes
    <3> QED
      BY <3>1
  <2>4. CASE PreviousGone(p, s)
    BY <2>4 DEF PreviousGone, Mutex
  <2>5. CASE PreviousLeaderWatcher(p, s)
    <3> DEFINE m == [mutex[p][s] EXCEPT !.st = "listing", !.prev = NoNode]
    <3>1. Set(p, s, m) /\ m.st \notin {"first", "stranded"}
      BY <1>1, <2>5 DEF PreviousLeaderWatcher, Mutexes
    <3> QED
      BY <3>1
  <2>6. CASE DeleteMutexNode(p, s)
    <3> DEFINE m == [mutex[p][s] EXCEPT !.st = "deleted"]
    <3>1. Set(p, s, m) /\ m.st \notin {"first", "stranded"}
      BY <1>1, <2>6 DEF DeleteMutexNode, Mutexes
    <3> QED
      BY <3>1
  <2>7. CASE DeleteMutexCompleted(p, s)
    BY <2>7 DEF DeleteMutexCompleted, Mutex
  <2> QED
    BY <2>0, <2>1, <2>2, <2>3, <2>4, <2>5, <2>6, <2>7
<1> QED
  BY <1>3, <1>4, <1>5

LEMMA QuietOrdinary ==
  ASSUME MutexInv, MutexInv', NEW p \in Procs, NEW s \in Slots,
         \/ CreateMutexNodeComplete(p, s) \/ GetChildren(p, s)
         \/ WatchPrevious(p, s) \/ PreviousGone(p, s)
         \/ PreviousLeaderWatcher(p, s)
         \/ DeleteMutexNode(p, s) \/ DeleteMutexCompleted(p, s)
  PROVE  [Lock!Next]_(Lock!vars)
<1>1. UNCHANGED <<nextNode, granted>> /\ Numbers' \subseteq Numbers
  BY DEF CreateMutexNodeComplete, GetChildren, WatchPrevious, PreviousGone,
         PreviousLeaderWatcher, DeleteMutexNode, DeleteMutexCompleted, Numbers
<1>2. /\ mutex[p][s].st # "first"
      /\ \E m \in Mutexes : Set(p, s, m) /\ m.st # "first"
  BY RequestSlot
<1> QED
  BY <1>1, <1>2, QuietSlot

\* A step that only ends mutexes, or changes them before they are obtained.
LEMMA QuietMutexes ==
  ASSUME MutexInv, MutexInv', UNCHANGED <<nextNode, granted>>,
         Numbers' = Numbers,
         \A q \in Procs, t \in Slots :
           mutex'[q][t] = mutex[q][t] \/ mutex'[q][t].st # "first"
  PROVE  [Lock!Next]_(Lock!vars)
<1>1. \A q \in Procs, t \in Slots : mutex'[q][t].st = "first" =>
        mutex[q][t].st = "first" /\ mutex'[q][t].node = mutex[q][t].node
  OBVIOUS
<1> QED
  BY <1>1, QuietStep

\* A step that only lets nodes vanish, or touches none.
LEMMA QuietNodes ==
  ASSUME MutexInv, MutexInv', UNCHANGED <<mutex, nextNode, granted>>,
         Numbers' \subseteq Numbers
  PROVE  [Lock!Next]_(Lock!vars)
BY QuietStep

LEMMA QuietUnlock ==
  ASSUME MutexInv, MutexInv', NEW p \in Procs, NEW s \in Slots,
         MutexUnlock(p, s)
  PROVE  [Lock!Next]_(Lock!vars)
<1> DEFINE m == [mutex[p][s] EXCEPT !.st = "deleting"]
<1>1. UNCHANGED <<nextNode, granted>> /\ Numbers' = Numbers
  BY DEF MutexUnlock, Numbers
<1>2. mutex[p][s] \in Mutexes
  BY SlotFacts
<1>3. /\ Mutex("pending").st # "first" /\ Mutex("free").st # "first"
      /\ m.st # "first"
  BY <1>2 DEF Mutex, Mutexes
<1>4. \A q \in Procs, t \in Slots :
        \/ mutex'[q][t] = mutex[q][t]
        \/ mutex'[q][t] \in {Mutex("pending"), Mutex("free")}
        \/ q = p /\ t = s /\ mutex'[q][t] = m
  BY UnlockSlots
<1>5. \A q \in Procs, t \in Slots :
        mutex'[q][t] = mutex[q][t] \/ mutex'[q][t].st # "first"
  <2> HIDE DEF m
  <2> QED
    BY <1>3, <1>4
<1> QED
  BY <1>1, <1>5, QuietMutexes

LEMMA QuietDie ==
  ASSUME MutexInv, MutexInv', NEW p \in Procs, Die(p),
         UNCHANGED <<nextNode, granted>>
  PROVE  [Lock!Next]_(Lock!vars)
<1>1. mutex \in [Procs -> [Slots -> Mutexes]] /\ faults' \in 0..MaxFaults
  BY DEF MutexInv, TypeOK
<1>2. Numbers' = Numbers
  BY <1>1, DieStep
<1>3. \A q \in Procs, t \in Slots :
        mutex'[q][t] = mutex[q][t] \/ mutex'[q][t].st # "first"
  BY <1>1 DEF Die, Mutex
<1> QED
  BY <1>2, <1>3, QuietMutexes

LEMMA QuietNewLock ==
  ASSUME MutexInv, MutexInv', NEW p \in Procs, NEW s \in Slots,
         Set(p, s, Mutex("pending")), UNCHANGED <<nodes, nextNode, granted>>
  PROVE  [Lock!Next]_(Lock!vars)
<1>1. mutex \in [Procs -> [Slots -> Mutexes]]
  BY DEF MutexInv, TypeOK
<1>2. \A q \in Procs, t \in Slots :
        mutex'[q][t] = mutex[q][t] \/ mutex'[q][t].st # "first"
  BY <1>1 DEF Set, Mutex
<1>3. Numbers' = Numbers
  BY DEF Numbers
<1> QED
  BY <1>2, <1>3, QuietMutexes

LEMMA QuietSession ==
  ASSUME MutexInv, MutexInv', NEW p \in Procs, Session(p)
  PROVE  [Lock!Next]_(Lock!vars)
<1>1. mutex \in [Procs -> [Slots -> Mutexes]]
  BY DEF MutexInv, TypeOK
<1>2. UNCHANGED <<nodes, nextNode, granted>> /\ Numbers' = Numbers
  BY DEF Session, DoPendingLocks, CleanMutex, Reconnect, Restart, Numbers
<1>3. CASE DoPendingLocks(p)
  <2>1. \A q \in Procs, t \in Slots :
          mutex'[q][t] = mutex[q][t] \/ mutex'[q][t].st # "first"
    BY <1>1, <1>3 DEF DoPendingLocks, Mutexes
  <2> QED
    BY <1>2, <2>1, QuietMutexes
<1>4. CASE CleanMutex(p)
  <2>1. \A q \in Procs, t \in Slots :
          mutex'[q][t] = mutex[q][t] \/ mutex'[q][t].st # "first"
    BY <1>1, <1>4 DEF CleanMutex, Mutex
  <2> QED
    BY <1>2, <2>1, QuietMutexes
<1>5. CASE Reconnect(p)
  BY <1>2, <1>5, QuietNodes DEF Reconnect
<1>6. CASE Restart(p)
  <2>1. 1 \in Slots
    BY BoundsAssumption DEF Slots
  <2> QED
    BY <1>2, <1>6, <2>1, QuietNewLock DEF Restart
<1> QED
  BY <1>3, <1>4, <1>5, <1>6 DEF Session

LEMMA QuietFaults ==
  ASSUME MutexInv, MutexInv', NEW p \in Procs, Faults(p)
  PROVE  [Lock!Next]_(Lock!vars)
<1>1. UNCHANGED <<nextNode, granted>>
  BY RefusedSlot DEF Faults, LoseConnection, SessionExpires, Crash, DoubleFree,
                     StaleWatcher, RequestFails
<1>2. CASE Die(p)
  BY <1>1, <1>2, QuietDie
<1>3. CASE LoseConnection(p) \/ SessionExpires(p)
           \/ UNCHANGED <<mutex, nodes>>
  <2>1. UNCHANGED mutex /\ Numbers' \subseteq Numbers
    BY <1>3 DEF LoseConnection, SessionExpires, Numbers
  <2> QED
    BY <1>1, <2>1, QuietNodes
<1>4. ASSUME NEW s \in Slots, Refused(p, s)
      PROVE  [Lock!Next]_(Lock!vars)
  <2>1. Numbers' = Numbers
    BY <1>4, RefusedSlot DEF RequestFails, Numbers
  <2>2. PICK m \in Mutexes :
          /\ Set(p, s, m)
          /\ \/ m = Mutex("pending")
             \/ m = [mutex[p][s] EXCEPT !.st = "stranded"]
             \/ m = [mutex[p][s] EXCEPT !.st = "deleted"]
    BY <1>4, RefusedSlot
  <2>3. m.st # "first"
    BY <2>2, SlotFacts DEF Mutex, Mutexes
  <2>4. \A q \in Procs, t \in Slots :
          mutex'[q][t] = mutex[q][t] \/ mutex'[q][t].st # "first"
    BY <2>2, <2>3, SetSlot
  <2> QED
    BY <1>1, <2>1, <2>4, QuietMutexes
<1> QED
  BY <1>2, <1>3, <1>4 DEF Faults, Crash, DoubleFree, StaleWatcher

LEMMA LockStep ==
  ASSUME MutexInv, MutexInv', [Next]_vars
  PROVE  [Lock!Next]_(Lock!vars)
<1>1. CASE UNCHANGED vars
  BY <1>1, QuietNodes DEF vars, Numbers
<1>2. ASSUME NEW p \in Procs, NEW s \in Slots, Ordinary(p, s)
      PROVE  [Lock!Next]_(Lock!vars)
  <2>1. CASE CreateMutexNode(p, s)
    BY <2>1, EnterStep DEF Lock!Next
  <2>2. CASE Obtained(p, s)
    BY <2>2, GrantStep DEF Lock!Next
  <2>3. CASE MutexUnlock(p, s)
    BY <2>3, QuietUnlock
  <2> QED
    BY <1>2, <2>1, <2>2, <2>3, QuietOrdinary DEF Ordinary
<1>3. CASE LeftoverExpires
  <2>1. UNCHANGED <<mutex, nextNode, granted>> /\ Numbers' \subseteq Numbers
    BY <1>3 DEF LeftoverExpires, Numbers
  <2> QED
    BY <2>1, QuietNodes
<1> QED
  BY <1>1, <1>2, <1>3, QuietSession, QuietFaults DEF Next

LEMMA LockInit == Init => Lock!Init
<1> SUFFICES ASSUME Init PROVE Lock!Init
  OBVIOUS
<1>1. MutexInv
  BY InitInv
<1>2. Numbers = {} /\ nextNode = 1 /\ granted = 0
  BY DEF Init, Numbers, NoNode
<1>3. HeldNodes = {}
  BY <1>1, <1>2, HeldNodesOne
<1> QED
  BY <1>2, <1>3 DEF Lock!Init

\* Every step of an instance, of ZooKeeper or of a fault is one of the lock, or
\* none: the rb_zk mutex is the lock that ZkLock specifies (rb_zk.c:309-350,
\* 504-557).
THEOREM LockImplemented == Spec => ImplementsLock
<1>1. MutexInv /\ MutexInv' /\ [Next]_vars => [Lock!Next]_(Lock!vars)
  BY LockStep
<1> QED
  BY <1>1, LockInit, MutexInvariant, PTL DEF Spec, ImplementsLock, Lock!Spec

\* Only a fault strands a mutex: its listing is answered with an error
\* (rb_zk.c:314-318).
LEMMA OnlyFaultsStrand ==
  ASSUME MutexInv, MutexInv', [Next]_vars
  PROVE  \/ faults' = faults + 1
         \/ \A q \in Procs, t \in Slots :
              mutex'[q][t].st = "stranded" => mutex[q][t].st = "stranded"
<1> DEFINE NoneStranded ==
      \A q \in Procs, t \in Slots :
        mutex'[q][t].st = "stranded" => mutex[q][t].st = "stranded"
<1>1. mutex \in [Procs -> [Slots -> Mutexes]]
  BY DEF MutexInv, TypeOK
<1>2. ASSUME NEW p \in Procs, NEW s \in Slots, NEW m \in Mutexes,
             Set(p, s, m), m.st # "stranded"
      PROVE  NoneStranded
  BY <1>2, SetSlot
<1>3. ASSUME NEW p \in Procs, NEW s \in Slots, Ordinary(p, s)
      PROVE  NoneStranded
  <2>1. CASE MutexUnlock(p, s)
    <3> DEFINE m == [mutex[p][s] EXCEPT !.st = "deleting"]
    <3>1. m.st # "stranded" /\ \A st : Mutex(st).st = st
      BY SlotFacts DEF Mutex, Mutexes
    <3>2. \A q \in Procs, t \in Slots :
            \/ mutex'[q][t] = mutex[q][t]
            \/ mutex'[q][t] \in {Mutex("pending"), Mutex("free")}
            \/ mutex'[q][t] = m
      BY <2>1, UnlockSlots
    <3> HIDE DEF m
    <3> QED
      BY <3>1, <3>2
  <2>2. CASE Obtained(p, s)
    <3> DEFINE m == [mutex[p][s] EXCEPT !.st = "first", !.obtained = TRUE]
    <3>1. m \in Mutexes /\ m.st # "stranded"
      BY SlotFacts DEF Mutexes, Paths
    <3>2. Set(p, s, m)
      BY <2>2 DEF Obtained
    <3> HIDE DEF m
    <3> QED
      BY <1>2, <3>1, <3>2
  <2>3. CASE ~ (MutexUnlock(p, s) \/ Obtained(p, s))
    <3>1. \E m \in Mutexes : Set(p, s, m) /\ m.st \notin {"first", "stranded"}
      BY <1>3, <2>3, RequestSlot DEF Ordinary
    <3> QED
      BY <1>2, <3>1
  <2> QED
    BY <2>1, <2>2, <2>3
<1>4. ASSUME NEW p \in Procs, Session(p)
      PROVE  NoneStranded
  <2>1. CASE DoPendingLocks(p)
    BY <1>1, <2>1 DEF DoPendingLocks, Mutexes
  <2>2. CASE CleanMutex(p)
    BY <1>1, <2>2 DEF CleanMutex, Mutex
  <2>3. CASE Restart(p)
    <3>1. 1 \in Slots /\ Mutex("pending") \in Mutexes
      BY FreshMutex, BoundsAssumption DEF Slots
    <3> QED
      BY <1>2, <2>3, <3>1 DEF Restart, Mutex
  <2>4. CASE Reconnect(p)
    BY <2>4 DEF Reconnect
  <2> QED
    BY <1>4, <2>1, <2>2, <2>3, <2>4 DEF Session
<1>5. ASSUME NEW p \in Procs, Die(p)
      PROVE  NoneStranded
  BY <1>1, <1>5 DEF Die, Mutex
<1>6. ASSUME NEW p \in Procs, Faults(p)
      PROVE  NoneStranded \/ faults' = faults + 1
  <2>1. ASSUME NEW s \in Slots, Refused(p, s)
        PROVE  faults' = faults + 1
    BY <2>1, RefusedSlot DEF RequestFails
  <2>2. CASE UNCHANGED mutex
    BY <2>2
  <2> QED
    BY <1>5, <1>6, <2>1, <2>2
       DEF Faults, LoseConnection, SessionExpires, Crash, DoubleFree, StaleWatcher
<1>7. CASE UNCHANGED mutex
  BY <1>7
<1> QED
  BY <1>3, <1>4, <1>6, <1>7 DEF Next, LeftoverExpires, vars

\* Whatever is granted is granted with a higher number than before.
LEMMA GrantsGrow ==
  ASSUME MutexInv, MutexInv', [Lock!Next]_(Lock!vars)
  PROVE  granted' # granted => granted' > granted
BY DEF Lock!Next, Lock!Enter, Lock!Grant, Lock!GiveUp, Lock!Vanish, Lock!vars

\* The mutex is obtained in the order in which ZooKeeper created the nodes,
\* whichever of them vanish in between (leader_get_children_complete,
\* rb_zk.c:309-350).
THEOREM OrderKept == Spec => ObtainedInOrder
<1>1. MutexInv /\ MutexInv' /\ [Next]_vars =>
        [granted' # granted => granted' > granted]_vars
  BY LockStep, GrantsGrow
<1> QED
  BY <1>1, MutexInvariant, PTL DEF Spec, ObtainedInOrder

=============================================================================
