------------------------------- MODULE ZkQueue -------------------------------
(***************************************************************************)
(* The queue of sensors in ZooKeeper (rb_zk.c, "FIFO QUEUE", and the list  *)
(* pop of rb_monitor_zk.c) over the mutex of ZkMutex.  Every instance runs *)
(* a poll loop: it locks the queue's mutex, lists the queue, waits for an  *)
(* element if there is none, gets the lowest, hands it over to the sensors *)
(* of the instance (pop_sensors_list), deletes it, starts the loop again   *)
(* and unlocks.  Every error starts the loop again too.                    *)
(*                                                                         *)
(* A loop goes with its mutex: pop[p][s] is the rb_zk_queue_element whose  *)
(* queue_mutex is mutex[p][s].                                             *)
(***************************************************************************)
EXTENDS ZkMutex

CONSTANT MaxElements   \* BOUND on the elements ever pushed

ASSUME ElementsAssumption == MaxElements \in Nat

Elements == 1..MaxElements
NoElement == 0

VARIABLES
  pop,        \* the requests of the queue elements, by mutex
  late,       \* completions with an error that come after the session event
  staleChild, \* a watch of the queue outlived its queue element
  elements,   \* ZooKeeper: the children of the queue's path
  nextElement,\* ZooKeeper: the next sequence number there
  delivered,  \* history: times an element was put in a pop_sensors_list
  cut         \* history: times a pop was cut between that and the deletion

clientVars == <<pop, late, staleChild>>
serverVars == <<elements, nextElement>>
queueHistory == <<delivered, cut>>
queueVars == <<clientVars, serverVars, queueHistory>>
allVars == <<vars, queueVars>>

\* A pop is "listing" and "listed" (zoo_aget_children), "rechecking" and
\* "rechecked" (zoo_awget_children), "waiting" for the watch, "getting" and
\* "got" (zoo_aget), "deleting" and "deleted" (zoo_adelete), or "idle".
\* Its watch is "set" or "fired", for a change of the queue after it was set.
Idle == [st |-> "idle", elem |-> NoElement, watch |-> "no"]
InFlight == {"listing", "listed", "rechecking", "rechecked", "getting", "got",
             "deleting", "deleted"}

QueueInit ==
  /\ Init
  /\ pop = [p \in Procs |-> [s \in Slots |-> Idle]]
  /\ late = [p \in Procs |-> 0]
  /\ staleChild = [p \in Procs |-> "no"]
  /\ elements = {}
  /\ nextElement = 1
  /\ delivered = [e \in Elements |-> 0]
  /\ cut = [e \in Elements |-> 0]

\* Mutation: the last string instead of the first.
Highest == IF elements = {} THEN NoElement ELSE Max(elements)

\* min_str: what a request of the pop finds in the queue.
Lowest == IF elements = {} THEN NoElement ELSE Min(elements)

SetPop(p, s, q) == pop' = [pop EXCEPT ![p][s] = q]

PopGoto(p, s, from, to) ==
  pop[p][s].st = from /\ SetPop(p, s, [pop[p][s] EXCEPT !.st = to])

\* ZooKeeper changes the queue: the watches fire, those left behind too.
Fired(watch) == IF watch = "set" THEN "fired" ELSE watch
WatchesFire(pops) ==
  /\ pop' = [p \in Procs |-> [s \in Slots |->
               [pops[p][s] EXCEPT !.watch = Fired(@)]]]
  /\ staleChild' = [p \in Procs |-> Fired(staleChild[p])]

\* The queue elements that had these watches are freed.  An event that fired
\* before a reply was delivered before it.
Outlives(p, watches) ==
  staleChild' = [staleChild EXCEPT
    ![p] = CASE "fired" \in watches -> "fired"
             [] "set" \in watches /\ "fired" \notin watches -> "set"
             [] OTHER -> @]

\* A step that sends, receives or runs for the pop only.
PopOnly == UNCHANGED <<vars, late, staleChild, serverVars, queueHistory>>

\* Elements of p that were handed over and not deleted: the pop is cut.
Cut(p) ==
  cut' = [e \in Elements |->
            IF \E s \in Slots : pop[p][s].st = "deleting" /\ pop[p][s].elem = e
            THEN cut[e] + 1 ELSE cut[e]]

-----------------------------------------------------------------------------
(* One pop.                                                                *)

\* rb_zk_queue_mutex_status_change, rb_zk_queue_pop_nolock
PopNolock(p, s) ==
  /\ Obtained(p, s)
  /\ SetPop(p, s, [Idle EXCEPT !.st = "listing"])
  /\ UNCHANGED <<late, staleChild, serverVars, queueHistory>>

\* ZooKeeper lists the queue.
ListQueue(p, s) ==
  /\ conn[p] = "up"
  /\ pop[p][s].st = "listing"
  /\ SetPop(p, s, [Idle EXCEPT !.st = "listed", !.elem = Lowest])
  /\ PopOnly

\* rb_zk_queue_pop_minimum0: zoo_aget of the lowest element, or, the first
\* time without any, zoo_awget_children, or, the second time, nothing.
PopMinimum(p, s) ==
  /\ Delivering(p)
  /\ \/ pop[p][s].elem # NoElement /\ PopGoto(p, s, "listed", "getting")
     \/ pop[p][s].elem # NoElement /\ PopGoto(p, s, "rechecked", "getting")
     \/ pop[p][s].elem = NoElement /\ PopGoto(p, s, "listed", "rechecking")
     \/ pop[p][s].elem = NoElement /\ PopGoto(p, s, "rechecked", "waiting")
  /\ PopOnly

\* Mutation: the second listing is only there for the watch.
WatchOnly(p, s) ==
  /\ conn[p] = "up"
  /\ pop[p][s].st = "rechecking"
  /\ SetPop(p, s, [Idle EXCEPT !.st = "rechecked", !.watch = "set"])
  /\ PopOnly

\* ZooKeeper lists the queue again and sets a watch.
ListQueueAndWatch(p, s) ==
  /\ conn[p] = "up"
  /\ pop[p][s].st = "rechecking"
  /\ SetPop(p, s, [st |-> "rechecked", elem |-> Lowest, watch |-> "set"])
  /\ PopOnly

\* rb_zk_queue_child_watcher; should_ignore_watcher is set when the second
\* listing found an element.
ChildWatcher(p, s) ==
  /\ conn[p] = "up"
  /\ pop[p][s].st = "waiting" /\ pop[p][s].watch = "fired"
  /\ SetPop(p, s, [Idle EXCEPT !.st = "listing"])
  /\ PopOnly

\* ZooKeeper reads the element; nobody but the holder of the mutex deletes it.
GetElement(p, s) ==
  /\ conn[p] = "up"
  /\ pop[p][s].elem \in elements
  /\ PopGoto(p, s, "getting", "got")
  /\ PopOnly

\* Mutation: the element is handed over when its deletion is confirmed.
DeliverNothing(p, s) ==
  /\ Delivering(p)
  /\ PopGoto(p, s, "got", "deleting")
  /\ PopOnly

\* rb_zk_pop_data_cb
HandOver(e) == delivered' = [delivered EXCEPT ![e] = @ + 1]

\* rb_zk_queue_get_element: data_cb, then zoo_adelete
QueueGetElement(p, s) ==
  /\ Delivering(p)
  /\ PopGoto(p, s, "got", "deleting")
  /\ HandOver(pop[p][s].elem)
  /\ UNCHANGED <<vars, late, staleChild, serverVars, cut>>

\* ZooKeeper deletes the element.
DeleteElement(p, s) ==
  /\ conn[p] = "up"
  /\ pop[p][s].st = "deleting"
  /\ elements' = elements \ {pop[p][s].elem}
  /\ WatchesFire([pop EXCEPT ![p][s].st = "deleted"])
  /\ UNCHANGED <<vars, late, nextElement, queueHistory>>

\* Mutation: the mutex is unlocked when the deletion is asked for.
QueueUnlockEarly(p, s) ==
  /\ MutexUnlock(p, s)
  /\ pop[p][s].st \in {"deleting", "deleted"}
  /\ UNCHANGED queueVars

\* rb_zk_queue_delete_completed: delete_cb starts the loop again, the mutex is
\* unlocked and the queue element is freed.
QueueDeleteCompleted(p, s) ==
  /\ MutexUnlock(p, s)
  /\ pop[p][s].st = "deleted"
  /\ SetPop(p, s, Idle)
  /\ Outlives(p, {pop[p][s].watch} \ {"fired"})
  /\ UNCHANGED <<late, serverVars, queueHistory>>

\* rb_zk_queue_push, by the leader.
Push ==
  /\ nextElement <= MaxElements
  /\ elements' = elements \cup {nextElement}
  /\ nextElement' = nextElement + 1
  /\ WatchesFire(pop)
  /\ UNCHANGED <<vars, late, queueHistory>>

-----------------------------------------------------------------------------
(* Errors.                                                                 *)

\* error_cb: sensors_queue_poll_loop_start, with a new mutex.
LoopStart(p) ==
  /\ FreeSlots(p) # {}
  /\ mutex' = [mutex EXCEPT ![p][Min(FreeSlots(p))] = Mutex("pending")]

\* Mutation: the error is only logged.
PopFailsQuietly(p, s) ==
  /\ conn[p] = "up"
  /\ faults < MaxFaults
  /\ faults' = faults + 1
  /\ pop[p][s].st \in {"listing", "rechecking", "getting"}
  /\ SetPop(p, s, Idle)
  /\ UNCHANGED <<conn, mutex, stale, nodes, nextNode, granted, late,
                 staleChild, serverVars, queueHistory>>

\* A request of the pop is answered with an error: error_cb starts another
\* loop and the queue element is freed, while its mutex stays locked.
PopFails(p, s) ==
  /\ conn[p] = "up"
  /\ faults < MaxFaults
  /\ faults' = faults + 1
  /\ pop[p][s].st \in {"listing", "rechecking", "getting"}
  /\ LoopStart(p)
  /\ Outlives(p, {pop[p][s].watch} \ {"fired"})
  /\ SetPop(p, s, Idle)
  /\ UNCHANGED <<conn, stale, nodes, nextNode, granted, late, serverVars,
                 queueHistory>>

\* rb_zk_queue_delete_completed with an error: the element stays in the queue,
\* all the rest is as without.
DeleteFails(p, s) ==
  /\ conn[p] = "up"
  /\ faults < MaxFaults
  /\ faults' = faults + 1
  /\ PopGoto(p, s, "deleting", "deleted")
  /\ cut' = [cut EXCEPT ![pop[p][s].elem] = @ + 1]
  /\ UNCHANGED <<conn, mutex, stale, nodes, nextNode, granted, late,
                 staleChild, serverVars, delivered>>

\* The session event frees the queue elements with their mutexes; the requests
\* in flight are still to be completed, and the watches to fire.
QueueCleanMutex(p) ==
  /\ CleanMutex(p)
  /\ late' = [late EXCEPT
       ![p] = Cardinality({s \in Slots : pop[p][s].st \in InFlight})]
  /\ Outlives(p, {pop[p][s].watch : s \in Slots})
  /\ pop' = [pop EXCEPT ![p] = [s \in Slots |-> Idle]]
  /\ Cut(p)
  /\ UNCHANGED <<serverVars, delivered>>

\* The process dies.
QueueGone(p) ==
  /\ pop' = [pop EXCEPT ![p] = [s \in Slots |-> Idle]]
  /\ late' = [late EXCEPT ![p] = 0]
  /\ staleChild' = [staleChild EXCEPT ![p] = "no"]
  /\ Cut(p)
  /\ UNCHANGED <<serverVars, delivered>>

\* The completion of such a request, with a freed queue element: another loop
\* is started, or the process dies.
LateCompletion(p) ==
  /\ late[p] > 0
  /\ \/ /\ LoopStart(p)
        /\ late' = [late EXCEPT ![p] = @ - 1]
        /\ UNCHANGED <<conn, stale, nodes, pop, staleChild, serverVars,
                       queueHistory>>
     \/ Die(p) /\ QueueGone(p)
  /\ UNCHANGED <<nextNode, faults, granted>>

\* rb_zk_queue_child_watcher with a freed queue element: the event is ignored,
\* or the process dies.
StaleChildWatcher(p) ==
  /\ conn[p] = "up"
  /\ staleChild[p] = "fired"
  /\ \/ /\ staleChild' = [staleChild EXCEPT ![p] = "no"]
        /\ UNCHANGED <<conn, mutex, stale, nodes, pop, late, serverVars,
                       queueHistory>>
     \/ Die(p) /\ QueueGone(p)
  /\ UNCHANGED <<nextNode, faults, granted>>

\* What happens to the session or the process, with the queue elements.
QueueSession(p) ==
  \/ DoPendingLocks(p) /\ UNCHANGED queueVars
  \/ QueueCleanMutex(p)
  \/ late[p] = 0 /\ Reconnect(p) /\ UNCHANGED queueVars
  \/ Restart(p) /\ UNCHANGED queueVars
  \/ LateCompletion(p)

QueueFaults(p) ==
  \/ LoseConnection(p) /\ UNCHANGED queueVars
  \/ /\ SessionExpires(p)
     /\ staleChild' = [staleChild EXCEPT ![p] = "no"]
     /\ UNCHANGED <<pop, late, serverVars, queueHistory>>
  \/ Crash(p) /\ QueueGone(p)
  \/ DoubleFree(p) /\ QueueGone(p)
  \/ /\ StaleWatcher(p)
     /\ IF conn'[p] = "dead" THEN QueueGone(p) ELSE UNCHANGED queueVars
  \/ StaleChildWatcher(p)
  \/ (\E s \in Slots : Refused(p, s)) /\ UNCHANGED queueVars

-----------------------------------------------------------------------------
\* Locking the mutex and deleting its node, beside the pop.
Locking(p, s) ==
  /\ \/ CreateMutexNode(p, s) \/ CreateMutexNodeComplete(p, s)
     \/ GetChildren(p, s) \/ WatchPrevious(p, s) \/ PreviousGone(p, s)
     \/ PreviousLeaderWatcher(p, s)
     \/ DeleteMutexNode(p, s) \/ DeleteMutexCompleted(p, s)
  /\ UNCHANGED queueVars

Popping(p, s) ==
  \/ PopNolock(p, s) \/ ListQueue(p, s) \/ PopMinimum(p, s)
  \/ ListQueueAndWatch(p, s) \/ ChildWatcher(p, s) \/ GetElement(p, s)
  \/ QueueGetElement(p, s) \/ DeleteElement(p, s)
  \/ QueueDeleteCompleted(p, s)

\* What goes on without a fault and without another sensor.
Progress ==
  \/ \E p \in Procs :
       \/ \E s \in Slots : Locking(p, s) \/ Popping(p, s)
       \/ QueueSession(p)
  \/ LeftoverExpires /\ UNCHANGED queueVars

QueueNext ==
  \/ Progress
  \/ \E p \in Procs :
       \/ \E s \in Slots : PopFails(p, s) \/ DeleteFails(p, s)
       \/ QueueFaults(p)
  \/ Push

QueueSpec == QueueInit /\ [][QueueNext]_allVars

-----------------------------------------------------------------------------
(* Properties.                                                             *)

Watches == {"no", "set", "fired"}
Pops == [st : InFlight \cup {"idle", "waiting"},
         elem : Elements \cup {NoElement}, watch : Watches]

\* Only the mutex that is obtained pops, so at most one element is in hand.
QueueTypeOK ==
  /\ TypeOK
  /\ pop \in [Procs -> [Slots -> Pops]]
  /\ \A p \in Procs, s \in Slots :
       pop[p][s].st # "idle" => mutex[p][s].st = "first"
  /\ late \in [Procs -> 0..MaxMutexes]
  /\ staleChild \in [Procs -> Watches]
  /\ elements \subseteq Elements
  /\ nextElement \in 1..(MaxElements + 1)
  /\ delivered \in [Elements -> Nat]
  /\ cut \in [Elements -> Nat]

Pushed == 1..(nextElement - 1)

\* No element is lost on its way, whatever fails and whoever dies: it is in the
\* queue until the list of some instance has it (rb_zk.c:694-703).
NoElementLost == \A e \in Pushed : e \in elements \/ delivered[e] > 0

\* Elements are handed over in the order they were pushed, by all the
\* instances together (rb_zk.c:645-661).
DeliveredInOrder ==
  \A e, f \in Pushed : e < f /\ delivered[f] > 0 => delivered[e] > 0

\* A sensor is handed over twice only if a pop was cut between handing it over
\* and deleting it (rb_zk.c:694-703).
DuplicatesExplained == \A e \in Elements : delivered[e] <= 1 + cut[e]

\* The parts of the inductive invariant.

\* An element that a pop has found stays the lowest of the queue until the pop
\* deletes it.
ElementInHand ==
  \A p \in Procs, s \in Slots :
    LET q == pop[p][s] IN
    /\ q.st \in {"getting", "got", "deleting", "deleted"} => q.elem # NoElement
    /\ q.elem # NoElement /\ q.st \in InFlight \ {"deleted"} =>
         q.elem \in elements /\ \A f \in elements : q.elem <= f
    /\ q.st = "deleting" => delivered[q.elem] > 0

OnlyPushed ==
  /\ elements \subseteq Pushed
  /\ \A e \in Elements \ Pushed : delivered[e] = 0

\* What is in the queue, and in no hand, was handed over at most once for every
\* cut.
CutsCounted ==
  \A e \in elements :
    \/ delivered[e] <= cut[e]
    \/ \E p \in Procs, s \in Slots :
         pop[p][s].st = "deleting" /\ pop[p][s].elem = e

\* What makes the queue safe: the mutex lets one pop work at a time, and an
\* element is deleted by the pop that has handed it over (rb_zk.c:645-713).
QueueInv ==
  /\ MutexInv
  /\ QueueTypeOK
  /\ ElementInHand
  /\ OnlyPushed
  /\ NoElementLost
  /\ DeliveredInOrder
  /\ DuplicatesExplained
  /\ CutsCounted

\* The loops of an instance that go on: mutexes that are on their way to be
\* obtained, or that are obtained and have a pop.
Loops(p) ==
  {s \in Slots :
     \/ mutex[p][s].st \in {"pending", "creating", "created", "listing",
                            "listed", "watching"}
     \/ mutex[p][s].st = "first" /\ pop[p][s].st # "idle"}

\* One path through the callbacks loses the loop of an instance that runs, the
\* error answer to the mutex's listing (rb_zk.c:314-318), and it leaves that
\* mutex stranded; no other does, whatever else fails, and without a fault none
\* loses it or starts a second one (rb_monitor_zk.c:217-230,281-305).
PollLoopAlive ==
  \A p \in Procs : conn[p] # "dead" =>
    /\ Loops(p) # {} \/ Stranded(p) # {}
    /\ faults = 0 => Cardinality(Loops(p)) = 1

\* The loops of an instance, those included that were lost on that path.
Begun(p) == Loops(p) \cup Stranded(p)

\* The parts of the inductive invariant of the loops: only a fault ends a
\* connection, leaves late completions or loses a loop, and a process that is
\* gone has neither those nor a loop.
NoTraceOfFaults ==
  \A p \in Procs :
    /\ faults = 0 => conn[p] # "lost" /\ late[p] = 0
    /\ conn[p] = "dead" => late[p] = 0

StrandedByFault == faults = 0 => \A p \in Procs : Stranded(p) = {}

LoopsCounted ==
  \A p \in Procs :
    /\ conn[p] = "dead" => Begun(p) = {}
    /\ conn[p] # "dead" =>
         \E s \in Begun(p) : faults = 0 => Begun(p) = {s}

\* A pop that waits for the queue to change, or is about to, has found it empty
\* and is told of the first element to come.
SleepersAreTold ==
  \A p \in Procs, s \in Slots :
    LET q == pop[p][s] IN
    /\ q.st = "waiting" => q.elem = NoElement
    /\ q.st \in {"rechecked", "waiting"} /\ q.elem = NoElement =>
         \/ q.watch = "fired"
         \/ q.watch = "set" /\ elements = {}

\* What keeps the elements coming: every instance goes on popping unless its
\* loop was lost by the error answer to a listing, and no pop sleeps through an
\* element (rb_zk.c:753-817, rb_monitor_zk.c:217-305).
LoopInv ==
  /\ QueueInv
  /\ NoTraceOfFaults
  /\ StrandedByFault
  /\ LoopsCounted
  /\ SleepersAreTold

\* The mutexes that an error of their pop left obtained, with nobody to unlock
\* them.
Abandoned ==
  {x \in Procs \X Slots :
     mutex[x[1]][x[2]].st = "first" /\ pop[x[1]][x[2]].st = "idle"}

\* Nor is there anything of a pop, or of one that was freed, on its way.
AtRest ==
  /\ MutexAtRest
  /\ \A p \in Procs : late[p] = 0
  /\ \A p \in Procs, s \in Slots :
       LET q == pop[p][s] IN
       \/ q.st = "idle"
       \/ q.st = "waiting" /\ q.watch # "fired"

\* No request is left without its answer and no event without its callback,
\* however they interleave with the faults: where nothing goes on, nothing is
\* on its way, but for the bounds on nodes and mutexes.
NothingStuck ==
  ~ENABLED Progress =>
    \/ AtRest
    \/ \E p \in Procs, s \in Slots :
         \/ nextNode > MaxNodes /\ mutex[p][s].st = "creating"
         \/ FreeSlots(p) = {} /\ pop[p][s].st = "deleted"

\* The system never comes to rest with a sensor in the queue, however requests,
\* watches and faults interleave, unless a node is kept alive whose mutex was
\* freed, stranded or abandoned.
AtRestQueueEmpty == AtRest /\ elements # {} => Orphans # {} \/ Abandoned # {}

\* The element that was handed over and is still to be deleted.
InHand ==
  {pop[x[1]][x[2]].elem :
     x \in {y \in Procs \X Slots : pop[y[1]][y[2]].st = "deleting"}}

\* The pops of all the instances, under their mutex, are the queue that ZkFifo
\* specifies: every step of an instance, of ZooKeeper or of a fault is a step of
\* it or none (rb_zk.c:630-817,861-884).
Fifo == INSTANCE ZkFifo
          WITH queue <- elements, last <- nextElement - 1, hand <- InHand

ImplementsFifo == Fifo!Spec

=============================================================================
