------------------------------- MODULE ZkMutex --------------------------------
(***************************************************************************)
(* The ZooKeeper mutex of rb_zk.c, on one path: every instance creates an  *)
(* ephemeral sequence node, lists the nodes, and either obtains the mutex  *)
(* or watches the node before its own.  The leader of the sensors          *)
(* (rb_monitor_zk.c) keeps it for ever; the pop of the sensors queue       *)
(* releases it and locks again.  Both lock again when their mutex fails.   *)
(*                                                                         *)
(* ZooKeeper itself and its C client are external: nodes with growing      *)
(* numbers, sessions, watches that survive a reconnection, and events and  *)
(* completions that one thread delivers in order.                          *)
(***************************************************************************)
EXTENDS Integers, FiniteSets, FiniteSetsExt

CONSTANTS
  Procs,        \* the instances of rb_monitor
  Releases,     \* TRUE: the mutex of the queue; FALSE: of the leader
  MaxMutexes,   \* BOUND on the mutexes of an instance alive at a time
  MaxNodes,     \* BOUND on the nodes ever created
  MaxFaults     \* BOUND on crashes, lost connections and failing requests

ASSUME ProcsAssumption == Procs # {}
ASSUME ReleasesAssumption == Releases \in BOOLEAN
ASSUME BoundsAssumption ==
  MaxMutexes \in Nat \ {0} /\ MaxNodes \in Nat /\ MaxFaults \in Nat

Slots == 1..MaxMutexes

\* NoNode is the path before the node is created, and the absence of a
\* previous node.
NoNode == 0

VARIABLES
  conn,     \* zoo_state: "up", "lost" (and zk_watcher not told yet), "down",
            \*   or "dead" when the process is not there
  mutex,    \* the rb_zk_mutex structures of an instance
  stale,    \* nodes whose watch outlived its mutex
  nodes,    \* ZooKeeper: the children of the path
  nextNode, \* ZooKeeper: the next sequence number
  faults,
  granted   \* history: the last node that obtained the mutex by its turn

vars == <<conn, mutex, stale, nodes, nextNode, faults, granted>>

\* A mutex is "pending" (list pending_leaders), "creating" and "created"
\* (zoo_acreate), "listing" and "listed" (zoo_aget_children), "watching",
\* "first", "deleting" and "deleted" (zoo_adelete), or not allocated: "free".
\* The second state of each pair is the reply on its way.  It is "stranded" when
\* its listing was answered with an error and no callback will touch it.
Mutex(st) == [st |-> st, node |-> NoNode, prev |-> NoNode, obtained |-> FALSE]

Init ==
  /\ conn = [p \in Procs |-> "down"]
  /\ mutex = [p \in Procs |-> [s \in Slots |->
                Mutex(IF s = 1 THEN "pending" ELSE "free")]]
  /\ stale = [p \in Procs |-> {}]
  /\ nodes = {}
  /\ nextNode = 1
  /\ faults = 0
  /\ granted = NoNode

Numbers == {n.seq : n \in nodes}

\* The replies on their way are delivered before the session event that
\* follows them.
Delivering(p) == conn[p] \in {"up", "lost"}

Set(p, s, m) == mutex' = [mutex EXCEPT ![p][s] = m]

-----------------------------------------------------------------------------
(* Obtaining the mutex.                                                    *)

\* zk_watcher_do_pending_locks and rb_zk_mutex_lock0
DoPendingLocks(p) ==
  /\ conn[p] = "up"
  /\ \E s \in Slots : mutex[p][s].st = "pending"
  /\ mutex' = [mutex EXCEPT ![p] = [s \in Slots |->
                 IF @[s].st = "pending" THEN [@[s] EXCEPT !.st = "creating"]
                 ELSE @[s]]]
  /\ UNCHANGED <<conn, stale, nodes, nextNode, faults, granted>>

\* ZooKeeper creates the node.
CreateMutexNode(p, s) ==
  /\ conn[p] = "up"
  /\ mutex[p][s].st = "creating"
  /\ nextNode <= MaxNodes
  /\ Set(p, s, [mutex[p][s] EXCEPT !.st = "created", !.node = nextNode])
  /\ nodes' = nodes \cup {[seq |-> nextNode, owner |-> p, live |-> TRUE]}
  /\ nextNode' = nextNode + 1
  /\ UNCHANGED <<conn, stale, faults, granted>>

\* create_mutex_node_complete
CreateMutexNodeComplete(p, s) ==
  /\ Delivering(p)
  /\ mutex[p][s].st = "created"
  /\ Set(p, s, [mutex[p][s] EXCEPT !.st = "listing"])
  /\ UNCHANGED <<conn, stale, nodes, nextNode, faults, granted>>

\* Mutation: <= for <, so that a mutex may find its own node.
NodeUpToOwn(node) ==
  LET before == {n \in Numbers : n <= node}
  IN  IF before = {} THEN NoNode ELSE Max(before)

\* leader_previous_string
PreviousNode(node) ==
  LET before == {n \in Numbers : n < node}
  IN  IF before = {} THEN NoNode ELSE Max(before)

\* ZooKeeper lists the children.
GetChildren(p, s) ==
  /\ conn[p] = "up"
  /\ mutex[p][s].st = "listing"
  /\ Set(p, s, [mutex[p][s] EXCEPT
                  !.st = "listed", !.prev = PreviousNode(mutex[p][s].node)])
  /\ UNCHANGED <<conn, stale, nodes, nextNode, faults, granted>>

\* Mutation: the watch is not followed by another listing.
ObtainedUnchecked(p, s) ==
  /\ Delivering(p)
  /\ \/ mutex[p][s].st = "listed" /\ mutex[p][s].prev = NoNode
     \/ mutex[p][s].st = "watching" /\ mutex[p][s].prev \notin Numbers
  /\ Set(p, s, [mutex[p][s] EXCEPT !.st = "first", !.obtained = TRUE])
  /\ granted' = mutex[p][s].node
  /\ UNCHANGED <<conn, stale, nodes, nextNode, faults>>

\* leader_get_children_complete: "I'm the lower node -> I'm the leader here"
Obtained(p, s) ==
  /\ Delivering(p)
  /\ mutex[p][s].st = "listed" /\ mutex[p][s].prev = NoNode
  /\ Set(p, s, [mutex[p][s] EXCEPT !.st = "first", !.obtained = TRUE])
  /\ granted' = mutex[p][s].node
  /\ UNCHANGED <<conn, stale, nodes, nextNode, faults>>

\* leader_get_children_complete: zoo_wexists finds the previous node.
WatchPrevious(p, s) ==
  /\ conn[p] = "up"
  /\ mutex[p][s].st = "listed" /\ mutex[p][s].prev \in Numbers
  /\ Set(p, s, [mutex[p][s] EXCEPT !.st = "watching"])
  /\ UNCHANGED <<conn, stale, nodes, nextNode, faults, granted>>

\* Mutation: the mutex that is locked again keeps the path of its old node.
PreviousGoneKeepsPath(p, s) ==
  /\ Delivering(p)
  /\ mutex[p][s].st = "listed" /\ mutex[p][s].prev # NoNode
  /\ conn[p] = "lost" \/ mutex[p][s].prev \notin Numbers
  /\ Set(p, s, [mutex[p][s] EXCEPT !.st = "pending", !.prev = NoNode])
  /\ UNCHANGED <<conn, stale, nodes, nextNode, faults, granted>>

\* Mutation: only the lost connection counts as an error.
PreviousGoneUnconnected(p, s) ==
  /\ conn[p] = "lost"
  /\ mutex[p][s].st = "listed" /\ mutex[p][s].prev # NoNode
  /\ Set(p, s, Mutex("pending"))
  /\ UNCHANGED <<conn, stale, nodes, nextNode, faults, granted>>

\* leader_get_children_complete: zoo_wexists fails.  rb_zk_mutex_error_done
\* frees the mutex, not its node, and error_cb locks again.
PreviousGone(p, s) ==
  /\ Delivering(p)
  /\ mutex[p][s].st = "listed" /\ mutex[p][s].prev # NoNode
  /\ conn[p] = "lost" \/ mutex[p][s].prev \notin Numbers
  /\ Set(p, s, Mutex("pending"))
  /\ UNCHANGED <<conn, stale, nodes, nextNode, faults, granted>>

\* Mutation: the event is taken for granted and nothing is listed.
PreviousLeaderWatcherIdle(p, s) ==
  /\ conn[p] = "up"
  /\ mutex[p][s].st = "watching" /\ mutex[p][s].prev \notin Numbers
  /\ UNCHANGED vars

\* previous_leader_watcher
PreviousLeaderWatcher(p, s) ==
  /\ conn[p] = "up"
  /\ mutex[p][s].st = "watching" /\ mutex[p][s].prev \notin Numbers
  /\ Set(p, s, [mutex[p][s] EXCEPT !.st = "listing", !.prev = NoNode])
  /\ UNCHANGED <<conn, stale, nodes, nextNode, faults, granted>>

-----------------------------------------------------------------------------
(* Releasing it, as rb_zk_queue_delete_completed does: delete_cb locks     *)
(* again first.                                                            *)

FreeSlots(p) == {s \in Slots : mutex[p][s].st = "free"}

\* rb_zk_mutex_unlock: the node is deleted, or, without connection, the mutex
\* is only freed: "mutex already unlocked, since locks are ephimerals".
MutexUnlock(p, s) ==
  /\ Releases
  /\ Delivering(p)
  /\ mutex[p][s].obtained /\ mutex[p][s].st = "first"
  /\ FreeSlots(p) # {}
  /\ mutex' = [mutex EXCEPT
       ![p][Min(FreeSlots(p))] = Mutex("pending"),
       ![p][s] = IF conn[p] = "up" THEN [@ EXCEPT !.st = "deleting"]
                 ELSE Mutex("free")]
  /\ UNCHANGED <<conn, stale, nodes, nextNode, faults, granted>>

\* ZooKeeper deletes the node.
DeleteMutexNode(p, s) ==
  /\ conn[p] = "up"
  /\ mutex[p][s].st = "deleting"
  /\ nodes' = {n \in nodes : n.seq # mutex[p][s].node}
  /\ Set(p, s, [mutex[p][s] EXCEPT !.st = "deleted"])
  /\ UNCHANGED <<conn, stale, nextNode, faults, granted>>

\* delete_mutex_completed
DeleteMutexCompleted(p, s) ==
  /\ Delivering(p)
  /\ mutex[p][s].st = "deleted"
  /\ Set(p, s, Mutex("free"))
  /\ UNCHANGED <<conn, stale, nodes, nextNode, faults, granted>>

-----------------------------------------------------------------------------
(* Requests that are answered with an error on a connection that stands.   *)

RequestFails(p) ==
  /\ conn[p] = "up"
  /\ faults < MaxFaults
  /\ faults' = faults + 1
  /\ UNCHANGED <<conn, stale, nodes, nextNode, granted>>

\* create_mutex_node_complete with an error: rb_zk_mutex_error_done frees the
\* mutex and error_cb locks again.
CreateFails(p, s) ==
  /\ mutex[p][s].st = "creating"
  /\ Set(p, s, Mutex("pending"))
  /\ RequestFails(p)

\* leader_get_children_complete with an error: it only logs.  The mutex stays in
\* leaders_nodes_list with its node, and error_cb is not called.
ListFails(p, s) ==
  /\ mutex[p][s].st = "listing"
  /\ Set(p, s, [mutex[p][s] EXCEPT !.st = "stranded"])
  /\ RequestFails(p)

\* leader_get_children_complete: zoo_wexists fails for another reason than that
\* the previous node is gone; the same is done.
WatchFails(p, s) ==
  /\ mutex[p][s].st = "listed" /\ mutex[p][s].prev # NoNode
  /\ Set(p, s, Mutex("pending"))
  /\ RequestFails(p)

\* delete_mutex_completed does not look at the error: the node stays.
DeleteMutexFails(p, s) ==
  /\ mutex[p][s].st = "deleting"
  /\ Set(p, s, [mutex[p][s] EXCEPT !.st = "deleted"])
  /\ RequestFails(p)

-----------------------------------------------------------------------------
(* Connections, sessions and crashes.                                      *)

LoseConnection(p) ==
  /\ conn[p] = "up"
  /\ faults < MaxFaults
  /\ faults' = faults + 1
  /\ conn' = [conn EXCEPT ![p] = "lost"]
  /\ UNCHANGED <<mutex, stale, nodes, nextNode, granted>>

\* Mutation: the leader stays leader while it is disconnected.
CleanMutexNotFirst(p) ==
  /\ conn[p] = "lost"
  /\ conn' = [conn EXCEPT ![p] = "down"]
  /\ mutex' = [mutex EXCEPT ![p] = [s \in Slots |->
                 IF @[s].st \in {"free", "pending", "first"} THEN @[s]
                 ELSE Mutex("pending")]]
  /\ UNCHANGED <<stale, nodes, nextNode, faults, granted>>

\* zk_watcher and zk_watcher_clean_mutex: every mutex that is not pending is
\* told, freed and, by its error_cb, locked again.
CleanMutex(p) ==
  /\ conn[p] = "lost"
  /\ conn' = [conn EXCEPT ![p] = "down"]
  /\ mutex' = [mutex EXCEPT ![p] = [s \in Slots |->
                 IF @[s].st \in {"free", "pending"} THEN @[s]
                 ELSE Mutex("pending")]]
  /\ stale' = [stale EXCEPT ![p] = @ \cup
                 {mutex[p][s].prev
                    : s \in {s \in Slots : mutex[p][s].st = "watching"}}]
  /\ UNCHANGED <<nodes, nextNode, faults, granted>>

Reconnect(p) ==
  /\ conn[p] = "down"
  /\ conn' = [conn EXCEPT ![p] = "up"]
  /\ UNCHANGED <<mutex, stale, nodes, nextNode, faults, granted>>

\* The session expires at ZooKeeper, and reset_zk_context opens another.
\* The client learns of the lost connection before its session times out.
\* The new handle has none of the old one's watches.
SessionExpires(p) ==
  /\ conn[p] = "down"
  /\ \E n \in nodes : n.live /\ n.owner = p
  /\ nodes' = {n \in nodes : ~(n.live /\ n.owner = p)}
  /\ stale' = [stale EXCEPT ![p] = {}]
  /\ UNCHANGED <<conn, mutex, nextNode, faults, granted>>

\* The process is gone; its session lasts until it times out.
Die(p) ==
  /\ conn' = [conn EXCEPT ![p] = "dead"]
  /\ mutex' = [mutex EXCEPT ![p] = [s \in Slots |-> Mutex("free")]]
  /\ stale' = [stale EXCEPT ![p] = {}]
  /\ nodes' = {IF n.owner = p THEN [n EXCEPT !.live = FALSE] ELSE n
                 : n \in nodes}

Crash(p) ==
  /\ conn[p] # "dead"
  /\ faults < MaxFaults
  /\ faults' = faults + 1
  /\ Die(p)
  /\ UNCHANGED <<nextNode, granted>>

Restart(p) ==
  /\ conn[p] = "dead"
  /\ conn' = [conn EXCEPT ![p] = "down"]
  /\ Set(p, 1, Mutex("pending"))
  /\ UNCHANGED <<stale, nodes, nextNode, faults, granted>>

\* The session of a process that is gone times out.
LeftoverExpires ==
  /\ \E n \in nodes : ~n.live
  /\ nodes' = {n \in nodes : n.live}
  /\ UNCHANGED <<conn, mutex, stale, nextNode, faults, granted>>

-----------------------------------------------------------------------------
(* Callbacks that run on a freed mutex.                                    *)

\* The completions of the requests in flight come after the session event;
\* those of zoo_acreate and zoo_adelete free their mutex a second time.
DoubleFree(p) ==
  /\ conn[p] = "lost"
  /\ \E s \in Slots :
       mutex[p][s].st \in {"creating", "created", "deleting", "deleted"}
  /\ Die(p)
  /\ UNCHANGED <<nextNode, faults, granted>>

\* previous_leader_watcher with a freed mutex: the read goes unnoticed or
\* kills the process.
StaleWatcher(p) ==
  /\ conn[p] = "up"
  /\ \E n \in stale[p] :
       /\ n \notin Numbers
       /\ \/ /\ stale' = [stale EXCEPT ![p] = @ \ {n}]
             /\ UNCHANGED <<conn, mutex, nodes>>
          \/ Die(p)
  /\ UNCHANGED <<nextNode, faults, granted>>

-----------------------------------------------------------------------------
Ordinary(p, s) ==
  \/ CreateMutexNode(p, s) \/ CreateMutexNodeComplete(p, s)
  \/ GetChildren(p, s) \/ Obtained(p, s)
  \/ WatchPrevious(p, s) \/ PreviousGone(p, s) \/ PreviousLeaderWatcher(p, s)
  \/ MutexUnlock(p, s) \/ DeleteMutexNode(p, s) \/ DeleteMutexCompleted(p, s)

Refused(p, s) ==
  \/ CreateFails(p, s) \/ ListFails(p, s)
  \/ WatchFails(p, s) \/ DeleteMutexFails(p, s)

Session(p) ==
  DoPendingLocks(p) \/ CleanMutex(p) \/ Reconnect(p) \/ Restart(p)

Faults(p) ==
  \/ LoseConnection(p) \/ SessionExpires(p) \/ Crash(p)
  \/ DoubleFree(p) \/ StaleWatcher(p)
  \/ \E s \in Slots : Refused(p, s)

Next ==
  \/ \E p \in Procs :
       \/ \E s \in Slots : Ordinary(p, s)
       \/ Session(p)
       \/ Faults(p)
  \/ LeftoverExpires

Spec == Init /\ [][Next]_vars

\* The threads of the client and ZooKeeper go on; a client that has no
\* connection gets one again, a process that died is started again, and the
\* session of a process that is gone ends.
Fairness ==
  /\ \A p \in Procs :
       /\ WF_vars(Session(p))
       /\ \A s \in Slots : WF_vars(Ordinary(p, s))
  /\ WF_vars(LeftoverExpires)

FairSpec == Spec /\ Fairness

-----------------------------------------------------------------------------
(* Properties.                                                             *)

NoPath == {"free", "pending", "creating"}
Paths ==
  {"created", "listing", "listed", "watching", "first", "deleting", "deleted",
   "stranded"}
Mutexes == [st : NoPath \cup Paths, node : 0..MaxNodes, prev : 0..MaxNodes,
            obtained : BOOLEAN]

\* Whatever the order of replies and failures, a mutex has the path of its own
\* node exactly from the reply of zoo_acreate on (override_leader_node).
TypeOK ==
  /\ conn \in [Procs -> {"up", "lost", "down", "dead"}]
  /\ mutex \in [Procs -> [Slots -> Mutexes]]
  /\ \A p \in Procs, s \in Slots :
       mutex[p][s].node = NoNode <=> mutex[p][s].st \in NoPath
  /\ stale \in [Procs -> SUBSET (1..MaxNodes)]
  /\ nodes \subseteq [seq : 1..MaxNodes, owner : Procs, live : BOOLEAN]
  /\ nextNode \in 1..(MaxNodes + 1)
  /\ faults \in 0..MaxFaults
  /\ granted \in 0..MaxNodes

\* rb_zk_mutex_obtained, until the mutex is given to rb_zk_mutex_unlock.
Holds(p, s) ==
  mutex[p][s].obtained /\ mutex[p][s].st \notin {"deleting", "deleted"}

\* At most one mutex of all the instances is obtained, through lost
\* connections, expired sessions, crashes and restarts.
MutualExclusion ==
  \A p, q \in Procs : \A s, t \in Slots :
    (Holds(p, s) /\ Holds(q, t)) => (p = q /\ s = t)

\* No wake-up is lost: between the node a mutex watches, or is about to, and
\* its own there is no other, so the event it waits for is that of its turn.
WatchesItsTurn ==
  \A p \in Procs, s \in Slots :
    LET m == mutex[p][s] IN
    m.st \in {"listed", "watching"} =>
      ~\E n \in Numbers : m.prev < n /\ n < m.node

\* The parts of the inductive invariant.

\* The session event has ended every mutex that is not pending.
SessionEventSeen ==
  \A p \in Procs, s \in Slots :
    conn[p] \in {"down", "dead"} => mutex[p][s].st \in {"free", "pending"}

\* ZooKeeper keeps the node of a mutex until the mutex asks to delete it.
OwnNodeThere ==
  \A p \in Procs, s \in Slots :
    LET m == mutex[p][s] IN
    m.st \notin NoPath \cup {"deleted"} =>
      [seq |-> m.node, owner |-> p, live |-> TRUE] \in nodes

OneMutexPerNode ==
  \A p, q \in Procs : \A s, t \in Slots :
    mutex[p][s].node # NoNode /\ mutex[p][s].node = mutex[q][t].node =>
      p = q /\ s = t

\* Sequence numbers grow.
NumbersPast ==
  /\ \A n \in Numbers : n < nextNode
  /\ \A p \in Procs, s \in Slots : mutex[p][s].node < nextNode

HolderIsLowest ==
  \A p \in Procs, s \in Slots :
    LET m == mutex[p][s] IN
    /\ m.obtained <=> m.st \in {"first", "deleting", "deleted"}
    /\ m.st = "watching" => m.prev # NoNode
    /\ m.st = "first" => \A n \in Numbers : m.node <= n

GrantsPast ==
  /\ granted < nextNode
  /\ \A n \in Numbers : granted <= n
  /\ \A p \in Procs, s \in Slots :
       mutex[p][s].st \in {"created", "listing", "listed", "watching"} =>
         granted < mutex[p][s].node

\* A mutex watches a node before its own: no circle of mutexes waits.
WatchesBefore ==
  \A p \in Procs, s \in Slots :
    LET m == mutex[p][s] IN m.prev # NoNode => m.prev < m.node

\* What makes the mutex safe: the holder's node stays where it is, and no lower
\* number can appear (rb_zk.c:277-327,525-557).
MutexInv ==
  /\ TypeOK
  /\ SessionEventSeen
  /\ OwnNodeThere
  /\ OneMutexPerNode
  /\ NumbersPast
  /\ WatchesItsTurn
  /\ WatchesBefore
  /\ HolderIsLowest
  /\ GrantsPast

\* The mutex is obtained in the order in which the nodes were created,
\* whatever nodes vanish in between.
ObtainedInOrder == [][granted' # granted => granted' > granted]_vars

\* Mutexes of p that wait for nothing and hold nothing (rb_zk.c:314-318); only
\* the next session event ends them.
Stranded(p) == {s \in Slots : mutex[p][s].st = "stranded"}

\* Nodes of a session that lives that nobody will delete before it ends: their
\* mutex was freed or is stranded.
Orphans ==
  {n \in nodes :
     /\ n.live
     /\ \A s \in Slots \ Stranded(n.owner) : mutex[n.owner][s].node # n.seq}

HeldNodes ==
  {mutex[x[1]][x[2]].node : x \in {y \in Procs \X Slots : Holds(y[1], y[2])}}

\* The mutex implements the lock that ZkLock specifies: every step of an
\* instance, of ZooKeeper or of a fault is a step of the lock or none
\* (rb_zk.c:309-350,504-557).
Lock == INSTANCE ZkLock
          WITH waiting <- Numbers, last <- nextNode - 1, held <- HeldNodes

ImplementsLock == Lock!Spec

\* Every instance is connected, no request, reply or event of a mutex is on its
\* way, and no session is to end.  A stranded mutex expects none.
MutexAtRest ==
  /\ \A p \in Procs : conn[p] = "up"
  /\ \A p \in Procs, s \in Slots :
       LET m == mutex[p][s] IN
       \/ m.st \in {"free", "first", "stranded"}
       \/ m.st = "watching" /\ m.prev \in Numbers
  /\ \A n \in nodes : n.live

SomeoneHolds == \E p \in Procs, s \in Slots : Holds(p, s)

\* An instance that runs always has a mutex that it has not given up, be it a
\* stranded one.
KeepsLocking ==
  \A p \in Procs : conn[p] # "dead" =>
    \E s \in Slots : mutex[p][s].st \notin {"free", "deleting", "deleted"}

\* The instances never all wait for one another: where no request, reply or
\* event is left, one has the mutex, unless a node is kept alive whose mutex was
\* freed or stranded (rb_zk.c:257-356,525-557).
AtRestSomeoneHolds == MutexAtRest => SomeoneHolds \/ Orphans # {}

\* When the faults are over, some instance is the leader, unless an instance
\* goes on keeping a node alive whose mutex it freed or, its listing answered
\* with an error, stranded (rb_zk.c:309-356).
LeaderUnlessOrphaned == []<>(Orphans # {}) \/ []<>SomeoneHolds

\* rb_zk.h:170-172 of error_cb: "In this case, rb_zk_mutex will be deleted, and
\* you have to create it again."  So, without any fault, the mutex of the queue
\* is obtained again and again as long as nodes can be created.
LockedAgain == []<>SomeoneHolds \/ <>(nextNode > MaxNodes)

=============================================================================
