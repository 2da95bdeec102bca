------------------------------- MODULE ZkLeader ------------------------------
(***************************************************************************)
(* The leader of the sensors (rb_monitor_zk.c, "LIST PUSH" and "RB_MONITOR *)
(* ZOOKEEPER MASTER") over the mutex of ZkMutex, which it never releases.  *)
(* The ZooKeeper thread starts and stops a recurring timer as the mutex    *)
(* comes and goes; the timer puts calls on the worker thread, and a call   *)
(* pushes every sensor of the configuration to the queue, whatever has     *)
(* become of the mutex since.                                              *)
(*                                                                         *)
(* The timer and the queue of calls are librd's, external.                 *)
(***************************************************************************)
EXTENDS ZkMutex

CONSTANTS
  NPushed,   \* the length of push_sensors_list
  MaxCalls   \* BOUND on the calls that wait for the worker

ASSUME PushedAssumption == NPushed \in Nat \ {0}
ASSUME CallsAssumption == MaxCalls \in Nat \ {0}

Positions == 1..NPushed

VARIABLES
  timer,   \* the timer of an instance runs
  calls,   \* calls of rb_monitor_leader_push_sensors that wait for the worker
  position \* the element the call under way has come to, 0 without a call

worker == <<calls, position>>
leaderVars == <<vars, timer, worker>>

LeaderInit ==
  /\ Init
  /\ timer = [p \in Procs |-> FALSE]
  /\ calls = [p \in Procs |-> 0]
  /\ position = [p \in Procs |-> 0]

-----------------------------------------------------------------------------
(* The callbacks of the mutex.                                             *)

\* leader_lock_status_chage_cb, the mutex obtained
BecomeLeader(p, s) ==
  /\ Obtained(p, s)
  /\ timer' = [timer EXCEPT ![p] = TRUE]
  /\ UNCHANGED worker

\* Mutation: the status is only looked at when the mutex is obtained.
LoseLeadTimerOn(p) == CleanMutex(p) /\ UNCHANGED <<timer, worker>>

\* leader_lock_status_chage_cb of every mutex that is not pending, then
\* leader_lock_error_cb
LoseLead(p) ==
  /\ CleanMutex(p)
  /\ timer' = [timer EXCEPT
       ![p] = @ /\ \A s \in Slots : mutex[p][s].st \in {"free", "pending"}]
  /\ UNCHANGED worker

\* The process dies with its timer and its worker.
LeaderGone(p) ==
  /\ timer' = [timer EXCEPT ![p] = FALSE]
  /\ calls' = [calls EXCEPT ![p] = 0]
  /\ position' = [position EXCEPT ![p] = 0]

-----------------------------------------------------------------------------
(* The timer and the worker thread.                                        *)

\* Mutation: a timer that is not RD_TIMER_RECURR.
TimerFiresOnce(p) ==
  /\ timer[p]
  /\ calls[p] < MaxCalls
  /\ calls' = [calls EXCEPT ![p] = @ + 1]
  /\ timer' = [timer EXCEPT ![p] = FALSE]
  /\ UNCHANGED <<vars, position>>

\* RD_TIMER_RECURR
TimerFires(p) ==
  /\ timer[p]
  /\ calls[p] < MaxCalls
  /\ calls' = [calls EXCEPT ![p] = @ + 1]
  /\ UNCHANGED <<vars, timer, position>>

\* rb_monitor_leader_push_sensors, string_list_foreach_arg
PushSensors(p) ==
  /\ calls[p] > 0 /\ position[p] = 0
  /\ calls' = [calls EXCEPT ![p] = @ - 1]
  /\ position' = [position EXCEPT ![p] = 1]
  /\ UNCHANGED <<vars, timer>>

\* Mutation: the end of the list is missed.
AdvancePastEnd(p, k) ==
  /\ position[p] = k
  /\ position' = [position EXCEPT ![p] = k + 1]
  /\ UNCHANGED <<vars, timer, calls>>

\* TAILQ_FOREACH_SAFE of string_list_foreach_arg0
Advance(p, k) ==
  /\ position[p] = k
  /\ position' = [position EXCEPT ![p] = IF k = NPushed THEN 0 ELSE k + 1]
  /\ UNCHANGED <<vars, timer, calls>>

\* rb_monitor_push_sensor, rb_zk_queue_push: ZooKeeper creates the element.
PushArrives(p, k) == conn[p] = "up" /\ Advance(p, k)

\* Without connection the push is answered with an error, which
\* rb_monitor_leader_push_sensors_cb only logs, or waits in the client until
\* it has a connection, when the mutex may be another instance's.
PushUnconnected(p, k) == conn[p] \in {"lost", "down"} /\ Advance(p, k)

Working(p) ==
  \/ PushSensors(p)
  \/ \E k \in Positions : PushArrives(p, k) \/ PushUnconnected(p, k)

-----------------------------------------------------------------------------
\* What the election does that no callback of the leader sees.
Keeping(p) ==
  /\ \/ DoPendingLocks(p) \/ Reconnect(p) \/ Restart(p)
     \/ \E s \in Slots :
          \/ CreateMutexNode(p, s) \/ CreateMutexNodeComplete(p, s)
          \/ GetChildren(p, s) \/ WatchPrevious(p, s) \/ PreviousGone(p, s)
          \/ PreviousLeaderWatcher(p, s)
  /\ UNCHANGED <<timer, worker>>

Electing(p) ==
  Keeping(p) \/ LoseLead(p) \/ \E s \in Slots : BecomeLeader(p, s)

LeaderFaults(p) ==
  \/ (LoseConnection(p) \/ SessionExpires(p)) /\ UNCHANGED <<timer, worker>>
  \/ (Crash(p) \/ DoubleFree(p)) /\ LeaderGone(p)
  \/ /\ StaleWatcher(p)
     /\ IF conn'[p] = "dead" THEN LeaderGone(p) ELSE UNCHANGED <<timer, worker>>
  \/ (\E s \in Slots : Refused(p, s)) /\ UNCHANGED <<timer, worker>>

LeaderNext ==
  \/ \E p \in Procs :
       Electing(p) \/ TimerFires(p) \/ Working(p) \/ LeaderFaults(p)
  \/ LeftoverExpires /\ UNCHANGED <<timer, worker>>

LeaderSpec == LeaderInit /\ [][LeaderNext]_leaderVars

\* ZkMutex's fairness, and a timer that goes on firing and a worker thread that
\* goes on working.
LeaderFairness ==
  /\ \A p \in Procs :
       /\ WF_leaderVars(Electing(p))
       /\ WF_leaderVars(TimerFires(p))
       /\ WF_leaderVars(Working(p))
  /\ WF_leaderVars(LeftoverExpires /\ UNCHANGED <<timer, worker>>)

LeaderFairSpec == LeaderSpec /\ LeaderFairness

-----------------------------------------------------------------------------
(* Properties.                                                             *)

\* A process that is gone has neither timer nor calls.
LeaderTypeOK ==
  /\ TypeOK
  /\ timer \in [Procs -> BOOLEAN]
  /\ calls \in [Procs -> 0..MaxCalls]
  /\ position \in [Procs -> 0..NPushed]
  /\ \A p \in Procs :
       conn[p] = "dead" => ~timer[p] /\ calls[p] = 0 /\ position[p] = 0

\* At most one instance starts to push, through lost connections, expired
\* sessions, crashes and changes of leader: its timer runs exactly while it has
\* the mutex (rb_monitor_zk.c:355-362).
SinglePusher ==
  /\ \A p \in Procs : timer[p] <=> \E s \in Slots : Holds(p, s)
  /\ \A p, q \in Procs : timer[p] /\ timer[q] => p = q

\* When the faults are over, every sensor of the configuration goes on being
\* pushed, by whichever instance leads in the end, unless an instance keeps a
\* node alive whose mutex it freed or, its listing answered with an error,
\* stranded (rb_zk.c:314-318, rb_monitor_zk.c:333-338).
SensorsPushed ==
  \/ []<>(Orphans # {})
  \/ \A k \in Positions : []<><<\E p \in Procs : PushArrives(p, k)>>_leaderVars

=============================================================================
