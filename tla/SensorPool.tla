----------------------------- MODULE SensorPool -----------------------------
(***************************************************************************)
(* The polling engine of rb_monitor (src/src/main.c, rb_sensor.c and       *)
(* rb_sensor_queue.[ch]).  The main thread walks the array of configured   *)
(* sensors for ever, takes a reference to each and appends it to a FIFO.   *)
(* Worker threads pop sensors, try their lock, open an SNMP session from   *)
(* the one template they share, process their monitors one by one          *)
(* (producing messages to Kafka as they go), unlock and give the reference *)
(* back.  A signal clears `run'; the main thread then joins the workers,   *)
(* joins the Kafka poll thread, polls until no message is left, and        *)
(* destroys the Kafka handle.                                              *)
(*                                                                         *)
(* Threads are interleaved between any two accesses to the shared state:   *)
(* run, the queue, a reference counter, a sensor lock, the Kafka queue.    *)
(***************************************************************************)
EXTENDS Integers, Sequences, FiniteSets

CONSTANTS
  NSensors,   \* sensors_array->count: the sensors of the configuration
  NMonitors,  \* monitors of every sensor
  Workers,    \* the worker threads ("threads" in the configuration)
  NoWorker,   \* nobody holds the lock
  Addressed,  \* the sensors with an SNMP address and a community
  MaxQueue,   \* BOUND on the sensor queue, which the code does not bound
  MaxOutq     \* librdkafka's queue.buffering.max.messages

ASSUME CountsAssumption == NSensors \in Nat /\ NMonitors \in Nat
ASSUME WorkersAssumption == IsFiniteSet(Workers) /\ NoWorker \notin Workers
ASSUME AddressedAssumption == Addressed \subseteq 1..NSensors
ASSUME BoundsAssumption == MaxQueue \in Nat /\ MaxOutq \in Nat

Sensors == 1..NSensors
NoSensor == 0

VARIABLES
  run,      \* main.c: static int run
  mainPc,   \* where the main thread is
  next,     \* main.c: i of the loop over the sensors array
  queue,    \* worker_info.queue
  refcnt,   \* rb_sensor_t.refcnt
  alive,    \* the sensors sensor_done() has not freed
  lock,     \* rb_sensor_t.lock: its owner
  wpc,      \* where each worker is
  wsensor,  \* worker(): sensor
  wstep,    \* monitors of the sensor the worker has gone through
  snmpMutex,  \* worker_info.snmp_session_mutex: its owner
  peer,     \* worker_info.default_session.peername: whose address it is
  session,  \* process_monitors_array(): snmp_sessp, by the peer it talks to
  pollPc,   \* where the Kafka poll thread is
  pending,  \* messages librdkafka holds, not yet acknowledged or expired
  reports,  \* delivery reports librdkafka holds, not yet served by a poll
  sent,     \* history: last monitor that sent in the sensor's latest iteration
  late      \* history: sensors each worker began to process after the signal

mainVars == <<mainPc, next>>
workerVars == <<wpc, wsensor, wstep>>
snmpVars == <<snmpMutex, peer, session>>
kafkaVars == <<pending, reports>>
history == <<sent, late>>
vars == <<run, mainVars, queue, refcnt, alive, lock, workerVars, pollPc,
          snmpVars, kafkaVars, history>>

-----------------------------------------------------------------------------
(* References and who holds them.                                          *)

\* Positions of sensor s in the queue q: each holds one reference.
Occurrences(q, s) == {i \in 1..Len(q) : q[i] = s}

\* Workers whose local pointer holds a reference to s; one that stopped with
\* its pointer set has lost the reference.
Holders(s) == {w \in Workers : wsensor[w] = s}

\* The main thread is between rb_sensor_get and queue_sensor.
MainHolds(s) == mainPc = "add" /\ next = s

Outq == pending + reports  \* rd_kafka_outq_len

-----------------------------------------------------------------------------
Init ==
  /\ run = TRUE
  /\ mainPc = "loop"
  /\ next = 1
  /\ queue = <<>>
  /\ refcnt = [s \in Sensors |-> 1]
  /\ alive = Sensors
  /\ lock = [s \in Sensors |-> NoWorker]
  /\ wpc = [w \in Workers |-> "outer"]
  /\ wsensor = [w \in Workers |-> NoSensor]
  /\ wstep = [w \in Workers |-> 0]
  /\ snmpMutex = NoWorker
  /\ peer = NoSensor
  /\ session = [w \in Workers |-> NoSensor]
  /\ pollPc = "check"
  /\ pending = 0
  /\ reports = 0
  /\ sent = [s \in Sensors |-> 0]
  /\ late = [w \in Workers |-> 0]

-----------------------------------------------------------------------------
(* sigproc: SIGINT or SIGTERM; any later signal returns at once.           *)
Signal ==
  /\ run
  /\ run' = FALSE
  /\ UNCHANGED <<mainVars, queue, refcnt, alive, lock, workerVars, pollPc,
                 kafkaVars, history, snmpVars>>

-----------------------------------------------------------------------------
(* The main thread.                                                        *)

MainGoto(from, to) == mainPc = from /\ mainPc' = to

\* while (run): start a pass over the array, or leave.
MainLoop ==
  /\ MainGoto("loop", IF run THEN "for" ELSE "join")
  /\ next' = 1
  /\ UNCHANGED <<run, queue, refcnt, alive, lock, workerVars, pollPc,
                 kafkaVars, history, snmpVars>>

\* Mutation: the reference taken for the queue is forgotten.
MainGetNoReference ==
  /\ run
  /\ next \in Sensors
  /\ Len(queue) < MaxQueue
  /\ MainGoto("for", "add")
  /\ UNCHANGED <<run, next, queue, refcnt, alive, lock, workerVars, pollPc,
                 kafkaVars, history, snmpVars>>

\* i < count && run, then rb_sensor_get.  MaxQueue holds the main thread back.
MainGet ==
  /\ run
  /\ next \in Sensors
  /\ Len(queue) < MaxQueue
  /\ MainGoto("for", "add")
  /\ refcnt' = [refcnt EXCEPT ![next] = @ + 1]
  /\ UNCHANGED <<run, next, queue, alive, lock, workerVars, pollPc,
                 kafkaVars, history, snmpVars>>

\* Mutation: the index advances twice.
MainAddEverySecond ==
  /\ MainGoto("add", "for")
  /\ queue' = Append(queue, next)
  /\ next' = IF next + 2 \in Sensors THEN next + 2 ELSE NSensors + 1
  /\ UNCHANGED <<run, refcnt, alive, lock, workerVars, pollPc, kafkaVars,
                 history, snmpVars>>

\* queue_sensor, then the pause.
MainAdd ==
  /\ MainGoto("add", "for")
  /\ queue' = Append(queue, next)
  /\ next' = next + 1
  /\ UNCHANGED <<run, refcnt, alive, lock, workerVars, pollPc, kafkaVars,
                 history, snmpVars>>

\* The end of the pass, or of the program.
MainPassEnd ==
  /\ next \notin Sensors \/ ~run
  /\ MainGoto("for", "loop")
  /\ UNCHANGED <<run, next, queue, refcnt, alive, lock, workerVars, pollPc,
                 kafkaVars, history, snmpVars>>

\* Mutation: the workers are not waited for.
MainJoinNoWorker ==
  /\ MainGoto("join", "joinPoll")
  /\ UNCHANGED <<run, next, queue, refcnt, alive, lock, workerVars, pollPc,
                 kafkaVars, history, snmpVars>>

\* pthread_join of every worker, then rb_sensors_array_done.
MainJoinWorkers ==
  /\ \A w \in Workers : wpc[w] = "ended"
  /\ MainGoto("join", "joinPoll")
  /\ UNCHANGED <<run, next, queue, refcnt, alive, lock, workerVars, pollPc,
                 kafkaVars, history, snmpVars>>

\* pthread_join of the Kafka poll thread.
MainJoinPoll ==
  /\ pollPc = "ended"
  /\ MainGoto("joinPoll", "drain")
  /\ UNCHANGED <<run, next, queue, refcnt, alive, lock, workerVars, pollPc,
                 kafkaVars, history, snmpVars>>

\* Mutation: waiting without polling, so that no report is served.
MainDrainNoPoll == mainPc = "drain" /\ Outq > 0 /\ UNCHANGED vars

\* rd_kafka_outq_len is not 0: rd_kafka_poll serves the reports there are.
MainDrain ==
  /\ mainPc = "drain"
  /\ Outq > 0
  /\ reports' = 0
  /\ UNCHANGED <<run, mainVars, queue, refcnt, alive, lock, workerVars,
                 pollPc, pending, history, snmpVars>>

\* Mutation: leaving with messages in Kafka's queue.
MainExitNoDrain ==
  /\ MainGoto("drain", "done")
  /\ UNCHANGED <<run, next, queue, refcnt, alive, lock, workerVars, pollPc,
                 kafkaVars, history, snmpVars>>

\* rd_kafka_topic_destroy, rd_kafka_destroy and the return from main.
MainExit ==
  /\ Outq = 0
  /\ MainGoto("drain", "done")
  /\ UNCHANGED <<run, next, queue, refcnt, alive, lock, workerVars, pollPc,
                 kafkaVars, history, snmpVars>>

Main == MainLoop \/ MainGet \/ MainAdd \/ MainPassEnd \/ MainJoinWorkers
          \/ MainJoinPoll \/ MainDrain \/ MainExit

-----------------------------------------------------------------------------
(* The worker threads.                                                     *)

WorkerGoto(w, from, to) == wpc[w] = from /\ wpc' = [wpc EXCEPT ![w] = to]

\* while (run): a new round with no sensor at hand, or the end of the thread.
\* A thread that ends keeps in wsensor the reference it drops for good.
WorkerOuter(w) ==
  /\ WorkerGoto(w, "outer", IF run THEN "pop" ELSE "ended")
  /\ wsensor' = IF run THEN [wsensor EXCEPT ![w] = NoSensor] ELSE wsensor
  /\ UNCHANGED <<run, mainVars, queue, refcnt, alive, lock, wstep, pollPc,
                 kafkaVars, history, snmpVars>>

\* pop_sensor: the head of the queue ...
WorkerPop(w) ==
  /\ queue # <<>>
  /\ WorkerGoto(w, "pop", "popped")
  /\ wsensor' = [wsensor EXCEPT ![w] = Head(queue)]
  /\ queue' = Tail(queue)
  /\ UNCHANGED <<run, mainVars, refcnt, alive, lock, wstep, pollPc,
                 kafkaVars, history, snmpVars>>

\* ... or NULL after 100 ms without any.
WorkerPopTimeout(w) ==
  /\ queue = <<>>
  /\ WorkerGoto(w, "pop", "outer")
  /\ UNCHANGED <<run, mainVars, queue, refcnt, alive, lock, wsensor, wstep,
                 pollPc, kafkaVars, history, snmpVars>>

\* Mutation: run is not read again after the pop.
WorkerNoCheckRun(w) ==
  /\ WorkerGoto(w, "popped", "trylock")
  /\ UNCHANGED <<run, mainVars, queue, refcnt, alive, lock, wsensor, wstep,
                 pollPc, kafkaVars, history, snmpVars>>

\* ... && run: with run cleared the popped sensor is left as it is.
WorkerCheckRun(w) ==
  /\ WorkerGoto(w, "popped", IF run THEN "trylock" ELSE "outer")
  /\ UNCHANGED <<run, mainVars, queue, refcnt, alive, lock, wsensor, wstep,
                 pollPc, kafkaVars, history, snmpVars>>

\* Mutation: the result of trylock is not looked at.
WorkerLockAnyway(w) ==
  LET s == wsensor[w] IN
  /\ WorkerGoto(w, "trylock", "open")
  /\ lock' = [lock EXCEPT ![s] = w]
  /\ wstep' = [wstep EXCEPT ![w] = 0]
  /\ sent' = [sent EXCEPT ![s] = 0]
  /\ late' = IF run THEN late ELSE [late EXCEPT ![w] = @ + 1]
  /\ UNCHANGED <<run, mainVars, queue, refcnt, alive, wsensor, pollPc,
                 kafkaVars, snmpVars>>

\* rb_sensor_trylock succeeds: a new iteration over the sensor's monitors.
WorkerLock(w) ==
  LET s == wsensor[w] IN
  /\ WorkerGoto(w, "trylock", "open")
  /\ lock[s] = NoWorker
  /\ lock' = [lock EXCEPT ![s] = w]
  /\ wstep' = [wstep EXCEPT ![w] = 0]
  /\ sent' = [sent EXCEPT ![s] = 0]
  /\ late' = IF run THEN late ELSE [late EXCEPT ![w] = @ + 1]
  /\ UNCHANGED <<run, mainVars, queue, refcnt, alive, wsensor, pollPc,
                 kafkaVars, snmpVars>>

\* Mutation: the early return forgets rb_sensor_put.
WorkerSkipNoPut(w) ==
  /\ WorkerGoto(w, "trylock", "pop")
  /\ lock[wsensor[w]] # NoWorker
  /\ UNCHANGED <<run, mainVars, queue, refcnt, alive, lock, wsensor, wstep,
                 pollPc, kafkaVars, history, snmpVars>>

\* Mutation: the early return itself is forgotten.
WorkerSkipGoesOn(w) ==
  /\ WorkerGoto(w, "trylock", "open")
  /\ lock[wsensor[w]] # NoWorker
  /\ wstep' = [wstep EXCEPT ![w] = 0]
  /\ UNCHANGED <<run, mainVars, queue, refcnt, alive, lock, wsensor, pollPc,
                 kafkaVars, history, snmpVars>>

\* rb_sensor_trylock fails: another worker is at it, skip the sensor.
WorkerSkip(w) ==
  /\ WorkerGoto(w, "trylock", "put")
  /\ lock[wsensor[w]] # NoWorker
  /\ UNCHANGED <<run, mainVars, queue, refcnt, alive, lock, wsensor, wstep,
                 pollPc, kafkaVars, history, snmpVars>>

\* No peer name or no community: aok is false, no monitor is processed.
WorkerNoAddress(w) ==
  /\ wsensor[w] \notin Addressed
  /\ WorkerGoto(w, "open", "unlock")
  /\ UNCHANGED <<run, mainVars, queue, refcnt, alive, lock, wsensor, wstep,
                 snmpVars, pollPc, kafkaVars, history>>

\* Mutation: the session template is written without its mutex.
WorkerPeerNoMutex(w) ==
  /\ wsensor[w] \in Addressed
  /\ WorkerGoto(w, "open", "opening")
  /\ snmpMutex' = w
  /\ peer' = wsensor[w]
  /\ UNCHANGED <<run, mainVars, queue, refcnt, alive, lock, wsensor, wstep,
                 session, pollPc, kafkaVars, history>>

\* snmp_session_mutex, and the sensor's address goes into default_session.
WorkerPeer(w) ==
  /\ wsensor[w] \in Addressed
  /\ snmpMutex = NoWorker
  /\ WorkerGoto(w, "open", "opening")
  /\ snmpMutex' = w
  /\ peer' = wsensor[w]
  /\ UNCHANGED <<run, mainVars, queue, refcnt, alive, lock, wsensor, wstep,
                 session, pollPc, kafkaVars, history>>

\* new_snmp_session copies default_session; the mutex is given back.
WorkerOpen(w) ==
  /\ WorkerGoto(w, "opening", "process")
  /\ session' = [session EXCEPT ![w] = peer]
  /\ snmpMutex' = NoWorker
  /\ UNCHANGED <<run, mainVars, queue, refcnt, alive, lock, wsensor, wstep,
                 peer, pollPc, kafkaVars, history>>

\* Mutation: a session that cannot be opened leaves the mutex locked.
WorkerOpenFailsLocked(w) ==
  /\ WorkerGoto(w, "opening", "unlock")
  /\ UNCHANGED <<run, mainVars, queue, refcnt, alive, lock, wsensor, wstep,
                 snmpVars, pollPc, kafkaVars, history>>

\* ... or it cannot open one, or there is no memory: aok is false.
WorkerOpenFails(w) ==
  /\ WorkerGoto(w, "opening", "unlock")
  /\ snmpMutex' = NoWorker
  /\ UNCHANGED <<run, mainVars, queue, refcnt, alive, lock, wsensor, wstep,
                 peer, session, pollPc, kafkaVars, history>>

\* One monitor that has no value or that is not to be sent.
WorkerMonitorQuiet(w) ==
  /\ wpc[w] = "process"
  /\ wstep[w] < NMonitors
  /\ wstep' = [wstep EXCEPT ![w] = @ + 1]
  /\ UNCHANGED <<run, mainVars, queue, refcnt, alive, lock, wpc, wsensor,
                 pollPc, kafkaVars, history, snmpVars>>

\* One monitor with a message: rd_kafka_produce, which fails when full.
WorkerMonitorSend(w) ==
  /\ wpc[w] = "process"
  /\ wstep[w] < NMonitors
  /\ wstep' = [wstep EXCEPT ![w] = @ + 1]
  /\ sent' = [sent EXCEPT ![wsensor[w]] = wstep[w] + 1]
  /\ pending' = IF Outq < MaxOutq THEN pending + 1 ELSE pending
  /\ UNCHANGED <<run, mainVars, queue, refcnt, alive, lock, wpc, wsensor,
                 pollPc, reports, late, snmpVars>>

\* Every monitor is done, or there is no memory for this iteration's values:
\* destroy_snmp_session and the return.
WorkerProcessed(w) ==
  /\ wstep[w] \in {0, NMonitors}
  /\ WorkerGoto(w, "process", "unlock")
  /\ session' = [session EXCEPT ![w] = NoSensor]
  /\ UNCHANGED <<run, mainVars, queue, refcnt, alive, lock, wsensor, wstep,
                 snmpMutex, peer, pollPc, kafkaVars, history>>

\* Mutation: the lock is not given back.
WorkerNoUnlock(w) ==
  /\ WorkerGoto(w, "unlock", "put")
  /\ UNCHANGED <<run, mainVars, queue, refcnt, alive, lock, wsensor, wstep,
                 pollPc, kafkaVars, history, snmpVars>>

\* rb_sensor_unlock
WorkerUnlock(w) ==
  /\ WorkerGoto(w, "unlock", "put")
  /\ lock' = [lock EXCEPT ![wsensor[w]] = NoWorker]
  /\ UNCHANGED <<run, mainVars, queue, refcnt, alive, wsensor, wstep, pollPc,
                 kafkaVars, history, snmpVars>>

\* rb_sensor_put: the last reference frees the sensor.
WorkerPut(w) ==
  LET s == wsensor[w] IN
  /\ WorkerGoto(w, "put", "pop")
  /\ refcnt' = [refcnt EXCEPT ![s] = @ - 1]
  /\ alive' = IF refcnt[s] = 1 THEN alive \ {s} ELSE alive
  /\ wsensor' = [wsensor EXCEPT ![w] = NoSensor]
  /\ UNCHANGED <<run, mainVars, queue, lock, wstep, pollPc, kafkaVars,
                 history, snmpVars>>

Worker(w) == WorkerOuter(w) \/ WorkerPop(w) \/ WorkerPopTimeout(w)
               \/ WorkerCheckRun(w) \/ WorkerLock(w) \/ WorkerSkip(w)
               \/ WorkerNoAddress(w) \/ WorkerPeer(w) \/ WorkerOpen(w)
               \/ WorkerOpenFails(w)
               \/ WorkerMonitorQuiet(w) \/ WorkerMonitorSend(w)
               \/ WorkerProcessed(w) \/ WorkerUnlock(w) \/ WorkerPut(w)

-----------------------------------------------------------------------------
(* Kafka: the poll thread, and librdkafka with the broker behind it.       *)

\* while (run)
PollCheck ==
  /\ pollPc = "check"
  /\ pollPc' = IF run THEN "poll" ELSE "ended"
  /\ UNCHANGED <<run, mainVars, queue, refcnt, alive, lock, workerVars,
                 kafkaVars, history, snmpVars>>

\* rd_kafka_poll(rk, 500): the delivery callback runs for every report.
PollServe ==
  /\ pollPc = "poll"
  /\ pollPc' = "check"
  /\ reports' = 0
  /\ UNCHANGED <<run, mainVars, queue, refcnt, alive, lock, workerVars,
                 pending, history, snmpVars>>

\* The broker acknowledges a message, or the message expires.
BrokerSettles ==
  /\ pending > 0
  /\ pending' = pending - 1
  /\ reports' = reports + 1
  /\ UNCHANGED <<run, mainVars, queue, refcnt, alive, lock, workerVars,
                 pollPc, history, snmpVars>>

-----------------------------------------------------------------------------
\* The process is gone: what keeps TLC from reporting it as a deadlock.
Exited == mainPc = "done" /\ UNCHANGED vars

Next ==
  \/ Signal
  \/ Main
  \/ \E w \in Workers : Worker(w)
  \/ PollCheck
  \/ PollServe
  \/ BrokerSettles
  \/ Exited

\* The system schedules every thread, and librdkafka settles every message
\* within message.timeout.ms.  A mutex that is given back again and again comes
\* to each thread that waits for it.  Nobody has to send a signal.
Fairness ==
  /\ WF_vars(Main)
  /\ \A w \in Workers : WF_vars(Worker(w)) /\ SF_vars(WorkerPeer(w))
  /\ WF_vars(PollCheck \/ PollServe)
  /\ WF_vars(BrokerSettles)

Spec == Init /\ [][Next]_vars
FairSpec == Spec /\ Fairness

-----------------------------------------------------------------------------
(* Safety.                                                                 *)

\* The values the variables take.
TypeOK ==
  /\ run \in BOOLEAN
  /\ mainPc \in {"loop", "for", "add", "join", "joinPoll", "drain", "done"}
  /\ next \in 1..(NSensors + 1)
  /\ queue \in Seq(Sensors)
  /\ refcnt \in [Sensors -> Int]
  /\ alive \subseteq Sensors
  /\ lock \in [Sensors -> Workers \cup {NoWorker}]
  /\ wpc \in [Workers -> {"outer", "pop", "popped", "trylock", "open",
                          "opening", "process", "unlock", "put", "ended"}]
  /\ wsensor \in [Workers -> Sensors \cup {NoSensor}]
  /\ wstep \in [Workers -> 0..NMonitors]
  /\ snmpMutex \in Workers \cup {NoWorker}
  /\ peer \in Sensors \cup {NoSensor}
  /\ session \in [Workers -> Sensors \cup {NoSensor}]
  /\ pollPc \in {"check", "poll", "ended"}
  /\ pending \in Nat
  /\ reports \in Nat
  /\ sent \in [Sensors -> 0..NMonitors]
  /\ late \in [Workers -> Nat]

\* Every reference counted in rb_sensor_t.refcnt has exactly one owner: the
\* configuration array, a slot of the queue, a worker, or the main thread
\* between rb_sensor_get and queue_sensor.  Nothing is put twice, and the only
\* references never put are those of workers that stopped (rb_sensor.c:364-372,
\* main.c:583,587,606,883).
References(s) ==
  1 + Cardinality(Occurrences(queue, s)) + Cardinality(Holders(s))
    + (IF MainHolds(s) THEN 1 ELSE 0)
ReferencesExact == \A s \in Sensors : refcnt[s] = References(s)

\* No thread can reach a sensor that sensor_done freed: not through the array
\* while the main thread walks it, the queue, or a worker's pointer.
NoUseAfterFree ==
  \A s \in Sensors \ alive :
    /\ mainPc \notin {"loop", "for", "add"}
    /\ Occurrences(queue, s) = {}
    /\ Holders(s) = {}

\* The monitors and last values of a sensor are touched by one worker at a
\* time (main.c:577-585).
Critical(w) == wpc[w] \in {"open", "opening", "process", "unlock"}
ExclusiveProcessing ==
  \A v, w \in Workers :
    Critical(v) /\ Critical(w) /\ wsensor[v] = wsensor[w] => v = w

\* A monitor is asked of the sensor it belongs to: the session a worker uses was
\* opened to the address of the sensor at hand, although all workers write it to
\* the one default_session (rb_sensor_monitor_array.c:240-260,283).
SessionOfOwnSensor ==
  \A w \in Workers : wpc[w] = "process" => session[w] = wsensor[w]

\* Once the signal arrived, a worker begins at most one more sensor, however
\* long the queue is (main.c:601-608).
OneSensorAfterSignal == \A w \in Workers : late[w] <= 1

\* The inductive strengthening of the invariants above and below: who has a
\* sensor at hand, who owns a lock (trylock to unlock), and what each phase of
\* the shutdown has already waited for.
WorkerHasSensor ==
  \A w \in Workers :
    /\ wpc[w] \in {"popped", "trylock", "open", "opening", "process",
                    "unlock", "put"} =>
         wsensor[w] \in Sensors
    /\ wpc[w] = "pop" \/ (wpc[w] = "outer" /\ run) => wsensor[w] = NoSensor
LockOwned ==
  \A s \in Sensors, w \in Workers :
    lock[s] = w <=> Critical(w) /\ wsensor[w] = s
ShutdownOrder ==
  /\ mainPc \in {"join", "joinPoll", "drain", "done"} => ~run
  /\ mainPc \in {"joinPoll", "drain", "done"} =>
       \A w \in Workers : wpc[w] = "ended"
  /\ mainPc \in {"drain", "done"} => pollPc = "ended"
  /\ mainPc = "done" => Outq = 0
LateOnlyAfterLock ==
  \A w \in Workers : run \/ wpc[w] = "trylock" => late[w] = 0
SentByOwner ==
  \A w \in Workers : Critical(w) => sent[wsensor[w]] <= wstep[w]
SnmpMutexOwned ==
  \A w \in Workers :
    /\ snmpMutex = w <=> wpc[w] = "opening"
    /\ wpc[w] = "opening" => peer = wsensor[w]
PoolInv ==
  /\ TypeOK
  /\ alive = Sensors
  /\ mainPc = "add" => next \in Sensors
  /\ ReferencesExact
  /\ WorkerHasSensor
  /\ LockOwned
  /\ ShutdownOrder
  /\ SnmpMutexOwned
  /\ SessionOfOwnSensor
  /\ LateOnlyAfterLock
  /\ OneSensorAfterSignal
  /\ SentByOwner

\* The Kafka handle is destroyed when no other thread can use it and nothing is
\* left in it (main.c:894-921).
CleanExit ==
  mainPc = "done" =>
    /\ \A w \in Workers : wpc[w] = "ended"
    /\ pollPc = "ended"
    /\ Outq = 0

\* Two iterations over one sensor never interleave their messages: within an
\* iteration messages leave in the order of the monitors
\* (rb_sensor_monitor_array.c:275-308 under the lock of main.c:577-585).
OrderedMessages ==
  [][\A s \in Sensors : sent'[s] = 0 \/ sent'[s] >= sent[s]]_vars

-----------------------------------------------------------------------------
(* Liveness, under FairSpec.                                               *)

Busy(s) == lock[s] # NoWorker

\* While the program runs, every configured sensor is processed again and again
\* (main.c:879-892): being skipped by trylock never starves it.
EverySensorServed == \A s \in Sensors : run ~> (~run \/ Busy(s))

\* An iteration ends and its lock is given back (main.c:583-585): no sensor is
\* skipped for ever.
IterationsEnd == \A s \in Sensors : Busy(s) ~> ~Busy(s)

\* The signal ends the program, whatever the queue and Kafka still hold
\* (main.c:894-921).
SignalEndsProgram == ~run ~> mainPc = "done"

-----------------------------------------------------------------------------
(* The service the pool provides, as SensorService specifies it.           *)

Phase == IF mainPc = "done" THEN "stopped" ELSE IF run THEN "up" ELSE "stopping"

Service == INSTANCE SensorService
             WITH phase <- Phase,
                  busy <- {s \in Sensors : Busy(s)},
                  unsettled <- Outq,
                  Room <- MaxOutq

\* The pool implements the service: every step of a thread is one of its steps
\* or none.
ImplementsService == Service!Spec

=============================================================================
