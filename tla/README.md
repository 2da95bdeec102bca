# A verification model of rb_monitor

rb_monitor polls *sensors* (a host, an SNMP agent) for *monitors* (an SNMP OID,
a shell command, or an operation on other monitors) and sends what it reads to
Kafka. This directory holds TLA+ modules translated from `src/`, the TLC
configurations that check them on small instances, and proofs checked by TLAPS.
`PROJECT.json` maps every definition to the lines it models.
File names below without a directory are in `src/src/`.

## 1. Inventory

| Component | State | Operations | Interacts with |
|---|---|---|---|
| Polling engine (`main.c`, `rb_sensor_queue.[ch]`) | `run`, sensors array, FIFO of sensors, worker threads, Kafka poll thread | signal, main loop (get, add), worker loop (pop, trylock, process, unlock, put), shutdown (join, join, drain) | sensors by reference count and lock; Kafka |
| Sensor (`rb_sensor.c`) | reference counter, lock, monitors, last values, operation variables, enrichment | `parse_rb_sensor`, get, put, trylock, `process_rb_sensor`, `sensor_done` | configuration (json-c objects), workers |
| Monitors of a sensor (`rb_sensor_monitor_array.c`) | array of monitors, dependencies by position, last known values, values of the iteration | `parse_rb_monitors`, `get_monitors_dependencies`, `process_monitors_array` | monitors, values, message list |
| Monitor (`rb_sensor_monitor.c`, `rb_libmatheval.c`) | none of its own at run time | read a command or OID, split a vector, evaluate an operation | `rb_system.h`, `rb_snmp.c`, values |
| Values and messages (`rb_value.c`, `rb_message_list.c`, `rb_array.c`) | heap objects | allocate, free, compare, print | all of the above |
| SNMP sessions (`rb_snmp.c`) | one shared `default_session` and its mutex, a session per iteration | write the peer's name and open under the mutex, ask, close | all workers |
| ZooKeeper mutex (`rb_zk.c`, optional) | pending and active mutexes, session, watches | lock, unlock, create / list / watch / delete callbacks, clean on disconnection | ZooKeeper, queue, leader |
| ZooKeeper queue (`rb_zk.c`, optional) | queue elements with reference counts | pop under the mutex, watch the empty queue, push | mutex, string lists |
| ZooKeeper leader (`rb_monitor_zk.c`, optional) | `i_am_leader`, timer, string lists | lock at the start and after every error, push the sensors periodically | mutex, queue, sensors queue |
| Kafka, HTTP output (`main.c`) | librdkafka's queue and reports | produce, poll, wait until empty | workers, poll thread, main |
| Configuration, command line, logs, build | options | read once | - |

What is hard, and what makes each part correct:

- **Polling engine.** Threads interleave between any two accesses to `run`, the
  queue, a counter or a lock. A sensor may be queued several times and be popped
  by two workers at once. Correct: counters exact, nothing reachable is freed,
  one worker per sensor, messages of an iteration in order, every sensor
  served, at most one more sensor after the signal, the program ends with
  Kafka empty.
- **Parsing of a sensor.** Invalid monitors are skipped and shift positions, the
  same names appear in several groups, a JSON object changes hands. Correct:
  an operation finds its variables in its own group and by its own positions;
  every object is freed once and after its last use.
- **Reading of values.** Blank, unreadable and missing elements, with or
  without timestamps. Correct: element k is instance k whatever surrounds it;
  sums and means count what was seen.
- **Iterations.** The array of the iteration aliases the last known values,
  values are replaced, merged or dropped, timestamps go back. Correct: no leak,
  no use after free, operations use this iteration's values, consumers know
  what was read, nothing unchanged is sent twice.
- **SNMP sessions.** All workers write to one template and copy it. Correct:
  a session is always to the sensor at hand, and a session that cannot be opened
  holds up nobody.
- **ZooKeeper mutex.** Replies, watches and session events in any interleaving,
  sessions that outlive connections and processes. Correct: one holder, in the
  order of the nodes, and some holder in the end unless a node was left behind.
- **ZooKeeper queue.** A pop is five requests, each of which can fail, be cut by a
  session event or be the last of a crashed process; the watch of an empty queue
  races with the push. Correct: nothing is lost, nothing overtakes, what comes
  twice is explained by a cut, every way through the callbacks but one
  (`rb_zk.c:314-318`) starts the next pop, and nobody sleeps with an element in
  the queue.
- **ZooKeeper leader.** The timer and its calls run on other threads than the
  callbacks of the mutex. Correct: one instance at a time starts to push, and in
  the end one does, over and over, unless a node was left behind.

`hazards` in `PROJECT.json` lists each of these at its line.

## 2. Plan

1. `SensorPool`, `SensorService` (the abstract service) and `SensorPoolProofs`:
   the engine, checked and proved. *Done.*
2. `VectorReading`, `VectorParser`, `MonitorDeps`, `SensorSetup`,
   `MonitorValues`: what one worker does with one sensor. *Done, checked and
   proved* (`SensorSetupProofs`, `VectorParserProofs`, `MonitorValuesProofs` over
   the lemmas of `MonitorLemmas`).
3. `ZkMutex`, the mutex both ZooKeeper users share, and `ZkLock`, the abstract
   lock it implements. *Done, checked and proved.*
4. `ZkQueue`, the pop composed with `ZkMutex`, and `ZkFifo`, the abstract queue it
   implements. *Done, checked and proved; `NothingStuck` stays with TLC.*
5. `ZkLeader`, election, timer and push composed with `ZkMutex`. *Done; its
   safety proved.*
6. SNMP sessions, as a part of `SensorPool`. *Done, checked and proved.*
7. The extent of the disagreements of section 4: where the code does what is
   promised, and where it never does. *Done, proved.*
8. Left to model: the list of popped sensors as a pointer structure between two
   threads (`rb_monitor_zk.c:81-173`), the unsynchronised `pending_leaders`, and
   requests that the ZooKeeper client refuses at once.

None of the modules with or planned for proofs uses a RECURSIVE operator.

## 3. Modules

**SensorPool.** One program counter per thread. Main: `MainLoop`, `MainGet`
(`rb_sensor_get`), `MainAdd` (queue), `MainPassEnd`, then `MainJoinWorkers`,
`MainJoinPoll`, `MainDrain`, `MainExit`. Worker: `WorkerOuter`, `WorkerPop`,
`WorkerPopTimeout`, `WorkerCheckRun` (the second read of `run`), `WorkerLock` or
`WorkerSkip` (trylock), one `WorkerMonitorQuiet` / `WorkerMonitorSend` per
monitor, `WorkerProcessed`, `WorkerUnlock`, `WorkerPut`. Between the lock and the
first monitor a worker opens its SNMP session: `WorkerNoAddress` (no peer name or
community, the iteration is skipped), `WorkerPeer` (take the mutex, write the
shared `peer`), `WorkerOpen` or `WorkerOpenFails` (copy the template or not, give
the mutex back). `Addressed` is the set of sensors that have an address. Kafka is two counters,
messages pending and reports not served, with a capacity. `sent` and `late` are
history variables.

**SensorService.** No threads, no queue: a set of busy sensors, the messages
unsettled, three phases. `ImplementsService` maps the pool to it.

**VectorReading** has the text of an answer as a sequence of elements (timestamp,
number, or what else `strtod` makes of it) and the value that results, by
position. **VectorParser** is the loop of `process_vector_monitor`, one action
for each way through its body: `Read`, `SkipNotSeen`, `SkipInvalid`, `Store`,
`Finish`. `ParsedByPosition` compares the two.

**MonitorDeps** holds `find_monitor_pos` and `get_monitor_dependencies`;
**SensorSetup** is `parse_rb_sensor`, monitor by monitor, with json-c's reference
counts of the enrichment object and the ends of the sensor and of the
configuration.

**MonitorValues** is `process_monitors_array` from iteration to iteration, on a
heap of values: `NoResult`, `Replace`, `Merge` (the swap of
`process_monitor_value_v`) and `Drop`, each with what it prints, and the refresh
of the iteration's array as a part of each. `observed` and `delivered` are
history variables. Time passes at any moment (`Tick`).

**ZkMutex** has the mutex structures of every instance as slots, ZooKeeper's
nodes, and the client's connection. A request is two states: under way, and its
reply under way. Session events come between replies. `CleanMutex` is
`zk_watcher_clean_mutex`, which frees every mutex and, through `error_cb`, locks
again. What the code does with freed mutexes (`DoubleFree`, `StaleWatcher`) is a
choice between going unnoticed and the death of the process. Error answers on a
connection that stands are four actions, together `Refused`: `CreateFails` and
`WatchFails` free the mutex and lock again through `error_cb` (`WatchFails` leaves
the node); `DeleteMutexFails` frees it and leaves the node; `ListFails`, where
`leader_get_children_complete` only logs the error and returns, leaves the mutex
`"stranded"`: allocated, with its node, waiting for nothing and obtained by
nobody, until the next session event frees it. (When the connection is lost, the
error answers come after that event; the one to a listing then finds a freed
mutex and does not touch it, those to a creation or a deletion are `DoubleFree`.)

**ZkLock** is what the mutex promises: numbers that are taken, granted in order
when nobody holds the lock and no lower number exists, given up, and that vanish,
but never while they hold. `ImplementsLock` maps the nodes to numbers and the
obtained mutexes to the holder.

**ZkQueue** adds to each mutex slot the queue element that waits for it: `PopNolock`
(mutex obtained), `ListQueue`, `PopMinimum` (the three ways on from a listing),
`ListQueueAndWatch`, `ChildWatcher`, `GetElement`, `QueueGetElement` (hand over,
then delete), `DeleteElement`, `QueueDeleteCompleted` (the next loop, then
unlock), with ZooKeeper's part of a request and the callback as actions of their
own. `PopFails` and `DeleteFails` are answers to the pop with an error, beside
those of `ZkMutex` to its mutex; `QueueCleanMutex`
frees the queue elements with their mutexes and leaves their requests to
`LateCompletion` and their watches to `StaleChildWatcher`. `delivered` and `cut`
are history variables.

**ZkFifo** is what the queue promises: elements are pushed, handed over oldest
first and one at a time, and then deleted or cut off to be handed over again; it
has no instances, mutex, requests or connections. `ImplementsFifo` maps the
queue's elements to themselves and `InHand`, the element of the pop whose deletion
is under way, to the hand. A hand-over is `QueueGetElement`, a deletion ZooKeeper's
part of `DeleteElement`; a deletion that fails, a lost connection and a crash
are `CutOff`.

**ZkLeader** adds a timer, the calls it has put on the worker thread, and the
position of the call under way in the list. `BecomeLeader` and `LoseLead` are the
mutex's steps with `leader_lock_status_chage_cb` in them. A call under way goes
on after the mutex is lost.

**MCx.tla** give the constants of x values for TLC. `MCVectorParser` and
`MCSensorSetup` add a stuttering step at the end of the function.

## 4. Runs

| Run | Checks | Bounds and why they are enough |
|---|---|---|
| `pool_safety` | counters, memory, locks, shutdown, message order, refinement of SensorService | two workers meet on a sensor, a queue of two holds one sensor twice or two sensors, two monitors make an order, Kafka's queue of one fills |
| `pool_service` | every sensor served, iterations end | three sensors, two of them with an address, two workers: trylock fails, sensors are skipped, workers wait for each other's SNMP session; a queue of one; no monitor sends |
| `pool_shutdown` | the signal ends the program | a backlog in the queue, a worker inside the SNMP mutex, a message in Kafka's queue |
| `vector_parse` | position, mean, timestamps | all answers of up to four of eight kinds of element: blank, junk and overflow at the start, in the middle and at the end |
| `vector_blank_start` | an answer that begins with a blank, violated | three elements |
| `setup_parse` | dependencies and sizes | every array of up to three of nine monitors, and four with any one in the middle |
| `setup_enriched` | who holds the enrichment, violated | - |
| `values` | heap, consumers, operations, nothing sent twice | a scalar with timestamps, an operation on it, a vector with timestamps of up to two elements; two instants and two numbers, so that a reading of the scalar or of the first element can be older, newer, equal or different, with a second element that is there or not |
| `values_vector_ops` | operations on vectors, violated | two vectors of up to two elements |
| `zk_queue` | the mutex (one holder, refinement of ZkLock), the queue (nothing lost, order, repetitions explained, refinement of ZkFifo, the loop lives or its mutex is stranded, nothing stuck, no rest with an element), and the inductive invariant of the proofs (`LoopInv`, of which `QueueInv` and `MutexInv` are parts) | two instances with up to three mutexes each (the one being released, the next, and one more after an error), three nodes (both instances in line and one of them again), two elements, two faults (lost connections, crashes, error answers to the mutex or the pop): a cut pop and its repetition by the other instance, a stranded mutex and a cut pop, or two errors in a row |
| `zk_leader` | one pusher, no rest without a holder, some leader in the end, every sensor pushed over and over, unless a node is left behind | two instances, two faults (as in `zk_queue`), a list of two, one call waiting beside the one under way; the properties hold although node numbers are bounded at ten, so the bound does not keep an instance from leading |
| `mutex_again` | the mutex is obtained again and again, violated | no fault at all |

In `pool_safety` both sensors have an address. The runs over `ZkMutex` do not check
deadlock: an elected leader with every other
instance watching, or a holder that watches an empty queue, really waits for ever
once no fault is left, and `MaxNodes` stops the others. Symmetry is used where no
liveness is checked: the workers in `pool_safety`, the instances in `zk_queue`.

`AtRestQueueEmpty` and `AtRestSomeoneHolds` are the safety forms of "every element
is popped in the end" and "some instance leads in the end". `AtRest` and
`MutexAtRest` say that everything is connected and no request, reply or event is
on its way. At rest the queue is empty, and one instance holds the mutex,
unless a node stays behind: the node of a mutex that was freed while its session
lives, or stranded (both `Orphans`), or that of a mutex whose pop ended in an
error (`Abandoned`). All three occur in the runs: TLC finds states at rest without
a leader where the only fault was the error answer to a listing. `NothingStuck` is the other half: where
no step of the program or of ZooKeeper is possible (ENABLED), the system is at
rest, or `MaxNodes` or `MaxMutexes` was hit, so no request waits for ever without an
answer to come. The liveness form is not stated for the queue, since `LockedAgain`
shows that even without a fault a node may stay behind, and each turn of the
queue needs a new node, so `MaxNodes` would end every behaviour.

The type invariants of the pool and of the queue, `WatchesItsTurn` and the other
parts of the inductive invariants are not listed again in a run that checks
`PoolInv` or `LoopInv`, of which they are conjuncts.

### Disagreements found

Each is the run of a property that a comment, a test or the README of rb_monitor
states, and that TLC finds violated:

- A command's answer that begins with a blank is replaced by "0" as a whole
  (`vector_blank_start`, `rb_system.h:65`;
  `tests/0008-monitors_split_timestamp.c` expects otherwise).
- The enrichment object is put once more than it is held (`setup_enriched`,
  `rb_sensor.c:209`).
- Operations on vectors yield only missing elements (`values_vector_ops`,
  `rb_sensor_monitor.c:677`).
- When the previous node vanishes between the listing and the watch, the mutex is
  given up but its node stays, and nobody obtains the mutex again
  (`mutex_again`, `rb_zk.c:345`). A reconnection within the session leaves a node
  behind in the same way (`rb_zk.c:552`). `LeaderUnlessOrphaned` shows that nodes
  left behind, of mutexes that were freed or stranded (next paragraph but one),
  are the only way to be without a leader.

For three of them a theorem tells how far they go (section 6): SNMP answers keep
everything after a leading blank; whatever has no enrichment object in the
configuration outlives it; no operation ever yields an element. For the fourth,
`NoCircleOfWaits` does: nodes left behind, of freed or stranded mutexes, are the
only way for all to wait.

Error answers to the requests of the mutex give two more, which have no run of
their own and can be read off the definitions. `rb_zk.h:170-172` says of `error_cb`
that it is called when an error happens and that the mutex is then deleted and has
to be created again; `leader_get_children_complete` (`rb_zk.c:314-318`, `ListFails`)
does neither when the listing is answered with an error. The instance's poll loop
is lost, or its candidacy, until the next session event, and once its node is the
lowest nobody obtains the mutex. `PollLoopAlive`, `LeaderUnlessOrphaned` and
`SensorsPushed` hold only with this exception written into them. And
`delete_mutex_completed` (`rb_zk.c:498-502`, `DeleteMutexFails`) ignores the error
of a deletion, so that the node of a released mutex stays behind.

Two more can be read off the definitions without a run: a blank element before a
final blank one is left out instead of being 0 (`NotSeen`), and a cached value
is sent again after a reading without it (`Merge` keeps the last children only).

## 5. Fairness

- Pool: weak fairness of each thread (the operating system schedules them; their
  loops never wait for a condition only another run of the same loop makes true),
  of the poll thread, and of the broker or message timeout that settles a message
  (librdkafka's `message.timeout.ms`). A monitor is assumed to end: a command that
  never does, which `rb_system.h:54-73` does not guard against, is excluded.
  `EverySensorServed` needs no strong fairness since a skipped sensor is queued
  again in the next pass while the owner of its lock goes on. The step that
  takes the SNMP mutex has strong fairness for each worker: the mutex is held only
  while a session is opened, and a worker that waits for it is let in, sooner or
  later, by the pthread implementation.
- ZkMutex, ZkLeader: weak fairness of replies, callbacks and reconnection (the client
  library retries for ever), of the restart of a dead process
  (`Restart=always` in `redborder-monitor.service`), and of the expiry of the
  session of a dead process. None for faults, nor for the expiry of a live
  client's session. In ZkLeader also of the timer, which is recurring, and of the
  worker thread it calls. ZkQueue is checked without fairness.

## 6. Proofs

`SensorPoolProofs` proves for any number of sensors, monitors and workers and any
capacities, from the named assumptions of `SensorPool` only (counts are
naturals, the workers are finite and `NoWorker` is none of them):

- `PoolInvariant`: `Spec => []PoolInv`. The safety properties are not inductive
  by themselves. `PoolInv` adds: what pointer each worker's program counter
  implies (`WorkerHasSensor`), a lock is owned exactly from trylock to unlock by
  the worker whose pointer is that sensor (`LockOwned`), the SNMP mutex is owned
  exactly between `WorkerPeer` and the opening, with the owner's sensor in the
  template (`SnmpMutexOwned`), what each phase of the
  shutdown has already waited for (`ShutdownOrder`), when `late` may be positive
  (`LateOnlyAfterLock`), and that no monitor later than the current one has sent
  (`SentByOwner`). The step is proved action by action; counting references uses
  lemmas on the cardinality of the positions of a sensor in the queue and of its
  holders when one is added or removed.
- From it `TypeCorrect`, `CountingExact`, `MemorySafe`, `MutualExclusion`,
  `OwnSession`, `PromptStop`, `ExitIsClean`, and the action property `MessageOrder`.
- `Refinement`: every initial state and every step of the pool is one of
  `SensorService`, or a stutter.

`ZkMutexProofs` proves for any set of instances and any `MaxMutexes`, `MaxNodes` and
`MaxFaults`, from `BoundsAssumption` only, that the mutex is safe:

- `MutexInvariant`: `Spec => []MutexInv`. Mutual exclusion is not inductive: that
  nobody else holds when a mutex is first follows from what the others' nodes are.
  `MutexInv` adds: the session event has ended every mutex of a connection
  that is down (`SessionEventSeen`), so a session that expires takes no node of a
  live mutex (`OwnNodeThere`); a node belongs to one mutex (`OneMutexPerNode`);
  numbers only grow (`NumbersPast`), so the node before ours can vanish but none
  can appear between (`WatchesItsTurn`); hence a holder's node is the
  lowest (`HolderIsLowest`), and whoever waits has a higher node than was ever
  granted (`GrantsPast`). The proof restates the invariant as a condition on each
  slot (`SlotOK`) and one on what all share (`SharedOK`): an action changes one
  slot or one instance, and `Undisturbed` carries the others over.
- From it `Exclusion` and `TurnWatched`, and `LockImplemented`: a
  node created is a number taken, a mutex obtained is a grant, and every other
  step is quiet (`QuietStep`): it ends a holder, or lets numbers vanish, or
  neither. `OrderKept` follows, since `ZkLock` grants in growing order.
- `NoCircleOfWaits` (`AtRestSomeoneHolds`), from `ProcsAssumption` (there is an
  instance). `LockingKept` says that an instance that runs has a mutex it has not
  given up, be it stranded; `WatchesBefore`, a part of `MutexInv`, that a watched node is lower than
  the watcher's. At rest the lowest of all nodes therefore belongs to a mutex that
  waits for none, or to none at all; the first one is obtained or stranded
  (`LowestHolds`).
- `RefusedSlot` says what an error answer does to its mutex, for all these, and
  `OnlyFaultsStrand` that only such an answer strands one.

`ZkQueueProofs` shows that each step of the queue is one of `ZkMutex` or one of three
moves of its own (`LockMove`: another mutex is locked in a free slot, the process
dies, a fault is counted), so that all this holds under `QueueSpec` too. On top,
from `ElementsAssumption`, `QueueInvariant` proves `QueueInv`, which adds that the
element a pop has found stays the lowest one until the pop itself deletes
it, and was handed over by then (`ElementInHand`), and that what is in the queue
and in no hand was handed over at most once for every cut (`CutsCounted`). Only
one pop works at a time (`OnePopWorks`, from mutual exclusion). `NothingLost`,
`FirstInFirstOut` and `DuplicatesCounted` follow.

`LoopInvariant` proves `LoopInv`, for the poll loops: exactly which mutexes are a
loop (`Loops`), or a loop that was lost by stranding (`Stranded`; together
`Begun`), is followed through every callback. An instance that runs has one of
the two, since whatever ends a loop otherwise starts the next in a structure that
was free; without faults it has one loop only, and `StrandedByFault` nothing
stranded. `LoopsCounted` is not inductive by itself: a
late completion starts a loop too, so `NoTraceOfFaults` says that such
completions, and lost connections, are there only after a fault, and never for a
process that is gone. `SleepersAreTold` is the wake-up of a pop: from the second
listing on, either the queue is empty and the watch set, or the event is on its
way. `LoopLostOnlyStranded` (`PollLoopAlive`) and `NoWakeUpLost` follow; the second is the
part of `AtRestQueueEmpty` that the code has to get right. `RestIsEmpty` proves
that property whole: at rest some mutex holds (by the argument of
`NoCircleOfWaits`, over `QueueSpec`), its pop waits or it is abandoned, and a pop
that waits has seen the queue empty and was not told otherwise.

`FifoImplemented` proves `ImplementsFifo`. Every action is classified by what it
does to elements and hand: a push, the hand-over of an element that
`ElementInHand` says is the lowest, its deletion, the end of the pop that has it
in hand, or nothing (`Quiet...`). That the hand holds one element at most is
`OnePopWorks`.

`ZkLeaderProofs` shows that each step of the leader is one of `ZkMutex`
(`LeaderMutex`), which carries `NoCircleOfWaits` over (`LeaderAtRest`), and proves `OnePusher` by an invariant that ties each timer to the
state of the instance's mutexes.

`SensorSetupProofs` proves for any configurations (`ConfigsAssumption`: what json-c
calls an array is a sequence, and so are the variables libmatheval finds) that
the positions of the dependencies are right:

- `SetupInvariant`: `SetupInv` adds to the type that every valid JSON monitor gone
  through is in the array and nothing else is (`ValidMonitorsTaken`), that
  dependencies and last values are made from the final array
  (`DependenciesOfArray`), and that the sensor's own enrichment object is held
  once while it points to it (`OwnEnrichmentHeld`).
- From it `TypeCorrect`, `GroupsNotMixed`, `OperationsResolve` and
  `OwnEnrichmentPut`, with the two lemmas on `find_monitor_pos` and
  `get_monitor_dependencies` (`MonitorFound`, `DependenciesFound`).
- `OnlyEnrichmentOutlived`, by counting the references of the configuration's own
  object (`ConfigEnrichmentHeldOnce`): what the sensor holds is alive, and nothing
  is put twice, unless the configuration has an enrichment object and is gone.

`VectorParserProofs` proves for answers of any length, over any numbers and times,
that the loop computes what `VectorReading` defines by position:

- `ParserInvariant`: `ParserInv` says that the children up to the position are those
  of the definition and the others missing (`ParsedSoFar`), and that sum and
  count are those of the children so far (`SummedSoFar`), so the result is right
  when the loop ends (`ResultComplete`). `TextRead` keeps what kind of text it is.
- From it `TypeCorrect`, `LoopComputesByPosition`, `StampedElementsStay` and
  `MeanIsAMean`. The last needs that a mean of numbers on one side of a number
  is on that side too (`SumWeighs`).
- `BlankStartOnlyOfCommands`: of an answer that begins with a blank, SNMP keeps every
  element that has a timestamp and a number; of a command's, one missing element
  is left, whatever else it says.

`MonitorValuesProofs` proves for any monitors, operations and readings
(`MonitorsAssumption` is what `parse_rb_monitor` makes; `ReadingsAssumption` types
the answers; NULL is no value):

- `ValuesInvariant`: `ValuesInv` adds to the type and to `HeapExact` and
  `ConsumersUpToDate` that a monitor keeps the kind of its values (`KindKept`),
  that consumers know the last value, which the next one is compared with
  (`LastKnownDelivered`), that the elements of a vector with timestamps are the last
  ones read, whether they were merged or not (`LastRead`), and that the
  operations the iteration has passed hold their results (`OperationsDone`). Without
  `LastKnownDelivered` a dropped reading could be news to a consumer; without
  `OperationsDone` nothing is known of an operation until the iteration ends.
- From it `TypeCorrect`, `MemoryExact`, `ConsumersKnow`, `OperationsKeepUp`, and the
  action property `NeverRepeated`.
- `OperationsYieldNoElement`: no operation on vectors ever holds an element or has
  one sent, for any monitors, readings and evaluator.

The sums of `VectorParser` are folds of the community modules. What they compute is
proved in `MonitorLemmas` (`SumStep`, `SumRemove`, `SumAgree`) although no theorem on
induction can be used: the functions of a fold are unique and exist on every
finite set, because a smallest set without would have a smaller one
(`SmallestSubset`). Recursion over sequences does not occur.

Only model-checked: liveness (`EverySensorServed`, `IterationsEnd`,
`SignalEndsProgram`, `LeaderUnlessOrphaned`, `SensorsPushed`) and `NothingStuck`, since
fairness and ENABLED are out of the prover's reach. The properties found violated
(section 4) have no proof, of course. Every other property of a run is a theorem.

## 7. Not modelled

The HTTP output and its report thread; the requests of an SNMP session and the
widths of its numbers; JSON access, logging, command line; message formatting and
enrichment of messages; lists and arrays as data structures; failing
allocations. Long answers cut by `fgets` at `BUFSIZ` are not (elements are
whole). The split token is not white space. In `MonitorValues` a vector has at
most `MaxChildren` elements and times are small numbers.

In `ZkMutex` the session event is delivered before the session can expire (the
client gives up after two thirds of the timeout), the asynchronous calls of the
client library do not fail at once (answers with an error, and `zoo_wexists`, which
waits for its answer, are modelled), and memory of a freed mutex is not handed out again while a
watch points to it. The lists of mutexes are changed atomically, although
`pending_leaders` is appended without its lock (`rb_zk.c:493`), and
`zk_watcher_do_pending_locks` does not meet a failing `zoo_acreate`, which would
take `leaders_lock` a second time (`rb_zk.c:474`). Node watchers get no session
events.

In `ZkQueue` a late completion starts a loop or kills the process, and does not
send a request with a freed queue element; a request the client refuses at once
is not modelled; an element's life ends in `pop_sensors_list`. That list is
appended by the ZooKeeper thread without the lock under which the worker thread
empties it (`rb_monitor_zk.c:98`), and what comes out of it is a JSON object in a
queue of sensors (`rb_monitor_zk.c:246`). In `ZkLeader` a push without connection
may reach ZooKeeper later; it is not counted as arrived.
