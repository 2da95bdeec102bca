--------------------------- MODULE SensorService ----------------------------
(***************************************************************************)
(* What the polling engine promises (src/src/main.c), with no threads, no  *)
(* queue and no counters: a sensor is processed by at most one party at a  *)
(* time, the messages of an iteration leave in the order of its monitors,  *)
(* and the program stops only when nothing is being processed and every    *)
(* message Kafka accepted has been settled and its report served.          *)
(***************************************************************************)
EXTENDS Integers

CONSTANTS
  NSensors,   \* the configured sensors are 1..NSensors
  NMonitors,  \* monitors of every sensor
  Room        \* messages Kafka holds at most

VARIABLES
  phase,      \* "up", "stopping" (a signal came) or "stopped"
  busy,       \* the sensors being processed
  sent,       \* last monitor that sent in the sensor's latest iteration
  unsettled   \* messages accepted whose delivery report is not served yet

vars == <<phase, busy, sent, unsettled>>

Sensors == 1..NSensors

Init ==
  /\ phase = "up"
  /\ busy = {}
  /\ sent = [s \in Sensors |-> 0]
  /\ unsettled = 0

Begin(s) ==
  /\ phase # "stopped"
  /\ s \notin busy
  /\ busy' = busy \cup {s}
  /\ sent' = [sent EXCEPT ![s] = 0]
  /\ UNCHANGED <<phase, unsettled>>

\* A message is accepted, or lost when there is no room for it.
Report(s) ==
  /\ s \in busy
  /\ \E m \in 1..NMonitors : m > sent[s] /\ sent' = [sent EXCEPT ![s] = m]
  /\ unsettled' = IF unsettled < Room THEN unsettled + 1 ELSE unsettled
  /\ UNCHANGED <<phase, busy>>

Finish(s) ==
  /\ s \in busy
  /\ busy' = busy \ {s}
  /\ UNCHANGED <<phase, sent, unsettled>>

Settle ==
  /\ phase # "stopped"
  /\ unsettled' \in 0..unsettled
  /\ UNCHANGED <<phase, busy, sent>>

Stop ==
  /\ phase = "up"
  /\ phase' = "stopping"
  /\ UNCHANGED <<busy, sent, unsettled>>

Exit ==
  /\ phase = "stopping"
  /\ busy = {}
  /\ unsettled = 0
  /\ phase' = "stopped"
  /\ UNCHANGED <<busy, sent, unsettled>>

Next ==
  \/ \E s \in Sensors : Begin(s) \/ Report(s) \/ Finish(s)
  \/ Settle
  \/ Stop
  \/ Exit

Spec == Init /\ [][Next]_vars

=============================================================================
