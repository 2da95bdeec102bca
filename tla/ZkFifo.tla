------------------------------- MODULE ZkFifo --------------------------------
(***************************************************************************)
(* What the queue of sensors in ZooKeeper promises, with no instances, no  *)
(* mutex, no requests and no connections: elements are handed over one at  *)
(* a time, always the oldest; one that is handed over leaves the queue, or *)
(* is cut off before it does and will be handed over again.  Nothing else  *)
(* ever hands an element over twice, and nothing takes one away that was   *)
(* not handed over.                                                        *)
(***************************************************************************)
EXTENDS Integers

CONSTANT Elements

VARIABLES
  queue,     \* the elements pushed and not yet deleted
  last,      \* the last element pushed
  hand,      \* the element handed over and still to be deleted, if any
  delivered  \* times each element was handed over

vars == <<queue, last, hand, delivered>>

Init ==
  /\ queue = {}
  /\ last = 0
  /\ hand = {}
  /\ delivered = [e \in Elements |-> 0]

Push ==
  /\ last + 1 \in Elements
  /\ last' = last + 1
  /\ queue' = queue \cup {last'}
  /\ UNCHANGED <<hand, delivered>>

HandOver(e) ==
  /\ hand = {}
  /\ e \in queue
  /\ \A f \in queue : e <= f
  /\ hand' = {e}
  /\ delivered' = [delivered EXCEPT ![e] = @ + 1]
  /\ UNCHANGED <<queue, last>>

Delete ==
  /\ hand # {}
  /\ queue' = queue \ hand
  /\ hand' = {}
  /\ UNCHANGED <<last, delivered>>

\* The deletion fails, or nobody is left to ask for it.
CutOff ==
  /\ hand # {}
  /\ hand' = {}
  /\ UNCHANGED <<queue, last, delivered>>

Next == Push \/ (\E e \in queue : HandOver(e)) \/ Delete \/ CutOff

Spec == Init /\ [][Next]_vars

=============================================================================
