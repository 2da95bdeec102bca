------------------------------- MODULE ZkLock --------------------------------
(***************************************************************************)
(* What the mutex of rb_zk.c promises, with no instances, no requests, no  *)
(* watches and no connections: whoever wants the mutex takes a number; the *)
(* lowest number obtains it when nobody holds it; numbers are granted in   *)
(* growing order, each at most once; and the number that holds the mutex   *)
(* never vanishes while it holds it.                                       *)
(***************************************************************************)
EXTENDS Integers

VARIABLES
  waiting,  \* the numbers that exist, the holder's among them
  last,     \* the last number taken
  held,     \* the numbers that hold the mutex
  granted   \* the last number that was granted

vars == <<waiting, last, held, granted>>

Init ==
  /\ waiting = {}
  /\ last = 0
  /\ held = {}
  /\ granted = 0

Enter ==
  /\ last' = last + 1
  /\ waiting' = waiting \cup {last'}
  /\ UNCHANGED <<held, granted>>

Grant(n) ==
  /\ held = {}
  /\ n \in waiting
  /\ n > granted
  /\ \A k \in waiting : n <= k
  /\ held' = {n}
  /\ granted' = n
  /\ UNCHANGED <<waiting, last>>

\* The holder gives the mutex up, or is told that it lost it.  Its number may
\* stay behind, and keeps the others waiting until it vanishes.
GiveUp ==
  /\ held # {}
  /\ held' = {}
  /\ UNCHANGED <<waiting, last, granted>>

\* Numbers of deleted nodes and of ended sessions.
Vanish ==
  /\ waiting' \in SUBSET waiting
  /\ waiting' # waiting
  /\ held \subseteq waiting'
  /\ UNCHANGED <<last, held, granted>>

Next == Enter \/ (\E n \in waiting : Grant(n)) \/ GiveUp \/ Vanish

Spec == Init /\ [][Next]_vars

=============================================================================
