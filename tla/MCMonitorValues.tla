--------------------------- MODULE MCMonitorValues ---------------------------
(* Instances of MonitorValues for TLC.                                     *)
EXTENDS MonitorValues, SequencesExt

Reading(name, kind, stamped, splitop, send) ==
  [name |-> name, group |-> 0, vars |-> <<>>, kind |-> kind,
   stamped |-> stamped, splitop |-> splitop, send |-> send]
Operation(name, args, splitop, send) ==
  [name |-> name, group |-> 0, vars |-> args, kind |-> "op",
   stamped |-> FALSE, splitop |-> splitop, send |-> send]

\* A scalar with timestamps, an operation on it, and a vector with timestamps.
Mixed ==
  <<Reading("a", "scalar", TRUE, "none", TRUE),
    Operation("b", <<"a">>, "none", TRUE),
    Reading("v", "vector", TRUE, "sum", TRUE)>>

\* Two plain vectors and an operation on them.
PlainVectors ==
  <<Reading("v", "vector", FALSE, "none", FALSE),
    Reading("x", "vector", FALSE, "mean", TRUE),
    Operation("w", <<"v", "x">>, "sum", TRUE)>>

\* The first operation is not a number for 2; the others are a sum.
Arithmetic(i, numbers) ==
  IF Len(numbers) = 1
  THEN IF numbers[1] = 2 THEN NULL ELSE numbers[1]
  ELSE numbers[1] + numbers[2]

\* What an element may be.  With timestamps the second one is there, or is not,
\* beside the first, which is older, newer, equal or different.
Element(i, k) ==
  CASE Monitors[i].stamped /\ k = 1 ->
         {BlankElement, Stamped(1, 1), Stamped(1, 2), Stamped(2, 1)}
    [] Monitors[i].stamped /\ k # 1 -> {BlankElement, Stamped(1, 1)}
    [] OTHER -> {BlankElement, Plain(1),
                 [sep |-> FALSE, ts |-> 0, form |-> "overflow", num |-> 0]}
MCTexts(i) ==
  {t \in BoundedSeq(UNION {Element(i, k) : k \in 1..MaxChildren}, MaxChildren) :
     t # <<>> /\ \A k \in DOMAIN t : t[k] \in Element(i, k)}

=============================================================================
