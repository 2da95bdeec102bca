--------------------------- MODULE MCVectorParser ----------------------------
(* Instances of VectorParser for TLC.                                      *)
EXTENDS VectorParser

\* One element of each sort that the code tells apart, two of the numbers.
MCAlphabet ==
  {BlankElement, Plain(1), Plain(4), Stamped(7, 2), Stamped(0, 3),
   [sep |-> FALSE, ts |-> 0, form |-> "junk", num |-> 0],
   [sep |-> FALSE, ts |-> 0, form |-> "overflow", num |-> 0],
   [sep |-> TRUE, ts |-> 7, form |-> "blank", num |-> 0]}

\* The system really stops once the value is returned.
Returned == result # NULL /\ UNCHANGED vars
MCNext == Next \/ Returned
MCSpec == Init /\ [][MCNext]_vars

=============================================================================
