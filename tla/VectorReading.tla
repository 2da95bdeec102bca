---------------------------- MODULE VectorReading ----------------------------
(***************************************************************************)
(* What rb_monitor makes of the text a command or an SNMP agent answered   *)
(* (rb_system.h, rb_snmp.c and rb_sensor_monitor.c), as operators on the   *)
(* elements the split token separates.                                     *)
(*                                                                         *)
(* An element is a record: sep tells whether the timestamp separator       *)
(* occurs in it, ts is the timestamp before the separator (0: nothing      *)
(* readable), and form and num are what strtod makes of the rest.  The     *)
(* split token is assumed not to be white space, which strtod would skip.  *)
(***************************************************************************)
EXTENDS Integers, Sequences, FiniteSets, FiniteSetsExt

CONSTANT NULL

Forms == {"blank", "junk", "number", "overflow"}

Elements(timestamps, numbers) ==
  {e \in [sep : BOOLEAN, ts : timestamps \cup {0}, form : Forms,
          num : numbers \cup {0}] :
     /\ ~e.sep => e.ts = 0
     /\ e.form # "number" => e.num = 0}

Plain(n) == [sep |-> FALSE, ts |-> 0, form |-> "number", num |-> n]
Stamped(t, n) == [sep |-> TRUE, ts |-> t, form |-> "number", num |-> n]
BlankElement == [sep |-> FALSE, ts |-> 0, form |-> "blank", num |-> 0]

\* The types of the values: a number of some time, the result of a split
\* operation (with what a mean divides by), and what may be missing.
Optional(S) == S \cup {NULL}
Scalars == [type : {"value"}, ts : Nat, num : Int]
Splits == [type : {"value"}, ts : Nat, num : Int, over : Nat \ {0}]

\* The text "0", which stands for every answer that could not be obtained.
NoAnswer == <<Plain(0)>>

-----------------------------------------------------------------------------
(* From the answer to value_buf.                                           *)

\* strtod reads something at the beginning of the element's text.
StartsWithNumber(e) ==
  IF e.sep THEN e.ts # 0 ELSE e.form \in {"number", "overflow"}

\* system_solve_response: strtod is tried on the whole answer, so that only
\* its first element decides.
SystemText(answer) ==
  IF StartsWithNumber(answer[1]) THEN answer ELSE NoAnswer

\* snmp_solve_response: an octet string is copied unless it is empty.
SnmpText(answer) == IF answer = <<BlankElement>> THEN NoAnswer ELSE answer

-----------------------------------------------------------------------------
(* From value_buf to the monitor value.                                    *)

IsBlank(e) == ~e.sep /\ e.form = "blank"

\* The rest of the text from element k on is exactly one split token.
NotSeen(text, k) ==
  k + 1 = Len(text) /\ IsBlank(text[k]) /\ IsBlank(text[k + 1])

\* extract_vector_value: its return value, the number and the timestamp.
\* With no timestamp wanted, strtod stops at the separator and reads ts.
ReadsTime(e, stamped) == e.sep /\ ~stamped
CanExtract(e, stamped) ==
  (stamped => e.sep) /\ (e.form = "overflow" => ReadsTime(e, stamped))
ExtractedNumber(e, stamped) == IF ReadsTime(e, stamped) THEN e.ts ELSE e.num
ExtractedTime(e, stamped) == IF stamped THEN e.ts ELSE 0

\* process_novector_monitor
ValueAt(t, n) == [type |-> "value", ts |-> t, num |-> n]

ChildOf(text, k, stamped, now) ==
  IF NotSeen(text, k) \/ ~CanExtract(text[k], stamped)
  THEN NULL
  ELSE LET t == ExtractedTime(text[k], stamped)
       IN  ValueAt(IF t = 0 THEN now ELSE t,
                   ExtractedNumber(text[k], stamped))

\* The split operation; a mean is kept as the fraction num / over.
SplitValue(op, sum, count, now) ==
  IF op = "none" \/ count = 0
  THEN NULL
  ELSE [type |-> "value", ts |-> now, num |-> sum,
        over |-> IF op = "sum" THEN 1 ELSE count]

\* new_monitor_value_array
ArrayOf(children, split) ==
  [type |-> "array", children |-> children, split |-> split]

Present(children) == {k \in DOMAIN children : children[k] # NULL}
SumOf(children) ==
  MapThenSumSet(LAMBDA k : children[k].num, Present(children))

\* The value of the whole text, said without the loop that computes it.
VectorValue(text, stamped, op, now) ==
  LET children == [k \in DOMAIN text |-> ChildOf(text, k, stamped, now)]
  IN  ArrayOf(children, SplitValue(op, SumOf(children),
                                   Cardinality(Present(children)), now))

=============================================================================
