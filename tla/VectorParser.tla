---------------------------- MODULE VectorParser -----------------------------
(***************************************************************************)
(* One reading of a vector monitor: the answer of the command becomes      *)
(* value_buf (system_solve_response or snmp_solve_response), and           *)
(* process_vector_monitor walks it, one action per turn of its loop.       *)
(***************************************************************************)
EXTENDS VectorReading, SequencesExt

CONSTANTS
  Alphabet,   \* the elements an answer is made of
  MaxLength,  \* BOUND on the number of elements of an answer
  Now         \* time(NULL) during the reading

ASSUME NowAssumption == Now \in Nat \ {0}
ASSUME LengthAssumption == MaxLength \in Nat
ASSUME AlphabetAssumption == Alphabet \subseteq Elements(Nat, Int)
ASSUME NullAssumption == NULL \notin Scalars

SplitOps == {"none", "sum", "mean"}

VARIABLES
  answer,   \* what the command or the agent said
  source,   \* the kind of monitor: "system" or "oid"
  stamped,  \* rb_monitor_t.timestamp_given
  splitop,  \* rb_monitor_t.splitop
  text,     \* value_buf; <<>> before the answer is there
  count,    \* elements of the text gone through
  children, \* the array under construction
  sum,
  seen,     \* mean_count
  result    \* the monitor value, NULL until it is returned

config == <<answer, source, stamped, splitop>>
vars == <<config, text, count, children, sum, seen, result>>

Init ==
  /\ answer \in BoundedSeq(Alphabet, MaxLength) \ {<<>>}
  /\ source \in {"system", "oid"}
  /\ stamped \in BOOLEAN
  /\ splitop \in SplitOps
  /\ text = <<>>
  /\ count = 0
  /\ children = <<>>
  /\ sum = 0
  /\ seen = 0
  /\ result = NULL

-----------------------------------------------------------------------------
\* Mutation: vector_elements counts the separators, not the elements.
ReadShort ==
  /\ text = <<>>
  /\ text' = IF source = "system" THEN SystemText(answer)
             ELSE SnmpText(answer)
  /\ children' = [k \in 1..(Len(text') - 1) |-> NULL]
  /\ UNCHANGED <<config, count, sum, seen, result>>

\* get_value_cb fills value_buf; n_children are allocated, all NULL.
Read ==
  /\ text = <<>>
  /\ text' = IF source = "system" THEN SystemText(answer)
             ELSE SnmpText(answer)
  /\ children' = [k \in DOMAIN text' |-> NULL]
  /\ UNCHANGED <<config, count, sum, seen, result>>

MoreElements == count < Len(text)

\* Mutation: the position is not advanced past an element that is left out.
SkipNotSeenInPlace ==
  /\ MoreElements
  /\ NotSeen(text, count + 1)
  /\ text' = SubSeq(text, 1, count) \o SubSeq(text, count + 2, Len(text))
  /\ children' = [k \in DOMAIN text' |-> IF k <= count THEN children[k] ELSE NULL]
  /\ UNCHANGED <<config, count, sum, seen, result>>

\* "Not seeing value"
SkipNotSeen ==
  /\ MoreElements
  /\ NotSeen(text, count + 1)
  /\ count' = count + 1
  /\ UNCHANGED <<config, text, children, sum, seen, result>>

\* extract_vector_value returned false.
SkipInvalid ==
  /\ MoreElements
  /\ ~NotSeen(text, count + 1)
  /\ ~CanExtract(text[count + 1], stamped)
  /\ count' = count + 1
  /\ UNCHANGED <<config, text, children, sum, seen, result>>

\* Mutation: the timestamp of the element is thrown away.
StoreNow ==
  LET e == text[count + 1] IN
  /\ MoreElements
  /\ ~NotSeen(text, count + 1)
  /\ CanExtract(e, stamped)
  /\ children' = [children EXCEPT
                    ![count + 1] = ValueAt(Now, ExtractedNumber(e, stamped))]
  /\ sum' = sum + ExtractedNumber(e, stamped)
  /\ seen' = seen + 1
  /\ count' = count + 1
  /\ UNCHANGED <<config, text, result>>

Store ==
  LET e == text[count + 1]
      t == ExtractedTime(e, stamped)
  IN
  /\ MoreElements
  /\ ~NotSeen(text, count + 1)
  /\ CanExtract(e, stamped)
  /\ children' = [children EXCEPT
                    ![count + 1] = ValueAt(IF t = 0 THEN Now ELSE t,
                                           ExtractedNumber(e, stamped))]
  /\ sum' = sum + ExtractedNumber(e, stamped)
  /\ seen' = seen + 1
  /\ count' = count + 1
  /\ UNCHANGED <<config, text, result>>

\* Mutation: the mean counts the missing elements too.
FinishOverAll ==
  /\ text # <<>> /\ ~MoreElements /\ result = NULL
  /\ result' = ArrayOf(children, IF seen = 0 THEN NULL
                                 ELSE SplitValue(splitop, sum, Len(text), Now))
  /\ UNCHANGED <<config, text, count, children, sum, seen>>

\* "Last token reached. Do we have an operation to do?"
Finish ==
  /\ text # <<>> /\ ~MoreElements /\ result = NULL
  /\ result' = ArrayOf(children, SplitValue(splitop, sum, seen, Now))
  /\ UNCHANGED <<config, text, count, children, sum, seen>>

Next == Read \/ SkipNotSeen \/ SkipInvalid \/ Store \/ Finish

Spec == Init /\ [][Next]_vars

-----------------------------------------------------------------------------
(* Properties.                                                             *)

\* The position never runs past the text, and the array of children that
\* process_vector_monitor allocated has a place for every element.
TypeOK ==
  /\ text \in Seq(Alphabet \cup {Plain(0)})
  /\ count \in 0..Len(text)
  /\ seen \in 0..count
  /\ sum \in Int
  /\ DOMAIN children = DOMAIN text
  /\ \A k \in DOMAIN children : children[k] \in Optional(Scalars)

\* The loop with its two "continue" computes the same array as the
\* definition by position: no element moves to a neighbour's instance.
ParsedByPosition ==
  result # NULL => result = VectorValue(text, stamped, splitop, Now)

\* A mean lies between the smallest and the largest element it was made of,
\* however many elements of the answer were left out.
MeanWithinElements ==
  (result # NULL /\ splitop = "mean" /\ result.split # NULL) =>
    LET nums == {result.children[k].num : k \in Present(result.children)}
    IN  /\ \E n \in nums : n * result.split.over <= result.split.num
        /\ \E n \in nums : n * result.split.over >= result.split.num

\* An element that carries both a timestamp and a number reaches the children
\* at its own position with that timestamp, whatever surrounds it, when the
\* answer begins with a number.
StampedElementsKept ==
  (result # NULL /\ stamped /\ StartsWithNumber(answer[1])) =>
    \A k \in DOMAIN answer :
      (answer[k].sep /\ answer[k].form = "number" /\ answer[k].ts # 0) =>
        result.children[k] = ValueAt(answer[k].ts, answer[k].num)

\* The parts of the inductive invariant.

\* value_buf, and the configuration, which the loop does not change.
TextRead ==
  /\ answer \in Seq(Alphabet) \ {<<>>} /\ stamped \in BOOLEAN
  /\ text \in {<<>>, SystemText(answer), SnmpText(answer)}

\* The children are done up to the position, and missing after it.
ParsedSoFar ==
  children = [k \in DOMAIN text |->
                IF k <= count THEN ChildOf(text, k, stamped, Now) ELSE NULL]

\* What the split operation will be given is the sum and the number of the
\* children present so far.
SummedSoFar == sum = SumOf(children) /\ seen = Cardinality(Present(children))

ResultComplete ==
  result # NULL =>
    /\ count = Len(text) /\ text # <<>>
    /\ result = ArrayOf(children, SplitValue(splitop, sum, seen, Now))

\* What every turn of the loop keeps true (process_vector_monitor,
\* rb_sensor_monitor.c:980-1060).
ParserInv ==
  TypeOK /\ TextRead /\ ParsedSoFar /\ SummedSoFar /\ ResultComplete

\* tests/0008-monitors_split_timestamp.c:30-33 and 231-234: the answer
\* ";30:40" of a command gives instance 1 the value 40 of time 30.
BlankStartKeepsTheRest ==
  (result # NULL /\ stamped /\ IsBlank(answer[1])) =>
    \A k \in DOMAIN answer :
      (answer[k].sep /\ answer[k].form = "number" /\ answer[k].ts # 0) =>
        /\ k \in DOMAIN result.children
        /\ result.children[k] = ValueAt(answer[k].ts, answer[k].num)

\* The extent of that disagreement: the rest is kept unless it is a command's
\* answer that is replaced by "0", and then nothing at all is kept.
BlankStartKeptOrReplaced ==
  (result # NULL /\ stamped /\ IsBlank(answer[1])) =>
    IF source = "oid"
    THEN \A k \in DOMAIN answer :
           (answer[k].sep /\ answer[k].form = "number" /\ answer[k].ts # 0) =>
             result.children[k] = ValueAt(answer[k].ts, answer[k].num)
    ELSE result.children = <<NULL>>

=============================================================================
