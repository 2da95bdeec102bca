------------------------- MODULE VectorParserProofs ---------------------------
(***************************************************************************)
(* What one reading of a vector makes of every answer: the loop computes   *)
(* the definition by position, and a mean is one.                          *)
(***************************************************************************)
EXTENDS VectorParser, MonitorLemmas, SequenceTheorems

-----------------------------------------------------------------------------
(* The mean of some numbers.                                               *)

\* If every number, times a, is above b, so is their mean: what makes a mean
\* of numbers that all lie on one side of it impossible.
LEMMA SumWeighs ==
  ASSUME NEW c, NEW S, IsFiniteSet(S), S # {}, NEW a \in Int, NEW b \in Int,
         \A k \in S : c[k].num \in Int /\ a * c[k].num > b
  PROVE  a * SumOver(c, S) > b * Cardinality(S)
<1> DEFINE Bad == {s \in SUBSET S :
                     s # {} /\ ~(a * SumOver(c, s) > b * Cardinality(s))}
<1>1. ASSUME Bad # {} PROVE FALSE
  <2>1. PICK T \in Bad : \A U \in SUBSET T : U # T => U \notin Bad
    <3>1. Bad \in SUBSET (SUBSET S)
      OBVIOUS
    <3> HIDE DEF Bad
    <3> QED
      BY <3>1, <1>1, SmallestSubset
  <2> DEFINE x == FirstOf(T)
             U == T \ {x}
             n == Cardinality(U)
  <2>2. T # {} /\ T \in SUBSET S /\ ~(a * SumOver(c, T) > b * Cardinality(T))
    BY <2>1
  <2>3. x \in T /\ x \in S
    BY <2>2, FirstMember
  <2>4. IsFiniteSet(T)
    BY <2>2, FS_Subset
  <2>5. IsFiniteSet(U) /\ n \in Nat /\ Cardinality(T) = n + 1
    <3>1. IsFiniteSet(U)
      BY <2>4, FS_Subset
    <3>2. Cardinality(T) \in Nat /\ n \in Nat
      BY <2>4, <3>1, FS_CardinalityType
    <3>3. n = Cardinality(T) - 1
      <4> HIDE DEF x
      <4> QED
        BY <2>3, <2>4, FS_RemoveElement
    <3> HIDE DEF n
    <3> QED
      BY <3>1, <3>2, <3>3
  <2>6. SumOver(c, T) = c[x].num + SumOver(c, U)
    BY <2>2, <2>4, SumStep
  <2>7. SumOver(c, U) \in Int
    <3>1. \A k \in U : c[k].num \in Int
      BY <2>2
    <3> QED
      BY <2>5, <3>1, SumInt
  <2>8. a * SumOver(c, U) >= b * n
    <3>1. CASE U = {}
      <4>1. SumOver(c, U) = 0 /\ n = 0
        BY <3>1, <2>5, SumStep, FS_EmptySet
      <4> QED
        BY <4>1
    <3>2. CASE U # {}
      <4>1. U \in SUBSET T /\ U # T /\ U \in SUBSET S
        BY <2>2, <2>3
      <4>2. a * SumOver(c, U) > b * n
        BY <4>1, <3>2, <2>1
      <4> HIDE DEF n, U
      <4> QED
        BY <4>2, <2>5, <2>7
    <3> QED
      BY <3>1, <3>2
  <2>9. c[x].num \in Int /\ a * c[x].num > b
    BY <2>3
  <2> DEFINE p == c[x].num
             q == SumOver(c, U)
  <2>10. p \in Int /\ q \in Int /\ n \in Nat /\ a * p > b /\ a * q >= b * n
    BY <2>5, <2>7, <2>8, <2>9
  <2>11. SumOver(c, T) = p + q /\ Cardinality(T) = n + 1
    BY <2>5, <2>6
  <2> HIDE DEF p, q, n, U, x
  <2>12. a * (p + q) > b * (n + 1)
    <3>1. a * (p + q) = a * p + a * q
      BY <2>10
    <3>2. b * (n + 1) = b * n + b
      BY <2>10
    <3>3. a * p \in Int /\ a * q \in Int /\ b * n \in Int
      BY <2>10
    <3> QED
      BY <2>10, <3>1, <3>2, <3>3
  <2> QED
    BY <2>2, <2>11, <2>12
<1> HIDE DEF Bad
<1>2. S \notin Bad
  BY <1>1
<1> QED
  BY <1>2 DEF Bad

\* Of the numbers that make up a sum, one is no larger than their mean and one
\* no smaller.
LEMMA MeanBetween ==
  ASSUME NEW c, NEW S, IsFiniteSet(S), S # {}, \A k \in S : c[k].num \in Int
  PROVE  LET n == Cardinality(S)
             total == SumOver(c, S)
         IN  /\ \E k \in S : c[k].num * n <= total
             /\ \E k \in S : c[k].num * n >= total
<1> DEFINE n == Cardinality(S)
           total == SumOver(c, S)
<1>1. n \in Nat /\ n \in Int
  BY FS_CardinalityType
<1>2. total \in Int
  BY SumInt
<1>3. ASSUME \A k \in S : ~(c[k].num * n <= total) PROVE FALSE
  <2>1. \A k \in S : n * c[k].num > total
    <3> HIDE DEF n, total
    <3> QED
      BY <1>1, <1>2, <1>3
  <2>2. n * total > total * n
    BY <1>1, <1>2, <2>1, SumWeighs
  <2> HIDE DEF n, total
  <2> QED
    BY <1>1, <1>2, <2>2
<1>4. ASSUME \A k \in S : ~(c[k].num * n >= total) PROVE FALSE
  <2> DEFINE a == 0 - n
             b == 0 - total
  <2>1. a \in Int /\ b \in Int
    BY <1>1, <1>2
  <2>2. \A k \in S : a * c[k].num > b
    <3> HIDE DEF n, total
    <3>1. ASSUME NEW k \in S PROVE a * c[k].num > b
      <4> DEFINE x == c[k].num
      <4>1. x \in Int /\ ~(x * n >= total)
        BY <1>4
      <4> HIDE DEF x
      <4>2. a * x = 0 - x * n /\ x * n \in Int
        BY <4>1, <1>1
      <4> QED
        BY <4>1, <4>2, <1>2 DEF x
    <3> QED
      BY <3>1
  <2>3. a * total > b * n
    <3> HIDE DEF a, b
    <3> QED
      BY <2>1, <2>2, SumWeighs
  <2>4. a * total = 0 - n * total /\ b * n = 0 - n * total
    <3> HIDE DEF n, total
    <3> QED
      BY <1>1, <1>2
  <2>5. n * total \in Int
    BY <1>1, <1>2
  <2> HIDE DEF n, total, a, b
  <2> QED
    BY <2>3, <2>4, <2>5
<1> QED
  BY <1>3, <1>4

-----------------------------------------------------------------------------
(* The text and the children.                                              *)

LEMMA AnswerTyped ==
  ASSUME TextRead
  PROVE  /\ \A t \in {SystemText(answer), SnmpText(answer)} :
              t \in Seq(Alphabet \cup {Plain(0)}) /\ t # <<>>
         /\ \A k \in DOMAIN answer : answer[k] \in Elements(Nat, Int)
<1>1. answer \in Seq(Alphabet \cup {Plain(0)}) /\ answer # <<>>
  <2>1. answer \in Seq(Alphabet)
    BY DEF TextRead
  <2>2. answer \in [1..Len(answer) -> Alphabet] /\ Len(answer) \in Nat
    BY <2>1, LenProperties
  <2>3. answer \in [1..Len(answer) -> Alphabet \cup {Plain(0)}]
    BY <2>2
  <2> QED
    BY <2>2, <2>3, SeqDef DEF TextRead
<1>2. NoAnswer \in Seq(Alphabet \cup {Plain(0)}) /\ NoAnswer # <<>>
  BY DEF NoAnswer
<1>3. \A k \in DOMAIN answer : answer[k] \in Elements(Nat, Int)
  <2>1. answer \in Seq(Alphabet)
    BY DEF TextRead
  <2>2. \A k \in DOMAIN answer : answer[k] \in Alphabet
    BY <2>1, LenProperties, ElementOfSeq
  <2> QED
    BY <2>2, AlphabetAssumption
<1> QED
  BY <1>1, <1>2, <1>3 DEF SystemText, SnmpText

LEMMA TextTyped ==
  ASSUME TypeOK
  PROVE  /\ Len(text) \in Nat /\ DOMAIN text = 1..Len(text)
         /\ \A k \in DOMAIN text : text[k] \in Elements(Nat, Int)
<1>1. text \in Seq(Alphabet \cup {Plain(0)})
  BY DEF TypeOK
<1>2. Plain(0) \in Elements(Nat, Int)
  BY DEF Plain, Elements, Forms
<1>3. Len(text) \in Nat /\ DOMAIN text = 1..Len(text)
  BY <1>1, LenProperties
<1>4. \A k \in DOMAIN text : text[k] \in Alphabet \cup {Plain(0)}
  BY <1>1, <1>3, ElementOfSeq
<1> QED
  BY <1>2, <1>3, <1>4, AlphabetAssumption

\* Nothing is present before the loop begins.
LEMMA NothingPresent ==
  ASSUME NEW c, \A k \in DOMAIN c : c[k] = NULL
  PROVE  SumOf(c) = 0 /\ Cardinality(Present(c)) = 0
<1>1. Present(c) = {}
  BY DEF Present
<1>2. SumOver(c, {}) = 0
  BY FS_EmptySet, SumStep
<1> QED
  BY <1>1, <1>2, FS_EmptySet DEF SumOf, SumOver

\* One more child.
LEMMA ChildStored ==
  ASSUME NEW n \in Nat, NEW c \in [1..n -> Optional(Scalars)],
         NEW x \in 1..n, c[x] = NULL, NEW w \in Scalars
  PROVE  LET d == [c EXCEPT ![x] = w]
         IN  /\ SumOf(d) = SumOf(c) + w.num
             /\ Cardinality(Present(d)) = Cardinality(Present(c)) + 1
<1> DEFINE d == [c EXCEPT ![x] = w]
           P == Present(c)
<1>1. d \in [1..n -> Optional(Scalars)] /\ d[x] = w
      /\ \A k \in 1..n : k # x => d[k] = c[k]
  BY DEF Optional
<1>2. w # NULL
  BY NullAssumption
<1> HIDE DEF d
<1>3. P \in SUBSET (1..n) /\ x \notin P
  BY DEF Present
<1>4. Present(d) = P \cup {x}
  BY <1>1, <1>2 DEF Present
<1>5. \A k \in P \cup {x} : d[k].num \in Int
  BY <1>1, <1>3, <1>4 DEF Optional, Scalars, Present
<1>6. \A k \in P : c[k].num \in Int
  BY DEF Optional, Scalars, Present
<1> HIDE DEF P
<1>7. P \cup {x} \in SUBSET (1..n)
  BY <1>3
<1>8. IsFiniteSet(P) /\ IsFiniteSet(P \cup {x}) /\ Cardinality(P) \in Nat
      /\ SumOver(c, P) \in Int
  BY <1>3, <1>5, <1>6, <1>7, PositionsSum
<1>9. Cardinality(P \cup {x}) = Cardinality(P) + 1
  BY <1>3, <1>8, FS_AddElement
<1>10. SumOver(d, P \cup {x}) = d[x].num + SumOver(d, (P \cup {x}) \ {x})
  BY <1>5, <1>8, SumRemove
<1>11. (P \cup {x}) \ {x} = P
  BY <1>3
<1>12. SumOver(d, P) = SumOver(c, P)
  <2>1. \A k \in P : d[k] = c[k]
    BY <1>1, <1>3
  <2> QED
    BY <2>1, <1>8, SumAgree
<1>13. SumOver(d, P \cup {x}) = SumOver(c, P) + w.num
  <2>1. w.num \in Int
    BY DEF Scalars
  <2>2. SumOver(d, P \cup {x}) = w.num + SumOver(c, P)
    BY <1>1, <1>10, <1>11, <1>12
  <2>3. SumOver(c, P) \in Int
    BY <1>8
  <2> QED
    BY ONLY <2>1, <2>2, <2>3
<1>14. SumOf(d) = SumOver(d, Present(d)) /\ SumOf(c) = SumOver(c, Present(c))
  BY DEF SumOf, SumOver
<1> QED
  BY <1>4, <1>9, <1>13, <1>14 DEF d, P

-----------------------------------------------------------------------------
(* The invariant.                                                          *)

LEMMA InitInv ==
  ASSUME Init
  PROVE  ParserInv
<1>1. text = <<>> /\ children = <<>> /\ count = 0 /\ sum = 0 /\ seen = 0 /\ result = NULL
  BY DEF Init
<1>2. DOMAIN children = {} /\ DOMAIN text = {} /\ Len(text) = 0
  BY <1>1
<1>3. TypeOK
  <2>1. text \in Seq(Alphabet \cup {Plain(0)})
    BY <1>1
  <2> QED
    BY <1>1, <1>2, <2>1 DEF TypeOK
<1>4. answer \in Seq(Alphabet) \ {<<>>}
  <2>1. PICK n \in 0..MaxLength : answer \in [1..n -> Alphabet]
    BY DEF Init, BoundedSeq, SeqOf
  <2>2. n \in Nat
    BY LengthAssumption
  <2>3. answer \in Seq(Alphabet)
    BY <2>1, <2>2, SeqDef
  <2> QED
    BY <2>3 DEF Init
<1>5. TextRead
  BY <1>1, <1>4 DEF TextRead, Init
<1>6. ParsedSoFar
  BY <1>1, <1>2 DEF ParsedSoFar
<1>7. SummedSoFar
  BY <1>1, <1>2, NothingPresent DEF SummedSoFar
<1> QED
  BY <1>1, <1>3, <1>5, <1>6, <1>7 DEF ParserInv, ResultComplete

\* The array of children is allocated for the text, all of them missing.
LEMMA ReadStep ==
  ASSUME ParserInv, Read
  PROVE  ParserInv'
<1>1. /\ text = <<>> /\ text' \in {SystemText(answer), SnmpText(answer)}
      /\ children' = [k \in DOMAIN text' |-> NULL]
      /\ answer' = answer /\ stamped' = stamped /\ count' = count
      /\ sum' = sum /\ seen' = seen /\ result' = result /\ splitop' = splitop
  BY DEF Read, config
<1>2. text' \in Seq(Alphabet \cup {Plain(0)}) /\ text' # <<>>
  BY <1>1, AnswerTyped DEF ParserInv
<1>3. Len(text') \in Nat /\ DOMAIN text' = 1..Len(text')
  BY <1>2, LenProperties
<1>4. count = 0 /\ seen = 0 /\ DOMAIN children = {}
  BY <1>1 DEF ParserInv, TypeOK
<1>5. \A k \in DOMAIN children' : children'[k] = NULL
  BY <1>1
<1>6. sum = 0
  BY <1>4, NothingPresent DEF ParserInv, SummedSoFar
<1>7. TypeOK'
  BY <1>1, <1>2, <1>3, <1>4, <1>6 DEF TypeOK, Optional
<1>8. TextRead'
  <2>1. SystemText(answer)' = SystemText(answer) /\ SnmpText(answer)' = SnmpText(answer)
    BY <1>1 DEF SystemText, SnmpText
  <2> QED
    BY <1>1, <2>1 DEF ParserInv, TextRead
<1>9. ParsedSoFar'
  <2>1. \A k \in DOMAIN text' : ~(k <= count')
    BY <1>1, <1>3, <1>4
  <2> QED
    BY <1>1, <2>1 DEF ParsedSoFar
<1>10. SummedSoFar'
  <2>1. SumOf(children') = 0 /\ Cardinality(Present(children')) = 0
    BY <1>5, NothingPresent
  <2>2. SumOf(children)' = SumOf(children') /\ Present(children)' = Present(children')
    OBVIOUS
  <2> QED
    BY <1>1, <1>4, <1>6, <2>1, <2>2 DEF SummedSoFar
<1>11. ResultComplete'
  BY <1>1 DEF ParserInv, ResultComplete
<1> QED
  BY <1>7, <1>8, <1>9, <1>10, <1>11 DEF ParserInv

\* In the loop only the position and what it stores change.
LEMMA LoopStep ==
  ASSUME ParserInv, MoreElements, count' = count + 1,
         answer' = answer, stamped' = stamped, text' = text, result' = result,
         LET w == ChildOf(text, count + 1, stamped, Now)
         IN  \/ w = NULL /\ children' = children /\ sum' = sum /\ seen' = seen
             \/ /\ w \in Scalars
                /\ children' = [children EXCEPT ![count + 1] = w]
                /\ sum' = sum + w.num /\ seen' = seen + 1
  PROVE  ParserInv'
<1> DEFINE w == ChildOf(text, count + 1, stamped, Now)
           n == Len(text)
           x == count + 1
           upto(p) == [k \in DOMAIN text |->
                         IF k <= p THEN ChildOf(text, k, stamped, Now) ELSE NULL]
<1>1. n \in Nat /\ DOMAIN text = 1..n /\ DOMAIN children = 1..n
  BY TextTyped DEF ParserInv, TypeOK
<1>2. count \in Nat /\ x \in 1..n
  <2>1. count \in 0..n /\ count < n
    BY DEF ParserInv, TypeOK, MoreElements
  <2> QED
    BY <1>1, <2>1
<1>3. result = NULL
  <2>1. count < n
    BY DEF MoreElements
  <2>2. result # NULL => count = n
    BY DEF ParserInv, ResultComplete
  <2> HIDE DEF n
  <2>3. count # n
    BY <1>1, <1>2, <2>1
  <2> QED
    BY <2>2, <2>3
<1>4. children = upto(count)
  BY DEF ParserInv, ParsedSoFar
<1>5. children \in [1..n -> Optional(Scalars)] /\ children[x] = NULL
  <2>1. \A k \in 1..n : children[k] \in Optional(Scalars)
    BY <1>1 DEF ParserInv, TypeOK
  <2>2. children = [k \in 1..n |-> children[k]]
    BY <1>1, <1>4
  <2>3. children[x] = NULL
    BY <1>1, <1>2, <1>4
  <2> QED
    BY <2>1, <2>2, <2>3
<1>6. children' \in [1..n -> Optional(Scalars)]
      /\ children'[x] = w /\ \A k \in 1..n : k # x => children'[k] = children[k]
  <2> HIDE DEF w, n, x
  <2>1. CASE w = NULL /\ children' = children
    BY <1>2, <1>5, <2>1
  <2>2. CASE w \in Scalars /\ children' = [children EXCEPT ![x] = w]
    BY <1>2, <1>5, <2>2 DEF Optional
  <2> QED
    BY <2>1, <2>2 DEF w, x
<1>7. children' = upto(count + 1)
  <2>1. \A k \in 1..n :
          children'[k] = IF k <= count + 1 THEN ChildOf(text, k, stamped, Now) ELSE NULL
    <3> SUFFICES ASSUME NEW k \in 1..n
                 PROVE  children'[k] = IF k <= count + 1
                                       THEN ChildOf(text, k, stamped, Now) ELSE NULL
      OBVIOUS
    <3>1. children[k] = IF k <= count THEN ChildOf(text, k, stamped, Now) ELSE NULL
      BY <1>1, <1>4
    <3>2. CASE k = count + 1
      BY <3>2, <1>2, <1>6
    <3>3. CASE k # count + 1
      <4>1. k <= count + 1 <=> k <= count
        BY <3>3, <1>1, <1>2
      <4>2. children'[k] = children[k]
        BY <3>3, <1>6
      <4> QED
        BY <3>1, <4>1, <4>2
    <3> QED
      BY <3>2, <3>3
  <2>2. children' = [k \in 1..n |-> children'[k]]
    BY <1>6
  <2> QED
    BY <1>1, <2>1, <2>2
<1>8. /\ sum' = SumOf(children') /\ seen' = Cardinality(Present(children'))
      /\ sum' \in Int /\ seen' \in 0..(count + 1)
  <2>1. /\ sum = SumOf(children) /\ seen = Cardinality(Present(children))
        /\ sum \in Int /\ seen \in 0..count
    BY DEF ParserInv, SummedSoFar, TypeOK
  <2> HIDE DEF w, n, x
  <2>2. CASE w = NULL /\ children' = children /\ sum' = sum /\ seen' = seen
    BY <2>1, <2>2, <1>2
  <2>3. CASE /\ w \in Scalars /\ children' = [children EXCEPT ![x] = w]
             /\ sum' = sum + w.num /\ seen' = seen + 1
    <3>1. /\ SumOf(children') = SumOf(children) + w.num
          /\ Cardinality(Present(children')) = Cardinality(Present(children)) + 1
      BY <1>1, <1>2, <1>5, <2>3, ChildStored
    <3>2. w.num \in Int
      BY <2>3 DEF Scalars
    <3> QED
      BY <2>1, <2>3, <3>1, <3>2, <1>2
  <2> QED
    BY <2>2, <2>3 DEF w, x
<1>9. TypeOK'
  <2>1. count' \in 0..Len(text')
    BY <1>1, <1>2
  <2>2. DOMAIN children' = DOMAIN text'
    BY <1>1, <1>6
  <2>3. \A k \in DOMAIN children' : children'[k] \in Optional(Scalars)
    BY <1>6
  <2>4. text' \in Seq(Alphabet \cup {Plain(0)})
    BY DEF ParserInv, TypeOK
  <2> QED
    BY <1>8, <2>1, <2>2, <2>3, <2>4 DEF TypeOK
<1>10. TextRead'
  BY DEF ParserInv, TextRead, SystemText, SnmpText
<1>11. ParsedSoFar'
  BY <1>7 DEF ParsedSoFar
<1>12. SummedSoFar'
  BY <1>8 DEF SummedSoFar
<1>13. ResultComplete'
  BY <1>3 DEF ResultComplete
<1> QED
  BY <1>9, <1>10, <1>11, <1>12, <1>13 DEF ParserInv

LEMMA SkipStep ==
  ASSUME ParserInv, SkipNotSeen \/ SkipInvalid
  PROVE  ParserInv'
<1>1. /\ MoreElements /\ count' = count + 1
      /\ answer' = answer /\ stamped' = stamped /\ text' = text /\ result' = result
      /\ children' = children /\ sum' = sum /\ seen' = seen
  BY DEF SkipNotSeen, SkipInvalid, config
<1>2. ChildOf(text, count + 1, stamped, Now) = NULL
  BY DEF SkipNotSeen, SkipInvalid, ChildOf
<1> QED
  BY <1>1, <1>2, LoopStep

LEMMA StoreStep ==
  ASSUME ParserInv, Store
  PROVE  ParserInv'
<1> DEFINE e == text[count + 1]
           t == ExtractedTime(e, stamped)
           num == ExtractedNumber(e, stamped)
           w == ValueAt(IF t = 0 THEN Now ELSE t, num)
<1>1. /\ MoreElements /\ count' = count + 1
      /\ answer' = answer /\ stamped' = stamped /\ text' = text /\ result' = result
      /\ children' = [children EXCEPT ![count + 1] = w]
      /\ sum' = sum + num /\ seen' = seen + 1
  BY DEF Store, config
<1>2. ChildOf(text, count + 1, stamped, Now) = w
  BY DEF Store, ChildOf
<1>3. e \in Elements(Nat, Int)
  <2>1. Len(text) \in Nat /\ DOMAIN text = 1..Len(text)
    BY TextTyped DEF ParserInv
  <2>2. count \in 0..Len(text) /\ count < Len(text)
    BY <1>1 DEF ParserInv, TypeOK, MoreElements
  <2>3. count + 1 \in DOMAIN text
    BY <2>1, <2>2
  <2> QED
    BY <2>3, TextTyped DEF ParserInv
<1>4. t \in Nat /\ num \in Int
  <2>1. e.ts \in Nat /\ e.num \in Int
    BY <1>3 DEF Elements
  <2> HIDE DEF e
  <2> QED
    BY <2>1 DEF ExtractedTime, ExtractedNumber
<1>5. w \in Scalars /\ w.num = num
  <2> HIDE DEF t, num
  <2> QED
    BY <1>4, NowAssumption DEF ValueAt, Scalars
<1> HIDE DEF w, num
<1> QED
  BY <1>1, <1>2, <1>5, LoopStep

LEMMA FinishStep ==
  ASSUME ParserInv, Finish
  PROVE  ParserInv'
<1>1. /\ text # <<>> /\ ~MoreElements
      /\ result' = ArrayOf(children, SplitValue(splitop, sum, seen, Now))
      /\ answer' = answer /\ stamped' = stamped /\ splitop' = splitop /\ text' = text
      /\ count' = count /\ children' = children /\ sum' = sum /\ seen' = seen
  BY DEF Finish, config
<1>2. count = Len(text)
  <2>1. Len(text) \in Nat
    BY TextTyped DEF ParserInv
  <2>2. count \in 0..Len(text) /\ ~(count < Len(text))
    BY <1>1 DEF ParserInv, TypeOK, MoreElements
  <2> QED
    BY <2>1, <2>2
<1>3. TypeOK' /\ TextRead' /\ ParsedSoFar' /\ SummedSoFar'
  BY <1>1 DEF ParserInv, TypeOK, TextRead, ParsedSoFar, SummedSoFar
<1>4. ResultComplete'
  BY <1>1, <1>2 DEF ResultComplete
<1> QED
  BY <1>3, <1>4 DEF ParserInv

LEMMA StepInv ==
  ASSUME ParserInv, [Next]_vars
  PROVE  ParserInv'
<1>1. CASE Next
  BY <1>1, ReadStep, SkipStep, StoreStep, FinishStep DEF Next
<1>2. CASE UNCHANGED vars
  BY <1>2 DEF vars, config, ParserInv, TypeOK, TextRead, ParsedSoFar, SummedSoFar,
              ResultComplete
<1> QED
  BY <1>1, <1>2

-----------------------------------------------------------------------------
(* The theorems.                                                           *)

\* Every turn of the loop keeps the children, the sum and the count of the
\* elements gone through (process_vector_monitor, rb_sensor_monitor.c:980-1060).
THEOREM ParserInvariant == Spec => []ParserInv
BY InitInv, StepInv, PTL DEF Spec

\* The position stays inside the text and the array of children has the size
\* of the text.
THEOREM TypeCorrect == Spec => []TypeOK
<1>1. ParserInv => TypeOK
  BY DEF ParserInv
<1> QED
  BY <1>1, ParserInvariant, PTL

\* The loop, with its running sum, its count and its two "continue", returns
\* the array defined by position, for texts of any length.
THEOREM LoopComputesByPosition == Spec => []ParsedByPosition
<1>1. ParserInv => ParsedByPosition
  <2> SUFFICES ASSUME ParserInv, result # NULL
               PROVE  result = VectorValue(text, stamped, splitop, Now)
    BY DEF ParsedByPosition
  <2> DEFINE whole == [k \in DOMAIN text |-> ChildOf(text, k, stamped, Now)]
  <2>1. count = Len(text)
        /\ result = ArrayOf(children, SplitValue(splitop, sum, seen, Now))
    BY DEF ParserInv, ResultComplete
  <2>2. children = whole
    <3>1. \A k \in DOMAIN text : k <= count
      BY <2>1, TextTyped DEF ParserInv
    <3> QED
      BY <3>1 DEF ParserInv, ParsedSoFar
  <2>3. sum = SumOf(whole) /\ seen = Cardinality(Present(whole))
    <3> HIDE DEF whole
    <3> QED
      BY <2>2 DEF ParserInv, SummedSoFar
  <2>4. VectorValue(text, stamped, splitop, Now)
          = ArrayOf(whole, SplitValue(splitop, SumOf(whole),
                                      Cardinality(Present(whole)), Now))
    BY DEF VectorValue
  <2> HIDE DEF whole
  <2> QED
    BY <2>1, <2>2, <2>3, <2>4
<1> QED
  BY <1>1, ParserInvariant, PTL

\* A mean lies among the elements it was made of, for any number of elements
\* and however many of them were left out.
THEOREM MeanIsAMean == Spec => []MeanWithinElements
<1>1. ParserInv => MeanWithinElements
  <2> SUFFICES ASSUME ParserInv, result # NULL, splitop = "mean", result.split # NULL
               PROVE  LET nums == {result.children[k].num : k \in Present(result.children)}
                      IN  /\ \E n \in nums : n * result.split.over <= result.split.num
                          /\ \E n \in nums : n * result.split.over >= result.split.num
    BY DEF MeanWithinElements
  <2> DEFINE P == Present(children)
  <2>1. result = ArrayOf(children, SplitValue(splitop, sum, seen, Now))
    BY DEF ParserInv, ResultComplete
  <2>2. result.children = children /\ result.split = SplitValue("mean", sum, seen, Now)
    BY <2>1 DEF ArrayOf
  <2>3. seen # 0 /\ result.split.num = sum /\ result.split.over = seen
    BY <2>2 DEF SplitValue
  <2>4. sum = SumOver(children, P) /\ seen = Cardinality(P)
    BY DEF ParserInv, SummedSoFar, SumOf, SumOver
  <2>5. /\ P \in SUBSET (1..Len(text)) /\ Len(text) \in Nat
        /\ \A k \in P : children[k].num \in Int
    BY TextTyped DEF ParserInv, TypeOK, Present, Optional, Scalars
  <2> HIDE DEF P
  <2>6. IsFiniteSet(P) /\ P # {}
    BY <2>3, <2>4, <2>5, PositionsSum
  <2>7. /\ \E k \in P : children[k].num * seen <= sum
        /\ \E k \in P : children[k].num * seen >= sum
    BY <2>4, <2>5, <2>6, MeanBetween
  <2> DEFINE nums == {children[k].num : k \in P}
  <2>8. /\ \E n \in nums : n * seen <= sum
        /\ \E n \in nums : n * seen >= sum
    <3>1. \A k \in P : children[k].num \in nums
      OBVIOUS
    <3> HIDE DEF nums
    <3> QED
      BY <2>7, <3>1
  <2>9. {result.children[k].num : k \in Present(result.children)} = nums
    BY <2>2 DEF P
  <2> HIDE DEF nums
  <2> QED
    BY <2>3, <2>8, <2>9
<1> QED
  BY <1>1, ParserInvariant, PTL

\* Elements with a timestamp and a number keep their position and both, when
\* the answer begins with a number.
THEOREM StampedElementsStay == Spec => []StampedElementsKept
<1>1. ParserInv => StampedElementsKept
  <2> SUFFICES ASSUME ParserInv, result # NULL, stamped, StartsWithNumber(answer[1]),
                      NEW k \in DOMAIN answer,
                      answer[k].sep, answer[k].form = "number", answer[k].ts # 0
               PROVE  result.children[k] = ValueAt(answer[k].ts, answer[k].num)
    BY DEF StampedElementsKept
  <2>1. /\ count = Len(text) /\ text # <<>>
        /\ result = ArrayOf(children, SplitValue(splitop, sum, seen, Now))
    BY DEF ParserInv, ResultComplete
  <2>2. text = answer
    <3>1. SystemText(answer) = answer
      BY DEF SystemText
    <3>2. answer # <<BlankElement>>
      BY DEF StartsWithNumber, BlankElement
    <3> QED
      BY <2>1, <3>1, <3>2 DEF ParserInv, TextRead, SnmpText
  <2>3. result.children = children
    BY <2>1 DEF ArrayOf
  <2>4. k \in DOMAIN text /\ k <= count
    BY <2>1, <2>2, TextTyped DEF ParserInv
  <2>5. children[k] = ChildOf(text, k, stamped, Now)
    BY <2>4 DEF ParserInv, ParsedSoFar
  <2>6. ~NotSeen(text, k) /\ CanExtract(text[k], stamped)
    BY <2>2 DEF NotSeen, IsBlank, CanExtract
  <2> QED
    BY <2>2, <2>3, <2>5, <2>6
    DEF ChildOf, ExtractedTime, ExtractedNumber, ReadsTime
<1> QED
  BY <1>1, ParserInvariant, PTL

-----------------------------------------------------------------------------
(* Answers that begin with a blank.                                        *)

\* value_buf is made by the function of the monitor's kind.
TextOfSource ==
  /\ source \in {"system", "oid"}
  /\ text # <<>> => text = IF source = "system" THEN SystemText(answer)
                           ELSE SnmpText(answer)

LEMMA TextStep ==
  ASSUME TextOfSource, [Next]_vars
  PROVE  TextOfSource'
<1>1. CASE Read
  BY <1>1 DEF Read, TextOfSource, config
<1>2. CASE SkipNotSeen \/ SkipInvalid \/ Store \/ Finish \/ UNCHANGED vars
  BY <1>2 DEF SkipNotSeen, SkipInvalid, Store, Finish, vars, config, TextOfSource
<1> QED
  BY <1>1, <1>2 DEF Next

\* "0" is no element with a timestamp.
LEMMA NothingStamped ==
  ASSUME ParserInv, result # NULL, stamped, text = NoAnswer
  PROVE  result.children = <<NULL>>
<1>1. Len(text) = 1 /\ DOMAIN text = {1} /\ text[1] = Plain(0)
  BY DEF NoAnswer
<1>2. /\ count = Len(text)
      /\ result.children = children
  BY DEF ParserInv, ResultComplete, ArrayOf
<1>3. ~CanExtract(text[1], stamped)
  BY <1>1 DEF CanExtract, Plain
<1>4. children = [k \in {1} |-> NULL]
  BY <1>1, <1>2, <1>3 DEF ParserInv, ParsedSoFar, ChildOf
<1> QED
  BY <1>2, <1>4

LEMMA BlankStart ==
  ASSUME ParserInv, TextOfSource
  PROVE  BlankStartKeptOrReplaced
<1> SUFFICES ASSUME result # NULL, stamped, IsBlank(answer[1])
             PROVE  IF source = "oid"
                    THEN \A k \in DOMAIN answer :
                           (answer[k].sep /\ answer[k].form = "number" /\ answer[k].ts # 0) =>
                             result.children[k] = ValueAt(answer[k].ts, answer[k].num)
                    ELSE result.children = <<NULL>>
  BY DEF BlankStartKeptOrReplaced
<1>1. /\ count = Len(text) /\ text # <<>>
      /\ result.children = children
  BY DEF ParserInv, ResultComplete, ArrayOf
<1>2. CASE source = "system"
  <2>1. ~StartsWithNumber(answer[1])
    BY DEF IsBlank, StartsWithNumber
  <2>2. text = NoAnswer
    BY <1>1, <1>2, <2>1 DEF TextOfSource, SystemText
  <2> QED
    BY <1>2, <2>2, NothingStamped
<1>3. CASE source = "oid"
  <2> SUFFICES ASSUME NEW k \in DOMAIN answer,
                      answer[k].sep, answer[k].form = "number", answer[k].ts # 0
               PROVE  result.children[k] = ValueAt(answer[k].ts, answer[k].num)
    BY <1>3
  <2>1. answer # <<BlankElement>>
    BY DEF BlankElement
  <2>2. text = answer
    BY <1>1, <1>3, <2>1 DEF TextOfSource, SnmpText
  <2>3. k \in DOMAIN text /\ k <= count
    BY <1>1, <2>2, TextTyped DEF ParserInv
  <2>4. children[k] = ChildOf(text, k, stamped, Now)
    BY <2>3 DEF ParserInv, ParsedSoFar
  <2>5. ~NotSeen(text, k) /\ CanExtract(text[k], stamped)
    BY <2>2 DEF NotSeen, IsBlank, CanExtract
  <2> QED
    BY <1>1, <2>2, <2>4, <2>5
    DEF ChildOf, ExtractedTime, ExtractedNumber, ReadsTime
<1> QED
  BY <1>2, <1>3 DEF TextOfSource

\* tests/0008-monitors_split_timestamp.c expects the elements after a leading
\* blank.  SNMP keeps every one of them, at its instance and for answers of any
\* length; a command's answer is replaced as a whole, whatever else it holds
\* (system_solve_response, snmp_solve_response).
THEOREM BlankStartOnlyOfCommands == Spec => []BlankStartKeptOrReplaced
<1>1. Init => TextOfSource
  BY DEF Init, TextOfSource
<1> QED
  BY <1>1, TextStep, BlankStart, ParserInvariant, PTL DEF Spec

=============================================================================
