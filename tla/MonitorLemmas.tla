---------------------------- MODULE MonitorLemmas -----------------------------
(***************************************************************************)
(* Lemmas on the operators MonitorDeps, SensorSetup, VectorReading and     *)
(* MonitorValues are built from: the first match in an array of monitors,  *)
(* and the sum of the elements of a vector.                                *)
(***************************************************************************)
EXTENDS MonitorDeps, FiniteSetTheorems, TLAPS

-----------------------------------------------------------------------------
(* The first match.                                                        *)

\* What the well-founded order on the naturals says of the two.
LEMMA NotAfter ==
  ASSUME NEW x \in Nat, NEW y \in Nat, ~ (<<y, x>> \in OpToRel(<, Nat))
  PROVE  x <= y
BY DEF OpToRel

LEMMA FirstPosition ==
  ASSUME NEW S \in SUBSET Nat, S # {}
  PROVE  Min(S) \in S /\ \A y \in S : Min(S) <= y
<1>1. PICK x \in S : \A y \in S : ~ (<<y, x>> \in OpToRel(<, Nat))
  BY NatLessThanWellFounded, WFMin
<1>2. \A y \in S : x <= y
  BY <1>1, NotAfter
<1> QED
  BY <1>2 DEF Min

\* find_monitor_pos finds a monitor of that name and group if there is one.
LEMMA MonitorFound ==
  ASSUME NEW monitors, DOMAIN monitors \subseteq Nat \ {0}, NEW name, NEW group
  PROVE  LET i == FindMonitorPos(monitors, name, group)
         IN  /\ i # NotFound => /\ i \in DOMAIN monitors
                                /\ monitors[i].name = name
                                /\ monitors[i].group = group
             /\ i = NotFound => \A j \in DOMAIN monitors :
                                  ~(monitors[j].name = name /\ monitors[j].group = group)
<1> DEFINE found == Matching(monitors, name, group)
<1>1. found \in SUBSET Nat /\ 0 \notin found
  BY DEF Matching
<1>2. CASE found = {}
  BY <1>2 DEF FindMonitorPos, Matching
<1>3. CASE found # {}
  <2>1. Min(found) \in found
    <3> HIDE DEF found
    <3> QED
      BY <1>1, <1>3, FirstPosition
  <2>2. FindMonitorPos(monitors, name, group) = Min(found)
    BY <1>3 DEF FindMonitorPos
  <2> QED
    BY <1>1, <2>1, <2>2 DEF Matching, NotFound
<1> QED
  BY <1>2, <1>3

\* The dependencies of an operation are positions of monitors of its group, one
\* for every variable; there are none only if some variable is not found.
LEMMA DependenciesFound ==
  ASSUME NEW monitors, DOMAIN monitors \subseteq Nat \ {0}, NEW i
  PROVE  LET vars == monitors[i].vars
             d == MonitorDependencies(monitors, i)
         IN  /\ d # NoDependencies =>
                  /\ DOMAIN d = DOMAIN vars
                  /\ \A v \in DOMAIN vars :
                       /\ d[v] \in DOMAIN monitors
                       /\ monitors[d[v]].name = vars[v]
                       /\ monitors[d[v]].group = monitors[i].group
             /\ (/\ DOMAIN vars # {}
                 /\ \A v \in DOMAIN vars : \E j \in DOMAIN monitors :
                      /\ monitors[j].name = vars[v]
                      /\ monitors[j].group = monitors[i].group)
                => d # NoDependencies
<1> DEFINE names == monitors[i].vars
           group == monitors[i].group
           at == [v \in DOMAIN names |-> FindMonitorPos(monitors, names[v], group)]
<1>1. MonitorDependencies(monitors, i)
        = IF \E v \in DOMAIN names : at[v] = NotFound THEN NoDependencies ELSE at
  BY DEF MonitorDependencies
<1>2. \A v \in DOMAIN names : at[v] # NotFound =>
        /\ at[v] \in DOMAIN monitors
        /\ monitors[at[v]].name = names[v]
        /\ monitors[at[v]].group = group
  BY MonitorFound
<1>3. \A v \in DOMAIN names : at[v] = NotFound =>
        \A j \in DOMAIN monitors :
          ~(monitors[j].name = names[v] /\ monitors[j].group = group)
  BY MonitorFound
<1>4. DOMAIN at = DOMAIN names
  OBVIOUS
<1>5. DOMAIN names # {} => at # NoDependencies
  BY <1>4 DEF NoDependencies
<1> HIDE DEF at
<1> QED
  BY <1>1, <1>2, <1>3, <1>4, <1>5

-----------------------------------------------------------------------------
(* Induction on finite sets, by way of a smallest counterexample.          *)

\* Among some subsets of a finite set, one has no smaller one among them.
LEMMA SmallestSubset ==
  ASSUME NEW S, IsFiniteSet(S), NEW Bad \in SUBSET (SUBSET S), Bad # {}
  PROVE  \E T \in Bad : \A U \in SUBSET T : U # T => U \notin Bad
<1>1. Bad \subseteq FiniteSubsetsOf(S)
  BY FS_FiniteSubsetsOfFinite
<1>2. IsWellFoundedOn(StrictSubsetOrdering(S), FiniteSubsetsOf(S))
  BY FS_StrictSubsetOrderingWellFounded
<1>3. PICK T \in Bad : \A U \in Bad : ~ (<<U, T>> \in StrictSubsetOrdering(S))
  BY <1>1, <1>2, WFMin
<1>4. ASSUME NEW U \in SUBSET T, U # T, U \in Bad PROVE FALSE
  <2>1. <<U, T>> \in StrictSubsetOrdering(S)
    BY <1>4 DEF StrictSubsetOrdering
  <2> QED
    BY <2>1, <1>3, <1>4
<1> QED
  BY <1>4

-----------------------------------------------------------------------------
(* The sum of the elements of a vector.                                    *)

\* The sum over some positions, as MapThenSumSet takes it: one position after
\* the other, in the order of CHOOSE.
SumOver(c, S) == MapThenSumSet(LAMBDA k : c[k].num, S)

FirstOf(s) == CHOOSE x \in s : TRUE
IsSum(g, c, S) ==
  g = [s \in SUBSET S |->
         IF s = {} THEN 0 ELSE c[FirstOf(s)].num + g[s \ {FirstOf(s)}]]
FoldOf(c, S) == CHOOSE g : IsSum(g, c, S)

\* The fold is the function that its definition chooses.
LEMMA SumIsFunction ==
  ASSUME NEW c, NEW S
  PROVE  SumOver(c, S) = FoldOf(c, S)[S]
BY DEF SumOver, MapThenSumSet, MapThenFoldSet, FoldOf, IsSum, FirstOf

\* What the fold takes first is a member.
LEMMA FirstMember ==
  ASSUME NEW s, s # {}
  PROVE  FirstOf(s) \in s
BY DEF FirstOf

\* There is one such function at most.
LEMMA SumUnique ==
  ASSUME NEW c, NEW S, IsFiniteSet(S), NEW g, NEW h, IsSum(g, c, S), IsSum(h, c, S)
  PROVE  g = h
<1> DEFINE Bad == {s \in SUBSET S : g[s] # h[s]}
<1>1. ASSUME Bad # {} PROVE FALSE
  <2>1. PICK T \in Bad : \A U \in SUBSET T : U # T => U \notin Bad
    <3>1. Bad \in SUBSET (SUBSET S)
      OBVIOUS
    <3> HIDE DEF Bad
    <3> QED
      BY <3>1, <1>1, SmallestSubset
  <2>2. CASE T = {}
    BY <2>2 DEF IsSum
  <2>3. CASE T # {}
    <3> DEFINE U == T \ {FirstOf(T)}
    <3>1. U \in SUBSET T /\ U # T
      BY <2>3, FirstMember
    <3>2. g[U] = h[U]
      BY <3>1, <2>1
    <3> QED
      BY <3>2, <2>3 DEF IsSum
  <2> QED
    BY <2>2, <2>3
<1> QED
  BY <1>1 DEF IsSum

\* Restricted to a subset, it is the function of that subset.
LEMMA SumRestricts ==
  ASSUME NEW c, NEW S, NEW g, IsSum(g, c, S), NEW T \in SUBSET S
  PROVE  IsSum([s \in SUBSET T |-> g[s]], c, T)
<1> DEFINE h == [s \in SUBSET T |-> g[s]]
<1>1. ASSUME NEW s \in SUBSET T
      PROVE  h[s] = IF s = {} THEN 0 ELSE c[FirstOf(s)].num + h[s \ {FirstOf(s)}]
  <2>1. s \in SUBSET S
    OBVIOUS
  <2>2. g[s] = IF s = {} THEN 0 ELSE c[FirstOf(s)].num + g[s \ {FirstOf(s)}]
    BY <2>1 DEF IsSum
  <2> QED
    BY <2>2
<1> QED
  BY <1>1 DEF IsSum

\* There is one on every finite set.
LEMMA SumExists ==
  ASSUME NEW c, NEW S, IsFiniteSet(S)
  PROVE  IsSum(FoldOf(c, S), c, S)
<1> DEFINE Bad == {T \in SUBSET S : ~ \E g : IsSum(g, c, T)}
<1>1. ASSUME Bad # {} PROVE FALSE
  <2>1. PICK T \in Bad : \A U \in SUBSET T : U # T => U \notin Bad
    <3>1. Bad \in SUBSET (SUBSET S)
      OBVIOUS
    <3> HIDE DEF Bad
    <3> QED
      BY <3>1, <1>1, SmallestSubset
  <2>2. ASSUME NEW U \in SUBSET T, U # T PROVE IsSum(FoldOf(c, U), c, U)
    BY <2>1, <2>2 DEF FoldOf
  <2> DEFINE G(U) == FoldOf(c, U)[U]
             h == [s \in SUBSET T |->
                     IF s = {} THEN 0
                     ELSE c[FirstOf(s)].num + G(s \ {FirstOf(s)})]
  <2>3. ASSUME NEW U \in SUBSET T, U # T PROVE h[U] = G(U)
    <3>1. IsSum(FoldOf(c, U), c, U)
      BY <2>2, <2>3
    <3>2. CASE U = {}
      BY <3>1, <3>2 DEF IsSum
    <3>3. CASE U # {}
      <4> DEFINE V == U \ {FirstOf(U)}
      <4>1. V \in SUBSET U /\ V # U /\ V \in SUBSET T /\ V # T
        BY <3>3, <2>3, FirstMember
      <4>2. IsSum(FoldOf(c, V), c, V)
        BY <4>1, <2>2
      <4>3. IsSum([s \in SUBSET V |-> FoldOf(c, U)[s]], c, V)
        BY <4>1, <3>1, SumRestricts
      <4>4. IsFiniteSet(V)
        BY <4>1, FS_Subset
      <4>5. FoldOf(c, V) = [s \in SUBSET V |-> FoldOf(c, U)[s]]
        BY <4>2, <4>3, <4>4, SumUnique
      <4>6. FoldOf(c, U)[V] = G(V)
        BY <4>5
      <4>7. G(U) = c[FirstOf(U)].num + FoldOf(c, U)[V]
        BY <3>1, <3>3 DEF IsSum
      <4> QED
        BY <4>6, <4>7, <3>3
    <3> QED
      BY <3>2, <3>3
  <2>4. ASSUME NEW s \in SUBSET T
        PROVE  h[s] = IF s = {} THEN 0 ELSE c[FirstOf(s)].num + h[s \ {FirstOf(s)}]
    <3>1. CASE s = {}
      BY <3>1
    <3>2. CASE s # {}
      <4>1. s \ {FirstOf(s)} \in SUBSET T /\ s \ {FirstOf(s)} # T
        BY <3>2, FirstMember
      <4>2. h[s \ {FirstOf(s)}] = G(s \ {FirstOf(s)})
        BY <4>1, <2>3
      <4> QED
        BY <4>2, <3>2
    <3> QED
      BY <3>1, <3>2
  <2>5. IsSum(h, c, T)
    <3>1. h = [s \in SUBSET T |-> h[s]]
      OBVIOUS
    <3> HIDE DEF h
    <3> QED
      BY <2>4, <3>1 DEF IsSum
  <2> QED
    BY <2>5, <2>1
<1>2. \E g : IsSum(g, c, S)
  BY <1>1
<1> QED
  BY <1>2 DEF FoldOf

\* The sum over no position, and over some.
LEMMA SumStep ==
  ASSUME NEW c, NEW S, IsFiniteSet(S)
  PROVE  SumOver(c, S) = IF S = {} THEN 0
                         ELSE c[FirstOf(S)].num + SumOver(c, S \ {FirstOf(S)})
<1> DEFINE f == FoldOf(c, S)
<1>1. IsSum(f, c, S)
  BY SumExists
<1>2. f[S] = IF S = {} THEN 0 ELSE c[FirstOf(S)].num + f[S \ {FirstOf(S)}]
  BY <1>1 DEF IsSum
<1>3. CASE S # {}
  <2> DEFINE V == S \ {FirstOf(S)}
  <2>1. V \in SUBSET S
    OBVIOUS
  <2>2. IsFiniteSet(V)
    BY <2>1, FS_Subset
  <2>3. FoldOf(c, V) = [s \in SUBSET V |-> f[s]]
    <3>1. IsSum([s \in SUBSET V |-> f[s]], c, V)
      BY <2>1, <1>1, SumRestricts
    <3>2. IsSum(FoldOf(c, V), c, V)
      BY <2>2, SumExists
    <3> QED
      BY <2>2, <3>1, <3>2, SumUnique
  <2>4. SumOver(c, V) = f[V]
    BY <2>3, SumIsFunction
  <2> QED
    BY <1>2, <1>3, <2>4, SumIsFunction
<1> QED
  BY <1>2, <1>3, SumIsFunction

\* A sum of integers is an integer.
LEMMA SumInt ==
  ASSUME NEW c, NEW S, IsFiniteSet(S), \A k \in S : c[k].num \in Int
  PROVE  SumOver(c, S) \in Int
<1> DEFINE Bad == {s \in SUBSET S : SumOver(c, s) \notin Int}
<1>1. ASSUME Bad # {} PROVE FALSE
  <2>1. PICK T \in Bad : \A U \in SUBSET T : U # T => U \notin Bad
    <3>1. Bad \in SUBSET (SUBSET S)
      OBVIOUS
    <3> HIDE DEF Bad
    <3> QED
      BY <3>1, <1>1, SmallestSubset
  <2>2. IsFiniteSet(T)
    BY FS_Subset
  <2>3. T # {}
    <3>1. T = {} => SumOver(c, T) = 0
      BY <2>2, SumStep
    <3> QED
      BY <3>1, <2>1
  <2> DEFINE U == T \ {FirstOf(T)}
  <2>4. U \in SUBSET T /\ U # T /\ FirstOf(T) \in S
    BY <2>3, FirstMember
  <2>5. SumOver(c, U) \in Int
    BY <2>4, <2>1
  <2>6. SumOver(c, T) = c[FirstOf(T)].num + SumOver(c, U)
    BY <2>2, <2>3, SumStep
  <2> QED
    BY <2>1, <2>4, <2>5, <2>6
<1> QED
  BY <1>1

\* Any position may be taken first.
LEMMA SumRemove ==
  ASSUME NEW c, NEW S, IsFiniteSet(S), \A k \in S : c[k].num \in Int, NEW x \in S
  PROVE  SumOver(c, S) = c[x].num + SumOver(c, S \ {x})
<1> DEFINE Bad == {s \in SUBSET S :
                     \E y \in s : SumOver(c, s) # c[y].num + SumOver(c, s \ {y})}
<1>1. ASSUME Bad # {} PROVE FALSE
  <2>1. PICK T \in Bad : \A U \in SUBSET T : U # T => U \notin Bad
    <3>1. Bad \in SUBSET (SUBSET S)
      OBVIOUS
    <3> HIDE DEF Bad
    <3> QED
      BY <3>1, <1>1, SmallestSubset
  <2>2. PICK y \in T : SumOver(c, T) # c[y].num + SumOver(c, T \ {y})
    BY <2>1
  <2> DEFINE z == FirstOf(T)
             W == (T \ {z}) \ {y}
  <2>3. z \in T
    BY FirstMember
  <2>4. IsFiniteSet(T)
    BY FS_Subset
  <2>5. SumOver(c, T) = c[z].num + SumOver(c, T \ {z})
    BY <2>4, <2>3, SumStep
  <2>6. y # z
    BY <2>2, <2>5
  <2>7. T \ {z} \in SUBSET S /\ T \ {z} \in SUBSET T /\ T \ {z} # T
    BY <2>3
  <2>8. T \ {y} \in SUBSET S /\ T \ {y} \in SUBSET T /\ T \ {y} # T
    OBVIOUS
  <2>9. SumOver(c, T \ {z}) = c[y].num + SumOver(c, W)
    <3>1. T \ {z} \notin Bad
      BY <2>7, <2>1
    <3>2. y \in T \ {z}
      BY <2>6
    <3> QED
      BY <3>1, <3>2, <2>7
  <2>10. SumOver(c, T \ {y}) = c[z].num + SumOver(c, W)
    <3>1. T \ {y} \notin Bad
      BY <2>8, <2>1
    <3>2. z \in T \ {y}
      BY <2>6, <2>3
    <3>3. (T \ {y}) \ {z} = W
      OBVIOUS
    <3> QED
      BY <3>1, <3>2, <3>3, <2>8
  <2>11. c[z].num \in Int /\ c[y].num \in Int
    BY <2>3
  <2>12. SumOver(c, W) \in Int
    <3>1. W \in SUBSET S
      OBVIOUS
    <3>2. IsFiniteSet(W) /\ \A k \in W : c[k].num \in Int
      BY <3>1, FS_Subset
    <3> QED
      BY <3>2, SumInt
  <2> HIDE DEF z, W
  <2> QED
    BY <2>2, <2>5, <2>9, <2>10, <2>11, <2>12
<1> QED
  BY <1>1

\* Only the elements at these positions matter.
LEMMA SumAgree ==
  ASSUME NEW c, NEW d, NEW S, IsFiniteSet(S), \A k \in S : c[k] = d[k]
  PROVE  SumOver(c, S) = SumOver(d, S)
<1> DEFINE Bad == {s \in SUBSET S : SumOver(c, s) # SumOver(d, s)}
<1>1. ASSUME Bad # {} PROVE FALSE
  <2>1. PICK T \in Bad : \A U \in SUBSET T : U # T => U \notin Bad
    <3>1. Bad \in SUBSET (SUBSET S)
      OBVIOUS
    <3> HIDE DEF Bad
    <3> QED
      BY <3>1, <1>1, SmallestSubset
  <2>2. IsFiniteSet(T)
    BY FS_Subset
  <2>3. T # {}
    BY <2>1, <2>2, SumStep
  <2> DEFINE U == T \ {FirstOf(T)}
  <2>4. U \in SUBSET T /\ U # T /\ FirstOf(T) \in S
    BY <2>3, FirstMember
  <2>5. SumOver(c, U) = SumOver(d, U)
    BY <2>4, <2>1
  <2>6. /\ SumOver(c, T) = c[FirstOf(T)].num + SumOver(c, U)
        /\ SumOver(d, T) = d[FirstOf(T)].num + SumOver(d, U)
    BY <2>2, <2>3, SumStep
  <2> QED
    BY <2>1, <2>4, <2>5, <2>6
<1> QED
  BY <1>1

\* Any positions of a vector are a finite set, with a sum.
LEMMA PositionsSum ==
  ASSUME NEW c, NEW n \in Nat, NEW S \in SUBSET (1..n), \A k \in S : c[k].num \in Int
  PROVE  /\ IsFiniteSet(S)
         /\ Cardinality(S) \in Nat
         /\ Cardinality(S) = 0 <=> S = {}
         /\ SumOver(c, S) \in Int
<1>1. IsFiniteSet(S)
  <2>1. 1 \in Int /\ n \in Int
    OBVIOUS
  <2>2. IsFiniteSet(1..n)
    BY ONLY <2>1, FS_Interval
  <2> QED
    BY <2>2, FS_Subset
<1>2. Cardinality(S) \in Nat /\ (Cardinality(S) = 0 <=> S = {})
  BY <1>1, FS_CardinalityType, FS_EmptySet
<1>3. SumOver(c, S) \in Int
  BY <1>1, SumInt
<1> QED
  BY <1>1, <1>2, <1>3

=============================================================================
