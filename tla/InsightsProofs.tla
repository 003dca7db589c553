--------------------------- MODULE InsightsProofs ---------------------------
(***************************************************************************)
(* What the insight layer promises, for every set of notes, tasks and      *)
(* caps.  The inductive invariant adds to HeldOnce that ids are no larger  *)
(* than the number of notes left, and that a learning that is not in the   *)
(* layer counts as never derived: an eviction forgets the count with the   *)
(* insight.  What is said of salience rests on its being a function of the *)
(* hits that never falls, although it is capped.                           *)
(***************************************************************************)
EXTENDS Insights, FiniteSetTheorems, SequenceTheorems, WellFoundedInduction, TLAPS

Tags == UNION {taskTags(t) : t \in Task}

Insight ==
  [id : Nat, text : Note, salience : Nat, hits : Nat \ {0}, tags : SUBSET Tags,
   ts : Nat]

TypeInv ==
  /\ insights \in SUBSET Insight /\ IsFiniteSet(insights)
  /\ clock \in Nat /\ adds \in 0..MaxAdds
  /\ derived \in [Learning -> Nat]

\* Ids count what was left: none is larger.
IdsInv == \A in \in insights : in.id <= adds

\* An insight's hits are its derivations, and what is not held has none.
CountInv ==
  /\ \A in \in insights : in.hits = derived[normalizeText(in.text)]
  /\ \A learning \in Learning :
       (\A in \in insights : normalizeText(in.text) # learning) =>
         derived[learning] = 0

SalienceInv ==
  \A in \in insights :
    in.salience = Capped(baseSalience + reinforceBump * (in.hits - 1))

IInv == TypeInv /\ IdsInv /\ HeldOnce /\ CountInv /\ SalienceInv

-----------------------------------------------------------------------------

\* Any set of natural numbers has a least element.
LEMMA Least ==
  ASSUME NEW S, S \subseteq Nat, S # {}
  PROVE  \E x \in S : \A y \in S : x <= y
<1> DEFINE R == {p \in Nat \X Nat : p[1] < p[2]}
<1>1. IsWellFoundedOn(R, Nat)
  BY NatLessThanWellFounded DEF OpToRel
<1> HIDE DEF R
<1>2. PICK x \in S : \A y \in S : ~(<<y, x>> \in R)
  BY <1>1, WFMin
<1>3. ASSUME NEW y \in S PROVE x <= y
  <2>1. x \in Nat /\ y \in Nat
    OBVIOUS
  <2>2. ~(y < x)
    BY <2>1, <1>2 DEF R
  <2> QED BY <2>1, <2>2
<1> QED
  BY <1>3

\* Max finds the largest of numbers that are bounded.
LEMMA MaxOfBounded ==
  ASSUME NEW b \in Nat, NEW S, S \subseteq 0..b, S # {}
  PROVE  Max(S) \in S /\ \A y \in S : y <= Max(S)
<1> DEFINE D == {b - x : x \in S}
<1>1. D \subseteq Nat /\ D # {}
  <2>1. \A x \in S : b - x \in Nat
    OBVIOUS
  <2> QED BY <2>1
<1> HIDE DEF D
<1>2. PICK d \in D : \A e \in D : d <= e
  BY <1>1, Least
<1>3. PICK x \in S : d = b - x
  BY DEF D
<1>4. \A y \in S : b - x <= b - y
  BY <1>2, <1>3 DEF D
<1>5. \A y \in S : x >= y
  BY <1>4
<1>6. Max(S) \in S /\ \A y \in S : Max(S) >= y
  BY <1>5 DEF Max
<1>7. \A y \in S : y \in Nat
  OBVIOUS
<1> QED
  BY <1>6, <1>7

\* The id of a new insight is no other's, and one more note has been left.
LEMMA NextIsFresh ==
  ASSUME TypeInv, IdsInv
  PROVE  /\ nextInsightID(insights) \in 1..(adds + 1)
         /\ \A in \in insights : in.id < nextInsightID(insights)
<1> DEFINE S == {in.id : in \in insights} \cup {0}
<1>1. S \subseteq 0..adds /\ S # {} /\ adds \in Nat
  <2>1. adds \in Nat /\ \A in \in insights : in.id \in 0..adds
    BY DEF TypeInv, IdsInv, Insight
  <2> QED BY <2>1
<1>2. nextInsightID(insights) = 1 + Max(S)
  BY DEF nextInsightID
<1>3. \A in \in insights : in.id \in S
  OBVIOUS
<1> HIDE DEF S
<1>4. Max(S) \in S /\ \A y \in S : y <= Max(S)
  BY <1>1, MaxOfBounded
<1>5. Max(S) \in 0..adds
  BY <1>1, <1>4
<1>6. ASSUME NEW in \in insights PROVE in.id < 1 + Max(S)
  <2>1. in.id \in 0..adds /\ in.id <= Max(S)
    BY <1>1, <1>3, <1>4
  <2> QED BY <2>1, <1>5
<1> QED
  BY <1>1, <1>2, <1>5, <1>6

\* The tags and the clock an insight is given are of their types.
LEMMA GivenTypes ==
  ASSUME NEW t \in Task
  PROVE  taskTags(t) \in SUBSET Tags
<1> DEFINE T(x) == taskTags(x)
<1>1. Tags = UNION {T(x) : x \in Task}
  BY DEF Tags
<1>2. T(t) \in {T(x) : x \in Task}
  OBVIOUS
<1> QED
  BY <1>1, <1>2

\* Salience follows the hits: it never falls as they rise.
LEMMA SalienceMonotone ==
  ASSUME SalienceInv, TypeInv, NEW a \in insights, NEW b \in insights,
         a.hits <= b.hits
  PROVE  a.salience <= b.salience
  BY DEF SalienceInv, TypeInv, Insight, Capped, baseSalience, reinforceBump,
         maxSalience

\* The empty layer satisfies the invariant.
LEMMA InitIInv ==
  Init => IInv
<1> SUFFICES ASSUME Init PROVE IInv
  OBVIOUS
<1>1. TypeInv
  BY InsightsAssumption, FS_EmptySet DEF Init, TypeInv
<1> QED
  BY <1>1 DEF Init, IInv, IdsInv, HeldOnce, CountInv, SalienceInv

\* A learning that is new enters the layer.
LEMMA NovelPreserves ==
  ASSUME IInv, NEW note \in Note, NEW task \in Task, AddInsight(note, task),
         \A in \in insights : ~SameLearning(in, note)
  PROVE  /\ insights' = insights \cup {Fresh(note, taskTags(task))}
         /\ IInv'
<1> DEFINE new == Fresh(note, taskTags(task))
<1>1. insights' = insights \cup {new}
  <2>1. {in \in insights : SameLearning(in, note)} = {}
    OBVIOUS
  <2> QED BY <2>1 DEF AddInsight
<1>2. /\ adds \in Nat /\ adds' = adds + 1 /\ adds' \in 0..MaxAdds
      /\ clock' \in Nat
      /\ normalizeText(note) \in Learning
  <2>1. adds \in Nat /\ adds' = adds + 1 /\ adds' \in 0..MaxAdds
    BY InsightsAssumption DEF AddInsight, IInv, TypeInv
  <2>2. clock' \in Nat
    BY DEF AddInsight, IInv, TypeInv
  <2>3. normalizeText(note) \in Learning
    BY DEF Learning
  <2> QED BY <2>1, <2>2, <2>3
<1>3. /\ new \in Insight
      /\ new.id \in 1..(adds + 1) /\ \A in \in insights : in.id < new.id
      /\ new.text = note /\ new.hits = 1 /\ new.salience = baseSalience
  <2>1. /\ nextInsightID(insights) \in 1..(adds + 1)
        /\ \A in \in insights : in.id < nextInsightID(insights)
    BY NextIsFresh DEF IInv
  <2>2. taskTags(task) \in SUBSET Tags
    BY GivenTypes
  <2> QED
    BY <1>2, <2>1, <2>2 DEF Fresh, Insight, baseSalience
<1> HIDE DEF new
<1>4. /\ derived' \in [Learning -> Nat]
      /\ derived'[normalizeText(note)] = 1
      /\ \A l \in Learning : l # normalizeText(note) => derived'[l] = derived[l]
  <2>1. derived[normalizeText(note)] = 0
    BY <1>2 DEF IInv, CountInv, SameLearning
  <2> QED
    BY <1>2, <2>1 DEF AddInsight, IInv, TypeInv
<1>5. TypeInv'
  BY <1>1, <1>2, <1>3, <1>4, FS_AddElement DEF IInv, TypeInv
<1>6. IdsInv'
  <2> SUFFICES ASSUME NEW in \in insights' PROVE in.id <= adds'
    BY DEF IdsInv
  <2>1. CASE in = new
    BY <2>1, <1>2, <1>3
  <2>2. CASE in \in insights
    <3>1. in.id \in Nat /\ in.id <= adds
      BY <2>2 DEF IInv, TypeInv, Insight, IdsInv
    <3> QED BY <3>1, <1>2
  <2> QED BY <1>1, <2>1, <2>2
<1>7. HeldOnce'
  <2>1. \A in \in insights : in.id # new.id /\ normalizeText(in.text) # normalizeText(new.text)
    <3> SUFFICES ASSUME NEW in \in insights
                 PROVE  in.id # new.id /\ normalizeText(in.text) # normalizeText(new.text)
      OBVIOUS
    <3>1. in.id \in Nat /\ in.id < new.id
      BY <1>3 DEF IInv, TypeInv, Insight
    <3> QED BY <3>1, <1>3 DEF SameLearning
  <2> QED
    BY <1>1, <2>1 DEF IInv, HeldOnce, SameLearning
<1>8. CountInv'
  <2>1. ASSUME NEW in \in insights'
        PROVE  in.hits = derived'[normalizeText(in.text)]
    <3>1. CASE in = new
      BY <3>1, <1>3, <1>4
    <3>2. CASE in \in insights
      <4>1. normalizeText(in.text) \in Learning
        BY <3>2 DEF IInv, TypeInv, Insight, Learning
      <4> QED BY <4>1, <3>2, <1>4 DEF IInv, CountInv, SameLearning
    <3> QED BY <1>1, <3>1, <3>2
  <2>2. ASSUME NEW l \in Learning,
               \A in \in insights' : normalizeText(in.text) # l
        PROVE  derived'[l] = 0
    <3>1. l # normalizeText(note) /\ \A in \in insights : normalizeText(in.text) # l
      BY <2>2, <1>1, <1>3
    <3> QED BY <3>1, <1>4 DEF IInv, CountInv
  <2> QED BY <2>1, <2>2 DEF CountInv
<1>9. SalienceInv'
  <2> SUFFICES ASSUME NEW in \in insights'
               PROVE in.salience = Capped(baseSalience + reinforceBump * (in.hits - 1))
    BY DEF SalienceInv
  <2>1. CASE in = new
    BY <2>1, <1>3 DEF Capped, baseSalience, maxSalience, reinforceBump
  <2>2. CASE in \in insights
    BY <2>2 DEF IInv, SalienceInv
  <2> QED BY <1>1, <2>1, <2>2
<1> QED
  BY <1>1, <1>5, <1>6, <1>7, <1>8, <1>9 DEF IInv, new

\* Reinforcement raises the hits and the salience, and keeps what is learned.
LEMMA ReinforcedType ==
  ASSUME NEW in \in Insight, NEW tags \in SUBSET Tags, clock' \in Nat
  PROVE  LET new == Reinforced(in, tags) IN
         /\ new \in Insight
         /\ new.id = in.id /\ new.text = in.text /\ new.hits = in.hits + 1
         /\ new.salience = Capped(in.salience + reinforceBump)
<1> DEFINE s == Capped(in.salience + reinforceBump)
<1>1. s \in Nat
  BY DEF Insight, Capped, reinforceBump, maxSalience
<1> HIDE DEF s
<1>2. Reinforced(in, tags) =
        [in EXCEPT !.hits = @ + 1, !.salience = s, !.tags = @ \cup tags,
                   !.ts = clock']
  BY DEF Reinforced, s, Insight
<1>3. in.hits + 1 \in Nat \ {0} /\ in.tags \cup tags \in SUBSET Tags
  BY DEF Insight
<1> QED
  BY <1>1, <1>2, <1>3 DEF Insight, s

\* A learning that is derived again is reinforced in its place.
LEMMA AgainPreserves ==
  ASSUME IInv, NEW note \in Note, NEW task \in Task, AddInsight(note, task),
         NEW some \in insights, SameLearning(some, note)
  PROVE  \E in \in insights :
           /\ insights' = (insights \ {in}) \cup {Reinforced(in, taskTags(task))}
           /\ Reinforced(in, taskTags(task)).id = in.id
           /\ IInv'
<1> DEFINE same == {in \in insights : SameLearning(in, note)}
           old == CHOOSE x \in same : TRUE
           new == Reinforced(old, taskTags(task))
<1>1. old \in insights /\ SameLearning(old, note)
  OBVIOUS
<1>2. insights' = (insights \ {old}) \cup {new}
  BY DEF AddInsight
<1> HIDE DEF same, old
<1>3. /\ adds \in Nat /\ adds' = adds + 1 /\ adds' \in 0..MaxAdds
      /\ clock' \in Nat
  <2>1. adds \in Nat /\ adds' = adds + 1 /\ adds' \in 0..MaxAdds
    BY InsightsAssumption DEF AddInsight, IInv, TypeInv
  <2>2. clock' \in Nat
    BY DEF AddInsight, IInv, TypeInv
  <2> QED BY <2>1, <2>2
<1>4. old \in Insight
  BY <1>1 DEF IInv, TypeInv
<1>5. /\ new \in Insight
      /\ new.id = old.id /\ new.text = old.text /\ new.hits = old.hits + 1
      /\ new.salience = Capped(old.salience + reinforceBump)
  BY <1>3, <1>4, GivenTypes, ReinforcedType
<1> DEFINE l == normalizeText(note)
<1>6. l \in Learning /\ normalizeText(old.text) = l
  <2>1. l \in Learning
    BY DEF Learning
  <2> QED BY <2>1, <1>1 DEF SameLearning
<1> HIDE DEF l
<1>7. /\ derived' \in [Learning -> Nat]
      /\ derived'[l] = derived[l] + 1
      /\ \A m \in Learning : m # l => derived'[m] = derived[m]
  BY <1>6 DEF AddInsight, IInv, TypeInv, l
<1> HIDE DEF new
<1>8. TypeInv'
  BY <1>2, <1>3, <1>5, <1>7, FS_AddElement, FS_RemoveElement DEF IInv, TypeInv
<1>9. IdsInv'
  <2> SUFFICES ASSUME NEW in \in insights' PROVE in.id <= adds'
    BY DEF IdsInv
  <2>1. PICK x \in insights : in.id = x.id
    BY <1>1, <1>2, <1>5
  <2>2. x.id \in Nat /\ x.id <= adds
    BY <2>1 DEF IInv, TypeInv, Insight, IdsInv
  <2> QED BY <2>1, <2>2, <1>3
<1>10. HeldOnce'
  <2> SUFFICES ASSUME NEW a \in insights', NEW b \in insights',
                      a.id = b.id \/ normalizeText(a.text) = normalizeText(b.text)
               PROVE  a = b
    BY DEF HeldOnce, SameLearning
  <2>1. \A x, y \in insights :
          x.id = y.id \/ normalizeText(x.text) = normalizeText(y.text) => x = y
    BY DEF IInv, HeldOnce, SameLearning
  <2> QED
    BY <1>1, <1>2, <1>5, <2>1
<1>11. CountInv'
  <2>1. ASSUME NEW in \in insights'
        PROVE  in.hits = derived'[normalizeText(in.text)]
    <3>1. CASE in = new
      BY <3>1, <1>1, <1>5, <1>6, <1>7 DEF IInv, CountInv
    <3>2. CASE in \in insights \ {old}
      <4>1. normalizeText(in.text) \in Learning
        BY <3>2 DEF IInv, TypeInv, Insight, Learning
      <4>2. normalizeText(in.text) # l
        BY <3>2, <1>1, <1>6 DEF IInv, HeldOnce, SameLearning
      <4> QED BY <4>1, <4>2, <3>2, <1>7 DEF IInv, CountInv
    <3> QED BY <1>2, <3>1, <3>2
  <2>2. ASSUME NEW m \in Learning,
               \A in \in insights' : normalizeText(in.text) # m
        PROVE  derived'[m] = 0
    <3>1. m # l /\ \A in \in insights : normalizeText(in.text) # m
      BY <2>2, <1>2, <1>5, <1>6
    <3> QED BY <3>1, <1>7 DEF IInv, CountInv
  <2> QED BY <2>1, <2>2 DEF CountInv
<1>12. SalienceInv'
  <2> SUFFICES ASSUME NEW in \in insights'
               PROVE in.salience = Capped(baseSalience + reinforceBump * (in.hits - 1))
    BY DEF SalienceInv
  <2>1. CASE in = new
    <3>1. old.hits \in Nat \ {0}
      BY <1>4 DEF Insight
    <3>2. old.salience = Capped(baseSalience + reinforceBump * (old.hits - 1))
      BY <1>1 DEF IInv, SalienceInv
    <3> QED
      BY <2>1, <3>1, <3>2, <1>5 DEF Capped, baseSalience, maxSalience, reinforceBump
  <2>2. CASE in \in insights
    BY <2>2 DEF IInv, SalienceInv
  <2> QED BY <1>2, <2>1, <2>2
<1>13. IInv'
  BY <1>8, <1>9, <1>10, <1>11, <1>12 DEF IInv
<1> QED
  BY <1>1, <1>2, <1>5, <1>13 DEF new

\* A compaction keeps a part of the layer, and forgets the counts of the rest.
LEMMA CompactPreserves ==
  ASSUME IInv, NEW max \in MaxInsights, Compact(max)
  PROVE  IInv'
<1>1. insights' = Kept(max) /\ Kept(max) \in SUBSET insights
  BY DEF Compact, Kept
<1>2. derived' = [learning \in Learning |->
                   IF \E in \in Kept(max) : normalizeText(in.text) = learning
                     THEN derived[learning] ELSE 0]
  BY DEF Compact
<1>3. UNCHANGED <<clock, adds>>
  BY DEF Compact
<1>4. TypeInv'
  <2>1. IsFiniteSet(Kept(max))
    BY <1>1, FS_Subset DEF IInv, TypeInv
  <2> QED BY <1>1, <1>2, <1>3, <2>1 DEF IInv, TypeInv
<1>5. IdsInv' /\ HeldOnce' /\ SalienceInv'
  BY <1>1, <1>3 DEF IInv, IdsInv, HeldOnce, SalienceInv
<1>6. CountInv'
  <2>1. ASSUME NEW in \in insights'
        PROVE  in.hits = derived'[normalizeText(in.text)]
    <3>1. normalizeText(in.text) \in Learning
      BY <1>1 DEF IInv, TypeInv, Insight, Learning
    <3> QED BY <3>1, <1>1, <1>2 DEF IInv, CountInv
  <2>2. ASSUME NEW m \in Learning,
               \A in \in insights' : normalizeText(in.text) # m
        PROVE  derived'[m] = 0
    BY <1>1, <1>2, <2>2
  <2> QED BY <2>1, <2>2 DEF CountInv
<1> QED
  BY <1>4, <1>5, <1>6 DEF IInv

\* Every step keeps the invariant.
LEMMA Inductive ==
  IInv /\ [Next]_vars => IInv'
<1> SUFFICES ASSUME IInv, [Next]_vars PROVE IInv'
  OBVIOUS
<1>1. CASE UNCHANGED vars
  BY <1>1 DEF vars, IInv, TypeInv, IdsInv, HeldOnce, CountInv, SalienceInv
<1>2. ASSUME NEW note \in Note, NEW task \in Task, AddInsight(note, task)
      PROVE  IInv'
  BY <1>2, NovelPreserves, AgainPreserves
<1>3. ASSUME NEW max \in MaxInsights, Compact(max)
      PROVE  IInv'
  BY <1>3, CompactPreserves
<1> QED
  BY <1>1, <1>2, <1>3 DEF Next

\* The invariant holds throughout.
LEMMA Always == Spec => []IInv
<1> QED
  BY InitIInv, Inductive, PTL DEF Spec

\* insights.go:206-211, 352-353: however notes and evictions alternate, an id
\* names one insight and a learning is held once.
THEOREM LearnedOnce == Spec => []HeldOnce
<1>1. IInv => HeldOnce
  BY DEF IInv
<1> QED
  BY <1>1, Always, PTL

\* insights.go:37-41, orchestrator.go:1787: the hits of an insight are its
\* derivations since it entered the layer, and its salience follows them.
THEOREM HitsCount == Spec => []HitsAreDerivations
<1>1. IInv => HitsAreDerivations
  BY DEF IInv, CountInv, SalienceInv, HitsAreDerivations
<1> QED
  BY <1>1, Always, PTL

-----------------------------------------------------------------------------

\* What ranks before an insight of more hits ranks before one of fewer, and so
\* does the first of them: the layer's order is lexicographic.
LEMMA MoreHitsMoreValuable ==
  ASSUME IInv, NEW a \in insights, NEW b \in insights, a.hits < b.hits,
         NEW y \in insights, MoreValuable(y, b)
  PROVE  MoreValuable(y, a)
<1>1. /\ a.hits \in Nat /\ b.hits \in Nat /\ y.hits \in Nat
      /\ a.salience \in Nat /\ b.salience \in Nat /\ y.salience \in Nat
  BY DEF IInv, TypeInv, Insight
<1>2. a.salience <= b.salience
  BY <1>1, SalienceMonotone DEF IInv
<1>3. \/ y.salience > b.salience
      \/ y.salience = b.salience /\ y.hits >= b.hits
  BY <1>1 DEF MoreValuable
<1>4. \/ y.salience > a.salience
      \/ y.salience = a.salience /\ y.hits > a.hits
  BY <1>1, <1>2, <1>3
<1> QED
  BY <1>4 DEF MoreValuable

\* compaction.go:251-270: no insight is evicted in favour of one that was
\* derived less often, although the salience that ranks first is capped.
THEOREM LeastDerivedGo == Spec => EvictsLeastDerived
<1> DEFINE Step == \A in \in insights, x \in insights' :
              (\A y \in insights' : y.id # in.id) /\ x \in insights => in.hits <= x.hits
<1>1. ASSUME IInv, [Next]_vars PROVE Step \/ UNCHANGED vars
  <2> SUFFICES ASSUME ~UNCHANGED vars,
                      NEW in \in insights, NEW x \in insights',
                      \A y \in insights' : y.id # in.id, x \in insights
               PROVE  in.hits <= x.hits
    OBVIOUS
  <2>1. ASSUME NEW note \in Note, NEW task \in Task, AddInsight(note, task)
        PROVE  FALSE
    <3>1. CASE \A s \in insights : ~SameLearning(s, note)
      BY <3>1, <2>1, <1>1, NovelPreserves
    <3>2. CASE \E s \in insights : SameLearning(s, note)
      <4>1. PICK old \in insights, new \in insights' :
              insights \ {old} \subseteq insights' /\ new.id = old.id
        BY <3>2, <2>1, <1>1, AgainPreserves
      <4> QED BY <4>1
    <3> QED BY <3>1, <3>2
  <2>2. ASSUME NEW max \in MaxInsights, Compact(max)
        PROVE  in.hits <= x.hits
    <3>0. insights' = Kept(max) /\ max \in Nat
      BY <2>2, InsightsAssumption DEF Compact
    <3>1. in \notin Kept(max) /\ x \in Kept(max)
      BY <3>0
    <3>2. in.hits \in Nat /\ x.hits \in Nat
      BY <1>1 DEF IInv, TypeInv, Insight
    <3> SUFFICES ASSUME x.hits < in.hits PROVE FALSE
      BY <3>2
    <3> DEFINE Before(z) == {y \in insights : MoreValuable(y, z)}
    <3>3. Before(in) \subseteq Before(x)
      BY <1>1, MoreHitsMoreValuable
    <3>4. IsFiniteSet(Before(x))
      <4>1. Before(x) \in SUBSET insights
        OBVIOUS
      <4> QED BY <4>1, <1>1, FS_Subset DEF IInv, TypeInv
    <3>5. /\ Cardinality(Before(x)) < max
          /\ ~(Cardinality(Before(in)) < max)
      BY <3>1 DEF Kept
    <3> HIDE DEF Before
    <3>6. /\ IsFiniteSet(Before(in))
          /\ Cardinality(Before(in)) <= Cardinality(Before(x))
      BY <3>3, <3>4, FS_Subset
    <3> QED
      BY <3>0, <3>4, <3>5, <3>6, FS_CardinalityType
  <2> QED
    BY <1>1, <2>1, <2>2 DEF Next
<1>2. IInv /\ [Next]_vars => [Step]_vars
  BY <1>1
<1> QED
  BY <1>2, Always, PTL DEF Spec, EvictsLeastDerived

-----------------------------------------------------------------------------

\* The words an insight shares with a task are finitely many.
LEMMA OverlapType ==
  ASSUME NEW in, NEW t \in Task
  PROVE  Overlap(in, t) \in Nat
<1>1. t \in Seq(STRING)
  BY InsightsAssumption
<1>2. Len(t) \in Nat /\ DOMAIN t = 1..Len(t)
  BY <1>1, LenProperties
<1>3. IsFiniteSet(1..Len(t))
  BY <1>2, FS_Interval
<1>4. t \in Surjection(1..Len(t), Range(t))
  BY <1>1, <1>2 DEF Surjection, Range
<1>5. IsFiniteSet(Range(t))
  BY <1>3, <1>4, FS_Surjection
<1> DEFINE W == (tokenSet(in.text) \cup in.tags) \cap tokenSet(t)
<1>6. W \in SUBSET Range(t)
  BY DEF tokenSet
<1>7. Cardinality(W) \in Nat
  BY <1>5, <1>6, FS_Subset, FS_CardinalityType
<1> QED
  BY <1>7 DEF Overlap

\* A product of natural numbers does not fall when a factor rises.
LEMMA ProductMonotone ==
  ASSUME NEW k \in Nat, NEW m \in Nat, NEW n \in Nat, m <= n
  PROVE  k * m \in Nat /\ k * n \in Nat /\ k * m <= k * n
<1>1. PICK d \in Nat : n = m + d
  <2>1. n - m \in Nat /\ n = m + (n - m)
    OBVIOUS
  <2> QED BY <2>1
<1>2. k * m \in Nat /\ k * d \in Nat /\ k * n \in Nat
  OBVIOUS
<1>3. k * n = k * m + k * d
  BY <1>1
<1> QED
  BY <1>2, <1>3

\* Of insights that overlap a task equally, the score prefers the one of more
\* hits.
LEMMA ScoreMonotone ==
  ASSUME IInv, NEW t \in Task, NEW a \in insights, NEW b \in insights,
         Overlap(a, t) = Overlap(b, t), a.hits < b.hits
  PROVE  Score(a, t) < Score(b, t)
<1>1. /\ a.hits \in Nat /\ b.hits \in Nat
      /\ a.salience \in Nat /\ b.salience \in Nat
  BY DEF IInv, TypeInv, Insight
<1>2. a.salience <= b.salience
  BY <1>1, SalienceMonotone DEF IInv
<1>3. 100 + a.salience \in Nat /\ 100 + b.salience \in Nat
      /\ 100 + a.salience <= 100 + b.salience
  BY <1>1, <1>2
<1> DEFINE sa == 100 + a.salience
           sb == 100 + b.salience
           o == Overlap(a, t)
<1>4. o * sa \in Nat /\ o * sb \in Nat /\ o * sa <= o * sb
  <2>1. o \in Nat
    BY OverlapType
  <2> HIDE DEF o, sa, sb
  <2> QED BY <1>3, <2>1, ProductMonotone DEF sa, sb
<1>5. Score(a, t) = o * sa + 10 * a.hits /\ Score(b, t) = o * sb + 10 * b.hits
  BY DEF Score
<1> HIDE DEF o, sa, sb
<1> QED
  BY <1>1, <1>4, <1>5

\* Scores are numbers.
LEMMA ScoreType ==
  ASSUME IInv, NEW t \in Task, NEW in \in insights
  PROVE  Score(in, t) \in Nat
<1>1. in.hits \in Nat /\ 100 + in.salience \in Nat
  BY DEF IInv, TypeInv, Insight
<1>2. Overlap(in, t) * (100 + in.salience) \in Nat
  BY <1>1, OverlapType, ProductMonotone
<1> QED
  BY <1>1, <1>2 DEF Score

\* insights.go:321-324: of the insights equally relevant to a task, the ones
\* derived most often are recalled.
THEOREM MostDerivedRecalled == Spec => []RecallsMostDerived
<1>1. ASSUME IInv PROVE RecallsMostDerived
  <2> SUFFICES ASSUME NEW t \in Task, NEW in \in RetrieveInsights(t),
                      NEW x \in Relevant(t), x \notin RetrieveInsights(t),
                      Overlap(x, t) = Overlap(in, t)
               PROVE  x.hits <= in.hits
    BY DEF RecallsMostDerived
  <2>1. in \in insights /\ x \in insights /\ in \in Relevant(t)
    BY DEF RetrieveInsights, Relevant
  <2>2. in.hits \in Nat /\ x.hits \in Nat
    BY <1>1, <2>1 DEF IInv, TypeInv, Insight
  <2> SUFFICES ASSUME in.hits < x.hits PROVE FALSE
    BY <2>2
  <2>3. Score(in, t) < Score(x, t)
    BY <1>1, <2>1, ScoreMonotone
  <2> DEFINE Before(z) == {y \in Relevant(t) : RanksBefore(y, z, t)}
  <2>4. ASSUME NEW y \in Before(x) PROVE y \in Before(in)
    <3>1. y \in insights /\ y \in Relevant(t) /\ RanksBefore(y, x, t)
      BY DEF Relevant
    <3>2. Score(y, t) \in Nat /\ Score(x, t) \in Nat /\ Score(in, t) \in Nat
      BY <1>1, <2>1, <3>1, ScoreType
    <3>3. Score(y, t) >= Score(x, t)
      BY <3>1, <3>2 DEF RanksBefore
    <3>4. Score(y, t) > Score(in, t)
      BY <2>3, <3>2, <3>3
    <3> QED BY <3>1, <3>4 DEF RanksBefore
  <2>5. IsFiniteSet(Before(in))
    <3>1. Before(in) \in SUBSET insights
      BY DEF Relevant
    <3> QED BY <3>1, <1>1, FS_Subset DEF IInv, TypeInv
  <2>6. /\ Cardinality(Before(in)) < insightInjectK
        /\ ~(Cardinality(Before(x)) < insightInjectK)
    BY DEF RetrieveInsights
  <2>7. Before(x) \in SUBSET Before(in)
    BY <2>4
  <2> HIDE DEF Before
  <2>8. IsFiniteSet(Before(x)) /\ Cardinality(Before(x)) <= Cardinality(Before(in))
    BY <2>5, <2>7, FS_Subset
  <2>9. insightInjectK \in Nat
    BY InsightsAssumption
  <2> QED
    BY <2>5, <2>6, <2>8, <2>9, FS_CardinalityType
<1> QED
  BY <1>1, Always, PTL
=============================================================================
