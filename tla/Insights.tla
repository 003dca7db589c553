------------------------------ MODULE Insights ------------------------------
(***************************************************************************)
(* The insight layer of the store (internal/memory/insights.go, rule 5 of  *)
(* compaction.go): the notes agents leave are kept as insights, one that   *)
(* is derived again reinforces the one there is, each dispatch recalls the *)
(* few most relevant to its task, and compaction evicts beyond a cap.      *)
(*                                                                         *)
(* A note is a sequence of words; what is left of it when the words that   *)
(* are not significant (stopwords, words under three letters, words with   *)
(* no letter of a-z) are dropped is what it is compared by.  Salience is   *)
(* counted in hundredths.  Every operation is atomic (StoreLock).          *)
(***************************************************************************)
EXTENDS Naturals, FiniteSets, Functions, FiniteSetsExt, SequencesExt

CONSTANTS
  Note,            \* the notes agents may leave, sequences of words
  Task,            \* the tasks of dispatches, sequences of words
  Significant,     \* the words tokenize keeps
  MaxInsights,     \* the caps Compact may be given (200 in the code)
  insightInjectK,  \* how many insights a dispatch recalls (5 in the code)
  MaxAdds,         \* bound: notes left
  MaxClock         \* bound: seconds

ASSUME InsightsAssumption ==
  /\ Note \cup Task \subseteq Seq(STRING)
  /\ MaxInsights \subseteq Nat
  /\ insightInjectK \in Nat /\ MaxAdds \in 0..99 /\ MaxClock \in Nat

baseSalience == 50
reinforceBump == 15
maxSalience == 100

VARIABLES
  insights,        \* the layer: a set of [id, text, salience, hits, tags, ts]
  clock,           \* the second time.Now().Unix() returns
  adds,            \* notes left so far
  derived          \* history: learning -> how often it was left since it last
                   \* entered the layer

vars == <<insights, clock, adds, derived>>

-----------------------------------------------------------------------------

tokenize(s) == SelectSeq(s, LAMBDA w : w \in Significant)
normalizeText(s) == tokenize(s)
tokenSet(s) == Range(s) \cap Significant

\* What the notes say: each is one learning.
Learning == {normalizeText(note) : note \in Note}

\* A dispatch tags the notes it leaves with the first six words of its task.
taskTags(t) == LET kw == tokenize(t) IN
  {kw[i] : i \in {j \in DOMAIN kw : Cardinality(Range(SubSeq(kw, 1, j))) <= 6}}

Capped(x) == IF x > maxSalience THEN maxSalience ELSE x

\* Mutant of nextInsightID: ids are counted, not looked up.
nextByCount(layer) == 1 + Cardinality(layer)

nextInsightID(layer) == 1 + Max({in.id : in \in layer} \cup {0})
SameLearning(in, note) == normalizeText(in.text) = normalizeText(note)

\* Mutant of Reinforced: the salience is raised, the hits are not.
ReinforcedOnce(in, tags) ==
  [in EXCEPT !.salience = Capped(@ + reinforceBump), !.tags = @ \cup tags,
             !.ts = clock']

Reinforced(in, tags) ==
  [in EXCEPT !.hits = @ + 1, !.salience = Capped(@ + reinforceBump),
             !.tags = @ \cup tags, !.ts = clock']

Fresh(note, tags) ==
  [id |-> nextInsightID(insights), text |-> note, salience |-> baseSalience,
   hits |-> 1, tags |-> tags, ts |-> clock']

\* The order of the ids "i<n>" as strings, for n below a hundred.
IdBefore(m, n) ==
  LET Padded(x) == IF x < 10 THEN 10 * x ELSE x IN
  Padded(m) < Padded(n) \/ (Padded(m) = Padded(n) /\ m < n)

\* Mutant of MoreValuable: at equal salience the newer one is kept.
MoreRecent(a, b) ==
  \/ a.salience > b.salience
  \/ a.salience = b.salience /\ (a.ts > b.ts \/ (a.ts = b.ts /\ IdBefore(a.id, b.id)))

\* How Compact ranks the layer, and RetrieveInsights what is relevant.
MoreValuable(a, b) ==
  \/ a.salience > b.salience
  \/ a.salience = b.salience /\ a.hits > b.hits
  \/ a.salience = b.salience /\ a.hits = b.hits /\ a.ts > b.ts
  \/ a.salience = b.salience /\ a.hits = b.hits /\ a.ts = b.ts /\ IdBefore(a.id, b.id)

\* The score, in hundredths: overlap * (1 + salience) + 0.1 * hits.
Overlap(in, t) == Cardinality((tokenSet(in.text) \cup in.tags) \cap tokenSet(t))

\* Mutant of Score: the recent is preferred to the well established.
ScoreRecent(in, t) == 100 * Overlap(in, t) + in.ts

Score(in, t) == Overlap(in, t) * (100 + in.salience) + 10 * in.hits

RanksBefore(a, b, t) ==
  \/ Score(a, t) > Score(b, t)
  \/ /\ Score(a, t) = Score(b, t)
     /\ \/ a.salience > b.salience
        \/ a.salience = b.salience /\ a.ts > b.ts
        \/ a.salience = b.salience /\ a.ts = b.ts /\ IdBefore(a.id, b.id)

Relevant(t) == {in \in insights : Overlap(in, t) > 0}
RetrieveInsights(t) ==
  {in \in Relevant(t) :
     Cardinality({x \in Relevant(t) : RanksBefore(x, in, t)}) < insightInjectK}

-----------------------------------------------------------------------------

Init ==
  /\ insights = {}
  /\ clock = 0
  /\ adds = 0
  /\ derived = [learning \in Learning |-> 0]

\* A dispatch of a task leaves a note.
AddInsight(note, task) ==
  LET tags == taskTags(task)
      same == {in \in insights : SameLearning(in, note)}
  IN
  /\ adds < MaxAdds
  /\ adds' = adds + 1
  /\ clock' \in {clock, clock + 1} /\ clock' <= MaxClock
  /\ IF same = {}
       THEN insights' = insights \cup {Fresh(note, tags)}
       ELSE LET in == CHOOSE x \in same : TRUE IN
            insights' = (insights \ {in}) \cup {Reinforced(in, tags)}
  /\ derived' = [derived EXCEPT ![normalizeText(note)] = @ + 1]

\* A compaction, by a dispatch or by the host, evicts what exceeds the cap.
Kept(max) ==
  {in \in insights :
     Cardinality({x \in insights : MoreValuable(x, in)}) < max}

Compact(max) ==
  /\ max > 0 /\ Cardinality(insights) > max
  /\ insights' = Kept(max)
  /\ derived' = [learning \in Learning |->
                   IF \E in \in Kept(max) : normalizeText(in.text) = learning
                     THEN derived[learning] ELSE 0]
  /\ UNCHANGED <<clock, adds>>

Next ==
  \/ \E note \in Note, task \in Task : AddInsight(note, task)
  \/ \E max \in MaxInsights : Compact(max)

Spec == Init /\ [][Next]_vars

-----------------------------------------------------------------------------

\* However notes and evictions alternate, an id names one insight and a
\* learning is held once (insights.go:206-211, 352-353).
HeldOnce ==
  \A a, b \in insights : a.id = b.id \/ SameLearning(a, b.text) => a = b

\* The brief says "reinforced Nx": N is how often the learning was derived
\* since it entered the layer, and salience follows it (insights.go:37-41,
\* orchestrator.go:1787).
HitsAreDerivations ==
  \A in \in insights :
    /\ in.hits = derived[normalizeText(in.text)]
    /\ in.salience = Capped(baseSalience + reinforceBump * (in.hits - 1))

\* Eviction ranks by salience, which is capped; still no insight is evicted
\* in favour of one that was derived less often (compaction.go:251-270).
EvictsLeastDerived ==
  [][\A in \in insights, x \in insights' :
       (\A y \in insights' : y.id # in.id) /\ x \in insights => in.hits <= x.hits]_vars

\* Of the insights equally relevant to a task, the ones derived most often are
\* recalled (insights.go:321-324).
RecallsMostDerived ==
  \A t \in Task : \A in \in RetrieveInsights(t), x \in Relevant(t) :
    x \notin RetrieveInsights(t) /\ Overlap(x, t) = Overlap(in, t) =>
      x.hits <= in.hits
=============================================================================
