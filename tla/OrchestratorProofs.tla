------------------------- MODULE OrchestratorProofs -------------------------
(***************************************************************************)
(* Proofs about the orchestrator's agent calls: about Output, for every    *)
(* text; about Dispatch, for any reviewers, any configured number of       *)
(* verify rounds, any texts agents print and any number of foreign edits;  *)
(* about Consult, for any models, commands and texts.                      *)
(***************************************************************************)
EXTENDS Dispatch, Consult, FiniteSetTheorems, SequenceTheorems, WellFoundedInduction, TLAPS

-----------------------------------------------------------------------------
(***************************************************************************)
(* Output.  The scanner finds the spans of the grammar, in every text.     *)
(* The scanner, the bodies and the prose are recursive functions: a lemma  *)
(* shows that each of them is the function its recursion describes, and    *)
(* what they compute is proved by the least counterexample.                *)
(***************************************************************************)
-----------------------------------------------------------------------------
(* Induction over natural numbers, for sets.                               *)

\* A set of natural numbers has a least element.
LEMMA Least ==
  ASSUME NEW S, S \subseteq Nat, S # {}
  PROVE  \E x \in S : \A y \in S : x <= y
<1> DEFINE R == {p \in Nat \X Nat : p[1] < p[2]}
<1>1. IsWellFoundedOn(R, Nat)
  BY NatLessThanWellFounded DEF OpToRel
<1> HIDE DEF R
<1>2. PICK x \in S : \A y \in S : ~(<<y, x>> \in R)
  BY <1>1, WFMin
<1>3. ASSUME NEW y \in S PROVE x <= y
  <2>1. x \in Nat /\ y \in Nat
    OBVIOUS
  <2>2. ~(y < x)
    BY <2>1, <1>2 DEF R
  <2> QED BY <2>1, <2>2
<1> QED BY <1>3

\* A set that holds every number all of whose predecessors it holds, holds all.
LEMMA Strong ==
  ASSUME NEW S, \A k \in Nat : (\A m \in Nat : m < k => m \in S) => k \in S
  PROVE  Nat \subseteq S
<1> SUFFICES ASSUME Nat \ S # {} PROVE FALSE
  OBVIOUS
<1>1. PICK k \in Nat \ S : \A y \in Nat \ S : k <= y
  BY Least
<1>2. \A m \in Nat : m < k => m \in S
  BY <1>1
<1> QED BY <1>1, <1>2

\* Of the numbers of S up to n there is a greatest.
LEMMA Greatest ==
  ASSUME NEW S, NEW n \in Nat, S \subseteq 0..n, S # {}
  PROVE  \E x \in S : \A y \in S : y <= x
<1> DEFINE R == {n - y : y \in S}
<1>1. R \subseteq Nat /\ R # {}
  <2>1. \A y \in S : y \in 0..n
    OBVIOUS
  <2>2. \A y \in 0..n : n - y \in Nat
    OBVIOUS
  <2> QED BY <2>1, <2>2
<1>2. PICK r \in R : \A q \in R : r <= q
  BY <1>1, Least
<1>3. PICK x \in S : r = n - x
  BY <1>2
<1>4. ASSUME NEW y \in S PROVE y <= x
  <2>1. r <= n - y
    BY <1>2
  <2> QED BY <2>1, <1>3
<1> QED BY <1>4

\* The value of the functional F at an argument depends only on the values at
\* arguments of smaller measure.
WellFounded(D, R, mu, n, F) ==
  /\ R # {} /\ n \in Nat
  /\ mu \in [D -> Nat] /\ \A p \in D : mu[p] <= n
  /\ F \in [[D -> R] -> [D -> R]]
  /\ \A f, g \in [D -> R] : \A p \in D :
       (\A q \in D : mu[q] < mu[p] => f[q] = g[q]) => F[f][p] = F[g][p]

\* A definition by such a recursion defines a function.
LEMMA Recursion ==
  ASSUME NEW D, NEW R, NEW mu, NEW n, NEW F, WellFounded(D, R, mu, n, F)
  PROVE  \E f \in [D -> R] : F[f] = f
<1> USE DEF WellFounded
<1> DEFINE Fixed(f, k) == \A p \in D : mu[p] < k => F[f][p] = f[p]
           S == {k \in Nat : \E f \in [D -> R] : Fixed(f, k)}
<1>1. 0 \in S
  <2>1. PICK r \in R : TRUE
    OBVIOUS
  <2>2. [p \in D |-> r] \in [D -> R] /\ Fixed([p \in D |-> r], 0)
    OBVIOUS
  <2> QED BY <2>2
<1>2. ASSUME NEW k \in S PROVE k + 1 \in S
  <2>1. PICK f \in [D -> R] : Fixed(f, k)
    OBVIOUS
  <2>2. F[f] \in [D -> R]
    OBVIOUS
  <2>3. ASSUME NEW p \in D, mu[p] < k + 1 PROVE F[F[f]][p] = F[f][p]
    <3>1. ASSUME NEW q \in D, mu[q] < mu[p] PROVE F[f][q] = f[q]
      <4>1. mu[q] < k
        BY <2>3, <3>1
      <4> QED BY <4>1, <2>1
    <3> QED BY <3>1, <2>2
  <2> QED BY <2>2, <2>3
<1> HIDE DEF S
<1>3. Nat \subseteq S
  <2>1. \A k \in Nat : (\A m \in Nat : m < k => m \in S) => k \in S
    <3> SUFFICES ASSUME NEW k \in Nat, \A m \in Nat : m < k => m \in S PROVE k \in S
      OBVIOUS
    <3>1. CASE k = 0
      BY <3>1, <1>1
    <3>2. CASE k # 0
      <4>1. k - 1 \in Nat /\ k - 1 < k /\ (k - 1) + 1 = k
        BY <3>2
      <4> QED BY <4>1, <1>2
    <3> QED BY <3>1, <3>2
  <2> QED BY <2>1, Strong
<1>4. PICK f \in [D -> R] : Fixed(f, n + 1)
  BY <1>3 DEF S
<1>5. \A p \in D : F[f][p] = f[p]
  <2> SUFFICES ASSUME NEW p \in D PROVE F[f][p] = f[p]
    OBVIOUS
  <2>1. mu[p] < n + 1
    OBVIOUS
  <2> QED BY <2>1, <1>4
<1>6. F[f] \in [D -> R]
  OBVIOUS
<1>7. F[f] = f
  BY <1>5, <1>6
<1> QED BY <1>7
-----------------------------------------------------------------------------
(* The scanner, byte by byte.                                              *)

\* The four bytes that matter are four.
LEMMA FourBytes ==
  /\ Quote # Backslash /\ Quote # LBrace /\ Quote # RBrace
  /\ Backslash # LBrace /\ Backslash # RBrace /\ LBrace # RBrace
BY DEF Quote, Backslash, LBrace, RBrace

ScanStates == [pos : Nat, depth : Nat, start : Nat, inString : BOOLEAN,
               escaped : BOOLEAN, spans : Seq(Nat \X Nat)]

\* A step of the scanner leads from a state to a state.
LEMMA StepType ==
  ASSUME NEW st \in ScanStates, NEW c PROVE Step(st, c) \in ScanStates
<1>1. CASE st.inString
  <2> DEFINE e == ~st.escaped /\ c = Backslash
             q == st.escaped \/ c # Quote
  <2>1. e \in BOOLEAN /\ q \in BOOLEAN /\ st.pos + 1 \in Nat
    BY DEF ScanStates
  <2>2. Step(st, c) = [st EXCEPT !.pos = @ + 1, !.escaped = e, !.inString = q]
    BY <1>1 DEF Step, InString
  <2> HIDE DEF e, q
  <2> QED BY <2>1, <2>2 DEF ScanStates
<1>2. CASE ~st.inString
  <2> DEFINE i == st.pos + 1
             closes == c = RBrace /\ st.depth = 1
             d == IF c = LBrace THEN st.depth + 1
                  ELSE IF c = RBrace /\ st.depth > 0 THEN st.depth - 1 ELSE st.depth
             a == IF c = LBrace /\ st.depth = 0 THEN i ELSE IF closes THEN 0 ELSE st.start
             sp == IF closes THEN Append(st.spans, <<st.start, i>>) ELSE st.spans
             q == c = Quote
  <2>0. st.pos \in Nat /\ st.depth \in Nat /\ st.start \in Nat
    BY DEF ScanStates
  <2>1. i \in Nat /\ d \in Nat /\ a \in Nat
    <3>1. i \in Nat
      BY <2>0
    <3>2. \A x \in Nat : /\ x + 1 \in Nat
                         /\ x > 0 => x - 1 \in Nat
      OBVIOUS
    <3>3. d \in Nat
      BY <2>0, <3>2
    <3>4. a \in Nat
      BY <2>0, <3>1
    <3> QED BY <3>1, <3>3, <3>4
  <2>1b. q \in BOOLEAN
    OBVIOUS
  <2>2. st.spans \in Seq(Nat \X Nat) /\ <<st.start, i>> \in Nat \X Nat
    BY DEF ScanStates
  <2>3. sp \in Seq(Nat \X Nat)
    BY <2>2, AppendProperties
  <2>4. Step(st, c) = [st EXCEPT !.pos = i, !.inString = q, !.depth = d,
                                 !.start = a, !.spans = sp]
    BY <1>2 DEF Step, Outside
  <2> HIDE DEF i, d, a, sp, q
  <2> QED BY <2>1, <2>1b, <2>3, <2>4 DEF ScanStates
<1> QED BY <1>1, <1>2

\* The scanner's states satisfy their recursion, for every text.
LEMMA ScanRecursion ==
  ASSUME NEW s \in Seq(STRING)
  PROVE  /\ Scan(s) \in [0..Len(s) -> ScanStates]
         /\ Scan(s)[0] = Scanner
         /\ \A i \in 1..Len(s) : Scan(s)[i] = Step(Scan(s)[i - 1], s[i])
<1> DEFINE n == Len(s)
           D == 0..n
           Def(f) == [i \in D |-> IF i = 0 THEN Scanner ELSE Step(f[i - 1], s[i])]
           F == [f \in [D -> ScanStates] |-> Def(f)]
           mu == [i \in D |-> i]
<1>n. n \in Nat
  OBVIOUS
<1>1. Scanner \in ScanStates
  <2>1. <<>> \in Seq(Nat \X Nat)
    OBVIOUS
  <2> QED BY <2>1 DEF Scanner, ScanStates
<1>2. ASSUME NEW f \in [D -> ScanStates] PROVE Def(f) \in [D -> ScanStates]
  <2> SUFFICES ASSUME NEW i \in D, i # 0 PROVE Step(f[i - 1], s[i]) \in ScanStates
    BY <1>1
  <2>1. i - 1 \in D
    BY <1>n
  <2>2. f[i - 1] \in ScanStates
    BY <2>1
  <2> QED BY <2>2, StepType
<1>3. ASSUME NEW f \in [D -> ScanStates], NEW g \in [D -> ScanStates], NEW p \in D,
             \A q \in D : mu[q] < mu[p] => f[q] = g[q]
      PROVE  F[f][p] = F[g][p]
  <2>1. CASE p = 0
    BY <2>1
  <2>2. CASE p # 0
    <3>1. p - 1 \in D /\ mu[p - 1] < mu[p]
      BY <2>2, <1>n
    <3>2. f[p - 1] = g[p - 1]
      BY <3>1, <1>3
    <3> QED BY <3>2, <2>2
  <2> QED BY <2>1, <2>2
<1>3a. \A f, g \in [D -> ScanStates] : \A p \in D :
         (\A q \in D : mu[q] < mu[p] => f[q] = g[q]) => F[f][p] = F[g][p]
  <2> HIDE DEF D, F, mu, n
  <2> QED BY <1>3
<1>4. F \in [[D -> ScanStates] -> [D -> ScanStates]]
  BY <1>2
<1>5. mu \in [D -> Nat] /\ \A p \in D : mu[p] <= n
  BY <1>n
<1>6. \E f \in [D -> ScanStates] : F[f] = f
  <2>1. ScanStates # {}
    BY <1>1
  <2> HIDE DEF D, F, mu, n, Def
  <2>2. WellFounded(D, ScanStates, mu, n, F)
    BY <2>1, <1>3a, <1>4, <1>5, <1>n DEF WellFounded
  <2> QED BY <2>2, Recursion
<1>7. PICK f \in [D -> ScanStates] : f = Def(f)
  BY <1>6
<1>8. Scan(s) = CHOOSE g : g = Def(g)
  BY DEF Scan
<1>9. Scan(s) = Def(Scan(s))
  <2> HIDE DEF Def
  <2> QED BY <1>7, <1>8
<1> DEFINE S == {i \in Nat : i \in D => Scan(s)[i] \in ScanStates}
<1>10. ASSUME NEW i \in Nat, \A m \in Nat : m < i => m \in S PROVE i \in S
  <2> SUFFICES ASSUME i \in D PROVE Scan(s)[i] \in ScanStates
    OBVIOUS
  <2>1. CASE i = 0
    BY <2>1, <1>1, <1>9
  <2>2. CASE i # 0
    <3>1. i - 1 \in Nat /\ i - 1 < i /\ i - 1 \in D
      BY <2>2, <1>n
    <3>2. Scan(s)[i - 1] \in ScanStates
      BY <3>1, <1>10
    <3>3. Scan(s)[i] = Step(Scan(s)[i - 1], s[i])
      BY <2>2, <1>9
    <3> QED BY <3>2, <3>3, StepType
  <2> QED BY <2>1, <2>2
<1>11. Nat \subseteq S
  <2> HIDE DEF S
  <2> QED BY <1>10, Strong
<1>12. \A i \in D : Scan(s)[i] \in ScanStates
  BY <1>11, <1>n
<1>13. Scan(s)[0] = Scanner /\ \A i \in 1..n : Scan(s)[i] = Step(Scan(s)[i - 1], s[i])
  BY <1>9, <1>n
<1>14. Scan(s) \in [D -> ScanStates]
  BY <1>9, <1>12
<1> QED BY <1>13, <1>14

\* What the scanner knows after k bytes.
Inside(s, k) == Scan(s)[k].inString
Escapes(s, k) == Scan(s)[k].escaped
Depth(s, k) == Scan(s)[k].depth
Opened(s, k) == Scan(s)[k].start
Found(s, k) == Scan(s)[k].spans

\* Before the first byte; and the scanner knows how many bytes it has read.
LEMMA Bytes ==
  ASSUME NEW s \in Seq(STRING)
  PROVE  /\ Len(s) \in Nat
         /\ ~Inside(s, 0) /\ ~Escapes(s, 0) /\ Depth(s, 0) = 0 /\ Found(s, 0) = <<>>
         /\ \A k \in 0..Len(s) :
              /\ Scan(s)[k] \in ScanStates /\ Scan(s)[k].pos = k
              /\ Inside(s, k) \in BOOLEAN /\ Escapes(s, k) \in BOOLEAN
              /\ Depth(s, k) \in Nat /\ Opened(s, k) \in Nat
              /\ Found(s, k) \in Seq(Nat \X Nat)
<1> DEFINE n == Len(s)
           S == {k \in Nat : k \in 0..n => Scan(s)[k].pos = k}
<1>1. n \in Nat /\ 0 \in 0..n
  OBVIOUS
<1>2. \A k \in 0..n : Scan(s)[k] \in ScanStates
  BY ScanRecursion
<1>3. Scan(s)[0] = Scanner
  BY ScanRecursion
<1>4. ASSUME NEW k \in Nat, \A m \in Nat : m < k => m \in S PROVE k \in S
  <2> SUFFICES ASSUME k \in 0..n PROVE Scan(s)[k].pos = k
    OBVIOUS
  <2>1. CASE k = 0
    BY <2>1, <1>3 DEF Scanner
  <2>2. CASE k # 0
    <3>1. k - 1 \in Nat /\ k - 1 < k /\ k - 1 \in 0..n /\ k \in 1..n
      BY <2>2, <1>1
    <3>2. Scan(s)[k - 1].pos = k - 1 /\ Scan(s)[k - 1] \in ScanStates
      BY <3>1, <1>4, <1>2
    <3>3. Scan(s)[k] = Step(Scan(s)[k - 1], s[k])
      BY <3>1, ScanRecursion
    <3>4. Step(Scan(s)[k - 1], s[k]).pos = Scan(s)[k - 1].pos + 1
      BY <3>2 DEF Step, InString, Outside, ScanStates
    <3> QED BY <3>1, <3>2, <3>3, <3>4
  <2> QED BY <2>1, <2>2
<1>5. Nat \subseteq S
  <2> HIDE DEF S
  <2> QED BY <1>4, Strong
<1>6. \A k \in 0..n : Scan(s)[k].pos = k
  BY <1>5, <1>1
<1> HIDE DEF n, S
<1>7. ASSUME NEW k \in 0..n
      PROVE  /\ Inside(s, k) \in BOOLEAN /\ Escapes(s, k) \in BOOLEAN
             /\ Depth(s, k) \in Nat /\ Opened(s, k) \in Nat
             /\ Found(s, k) \in Seq(Nat \X Nat)
  BY <1>2 DEF ScanStates, Inside, Escapes, Depth, Opened, Found
<1>8. ~Inside(s, 0) /\ ~Escapes(s, 0) /\ Depth(s, 0) = 0 /\ Found(s, 0) = <<>>
  BY <1>3 DEF Scanner, Inside, Escapes, Depth, Found
<1> QED BY <1>1, <1>2, <1>6, <1>7, <1>8 DEF n

\* A byte inside a string.
LEMMA ByteInside ==
  ASSUME NEW s \in Seq(STRING), NEW i \in 1..Len(s), Inside(s, i - 1)
  PROVE  /\ Inside(s, i) <=> Escapes(s, i - 1) \/ s[i] # Quote
         /\ Escapes(s, i) <=> ~Escapes(s, i - 1) /\ s[i] = Backslash
         /\ Depth(s, i) = Depth(s, i - 1) /\ Opened(s, i) = Opened(s, i - 1)
         /\ Found(s, i) = Found(s, i - 1)
<1>1. i - 1 \in 0..Len(s)
  OBVIOUS
<1>2. Scan(s)[i] = Step(Scan(s)[i - 1], s[i])
  BY ScanRecursion
<1> DEFINE st == Scan(s)[i - 1]
           c == s[i]
<1>3. st \in ScanStates
  BY <1>1, Bytes
<1>4. st.inString
  BY DEF Inside
<1>5. Scan(s)[i] = InString(st, c)
  BY <1>2, <1>4 DEF Step
<1> HIDE DEF st, c
<1>6. /\ InString(st, c).inString <=> st.escaped \/ c # Quote
      /\ InString(st, c).escaped <=> ~st.escaped /\ c = Backslash
      /\ InString(st, c).depth = st.depth /\ InString(st, c).start = st.start
      /\ InString(st, c).spans = st.spans
  BY <1>3 DEF InString, ScanStates
<1> QED
  BY <1>5, <1>6 DEF st, c, Inside, Escapes, Depth, Opened, Found

\* The byte at i closes the outermost object.
Closes(s, i) == s[i] = RBrace /\ Depth(s, i - 1) = 1

\* A byte outside strings.
LEMMA ByteOutside ==
  ASSUME NEW s \in Seq(STRING), NEW i \in 1..Len(s), ~Inside(s, i - 1)
  PROVE  /\ Inside(s, i) <=> s[i] = Quote
         /\ Escapes(s, i) = Escapes(s, i - 1)
         /\ s[i] = LBrace => Depth(s, i) = Depth(s, i - 1) + 1
         /\ s[i] = RBrace => Depth(s, i) = IF Depth(s, i - 1) > 0 THEN Depth(s, i - 1) - 1
                                                               ELSE 0
         /\ s[i] \notin {LBrace, RBrace} => Depth(s, i) = Depth(s, i - 1)
         /\ Opened(s, i) = IF s[i] = LBrace /\ Depth(s, i - 1) = 0 THEN i
                           ELSE IF Closes(s, i) THEN 0 ELSE Opened(s, i - 1)
         /\ Found(s, i) = IF Closes(s, i)
                            THEN Append(Found(s, i - 1), <<Opened(s, i - 1), i>>)
                            ELSE Found(s, i - 1)
<1>1. i - 1 \in 0..Len(s)
  OBVIOUS
<1>2. Scan(s)[i] = Step(Scan(s)[i - 1], s[i])
  BY ScanRecursion
<1> DEFINE st == Scan(s)[i - 1]
           c == s[i]
<1>3. st \in ScanStates /\ st.pos = i - 1 /\ st.pos + 1 = i
  BY <1>1, Bytes
<1>4. ~st.inString
  BY DEF Inside
<1>5. Scan(s)[i] = Outside(st, c)
  BY <1>2, <1>4 DEF Step
<1> HIDE DEF st, c
<1> DEFINE closes == c = RBrace /\ st.depth = 1
           d == IF c = LBrace THEN st.depth + 1
                ELSE IF c = RBrace /\ st.depth > 0 THEN st.depth - 1 ELSE st.depth
           a == IF c = LBrace /\ st.depth = 0 THEN i ELSE IF closes THEN 0 ELSE st.start
           sp == IF closes THEN Append(st.spans, <<st.start, i>>) ELSE st.spans
           q == c = Quote
<1>6. Outside(st, c) = [st EXCEPT !.pos = i, !.inString = q, !.depth = d,
                                  !.start = a, !.spans = sp]
  BY <1>3 DEF Outside
<1>7. /\ Outside(st, c).inString = q /\ Outside(st, c).escaped = st.escaped
      /\ Outside(st, c).depth = d
      /\ Outside(st, c).start = a /\ Outside(st, c).spans = sp
  <2> HIDE DEF q, d, a, sp
  <2> QED BY <1>6, <1>3 DEF ScanStates
<1>8. Depth(s, i - 1) = st.depth /\ st.depth \in Nat
  BY <1>1, Bytes DEF Depth, st
<1>9. Inside(s, i) <=> s[i] = Quote
  BY <1>5, <1>7 DEF Inside, c
<1>10. Escapes(s, i) = Escapes(s, i - 1)
  BY <1>5, <1>7 DEF Escapes, st
<1>11. Depth(s, i) = d
  BY <1>5, <1>7 DEF Depth
<1>12. Opened(s, i) = a /\ Opened(s, i - 1) = st.start
  BY <1>5, <1>7 DEF Opened, st
<1>13. Found(s, i) = sp /\ Found(s, i - 1) = st.spans
  BY <1>5, <1>7 DEF Found, st
<1>14. Closes(s, i) <=> closes
  BY <1>8 DEF Closes, c
<1>15. /\ c = LBrace => d = st.depth + 1
       /\ c = RBrace => d = IF st.depth > 0 THEN st.depth - 1 ELSE 0
       /\ c \notin {LBrace, RBrace} => d = st.depth
  <2>1. c = LBrace => d = st.depth + 1
    OBVIOUS
  <2>2. ASSUME c = RBrace PROVE d = IF st.depth > 0 THEN st.depth - 1 ELSE 0
    <3>1. d = IF st.depth > 0 THEN st.depth - 1 ELSE st.depth
      BY <2>2, FourBytes
    <3>2. ~(st.depth > 0) => st.depth = 0
      BY <1>8
    <3> QED BY <3>1, <3>2
  <2>3. c \notin {LBrace, RBrace} => d = st.depth
    OBVIOUS
  <2> QED BY <2>1, <2>2, <2>3
<1> HIDE DEF d
<1>16. /\ s[i] = LBrace => Depth(s, i) = Depth(s, i - 1) + 1
       /\ s[i] = RBrace => Depth(s, i) = IF Depth(s, i - 1) > 0 THEN Depth(s, i - 1) - 1 ELSE 0
       /\ s[i] \notin {LBrace, RBrace} => Depth(s, i) = Depth(s, i - 1)
  BY <1>8, <1>11, <1>15 DEF c
<1>17. Opened(s, i) = IF s[i] = LBrace /\ Depth(s, i - 1) = 0 THEN i
                      ELSE IF Closes(s, i) THEN 0 ELSE Opened(s, i - 1)
  BY <1>8, <1>12, <1>14 DEF c
<1>18. Found(s, i) = IF Closes(s, i)
                       THEN Append(Found(s, i - 1), <<Opened(s, i - 1), i>>)
                       ELSE Found(s, i - 1)
  BY <1>12, <1>13, <1>14
<1> QED BY <1>9, <1>10, <1>16, <1>17, <1>18

\* Outside strings no byte is escaped.
LEMMA PlainOutside ==
  ASSUME NEW s \in Seq(STRING)
  PROVE  \A k \in 0..Len(s) : ~Inside(s, k) => ~Escapes(s, k)
<1> DEFINE n == Len(s)
           S == {k \in Nat : k \in 0..n /\ ~Inside(s, k) => ~Escapes(s, k)}
<1>1. n \in Nat
  OBVIOUS
<1>2. ASSUME NEW k \in Nat, \A m \in Nat : m < k => m \in S PROVE k \in S
  <2> SUFFICES ASSUME k \in 0..n, ~Inside(s, k) PROVE ~Escapes(s, k)
    OBVIOUS
  <2>1. CASE k = 0
    BY <2>1, Bytes
  <2>2. CASE k # 0
    <3>1. k - 1 \in Nat /\ k - 1 < k /\ k - 1 \in 0..n /\ k \in 1..n
      BY <2>2, <1>1
    <3>2. CASE Inside(s, k - 1)
      BY <3>1, <3>2, ByteInside, FourBytes
    <3>3. CASE ~Inside(s, k - 1)
      <4>1. ~Escapes(s, k - 1)
        BY <3>1, <3>3, <1>2
      <4> QED BY <3>1, <3>3, <4>1, ByteOutside
    <3> QED BY <3>2, <3>3
  <2> QED BY <2>1, <2>2
<1>3. Nat \subseteq S
  <2> HIDE DEF S
  <2> QED BY <1>2, Strong
<1> QED BY <1>1, <1>3

-----------------------------------------------------------------------------
(* String literals.                                                        *)

\* The backslashes right before k.
Trailing(s, i, k) ==
  {m \in (i + 1)..(k - 1) : \A x \in m..(k - 1) : s[x] = Backslash}

\* One more byte is one more backslash, or ends the row of them.
LEMMA TrailingNext ==
  ASSUME NEW s \in Seq(STRING), NEW i \in 1..Len(s), NEW k \in (i + 1)..Len(s)
  PROVE  /\ IsFiniteSet(Trailing(s, i, k)) /\ k \notin Trailing(s, i, k)
         /\ Trailing(s, i, k + 1) = IF s[k] = Backslash THEN Trailing(s, i, k) \cup {k}
                                                        ELSE {}
<1>0. i \in Nat /\ k \in Nat /\ i < k /\ (k + 1) - 1 = k
  OBVIOUS
<1>1. k \notin Trailing(s, i, k)
  BY <1>0 DEF Trailing
<1>2. IsFiniteSet(Trailing(s, i, k))
  <2>1. IsFiniteSet((i + 1)..(k - 1))
    BY <1>0, FS_Interval
  <2> QED BY <2>1, FS_Subset DEF Trailing
<1>2a. Trailing(s, i, k + 1) = {m \in (i + 1)..k : \A x \in m..k : s[x] = Backslash}
  <2>1. Trailing(s, i, k + 1) = {m \in (i + 1)..((k + 1) - 1) :
                                   \A x \in m..((k + 1) - 1) : s[x] = Backslash}
    BY DEF Trailing
  <2>2. (k + 1) - 1 = k
    BY <1>0
  <2> HIDE DEF Trailing
  <2> QED BY <2>1, <2>2
<1>3. CASE s[k] = Backslash
  <2>1. ASSUME NEW m \in (i + 1)..k
        PROVE  (\A x \in m..k : s[x] = Backslash)
               <=> m = k \/ (m \in (i + 1)..(k - 1) /\ \A x \in m..(k - 1) : s[x] = Backslash)
    BY <1>0, <1>3
  <2>2. \A m : m \in (i + 1)..k <=> m = k \/ m \in (i + 1)..(k - 1)
    BY <1>0
  <2>3. ASSUME NEW m
        PROVE  m \in Trailing(s, i, k + 1) <=> m \in Trailing(s, i, k) \cup {k}
    <3>1. m \in Trailing(s, i, k + 1) <=> m \in (i + 1)..k /\ \A x \in m..k : s[x] = Backslash
      BY <1>2a
    <3>2. m \in Trailing(s, i, k)
          <=> m \in (i + 1)..(k - 1) /\ \A x \in m..(k - 1) : s[x] = Backslash
      BY DEF Trailing
    <3> QED BY <3>1, <3>2, <2>1, <2>2
  <2>4. Trailing(s, i, k + 1) = Trailing(s, i, k) \cup {k}
    BY <2>3
  <2> QED BY <1>1, <1>2, <1>3, <2>4
<1>4. CASE s[k] # Backslash
  <2>1. \A m \in (i + 1)..k : k \in m..k
    BY <1>0
  <2>2. ASSUME NEW m \in Trailing(s, i, k + 1) PROVE FALSE
    <3>1. m \in (i + 1)..k /\ \A x \in m..k : s[x] = Backslash
      BY <1>2a
    <3> QED BY <3>1, <2>1, <1>4
  <2>3. Trailing(s, i, k + 1) = {}
    BY <2>2
  <2> QED BY <1>1, <1>2, <1>4, <2>3
<1> QED BY <1>3, <1>4

\* Within a string the scanner counts backslashes modulo two.
LEMMA EscapesIsEscaped ==
  ASSUME NEW s \in Seq(STRING), NEW i \in 1..Len(s), s[i] = Quote, ~Inside(s, i - 1)
  PROVE  \A k \in (i + 1)..Len(s) :
           (\A m \in i..(k - 1) : Inside(s, m)) => (Escapes(s, k - 1) <=> Escaped(s, i, k))
<1> DEFINE n == Len(s)
           Row(k) == \A m \in i..(k - 1) : Inside(s, m)
           S == {k \in Nat : k \in (i + 1)..n /\ Row(k)
                               => (Escapes(s, k - 1) <=> Escaped(s, i, k))}
<1>0. n \in Nat /\ i \in Nat /\ i <= n /\ i >= 1
  OBVIOUS
<1>1. ASSUME NEW k \in Nat, \A m \in Nat : m < k => m \in S PROVE k \in S
  <2> SUFFICES ASSUME k \in (i + 1)..n, Row(k)
               PROVE  Escapes(s, k - 1) <=> Escaped(s, i, k)
    OBVIOUS
  <2>1. CASE k = i + 1
    <3>1. ~Escapes(s, i)
      <4>1. i - 1 \in 0..n
        BY <1>0
      <4>2. ~Escapes(s, i - 1)
        BY <4>1, PlainOutside
      <4> QED BY <4>2, ByteOutside
    <3>2. Trailing(s, i, k) = {}
      BY <2>1, <1>0 DEF Trailing
    <3>3. ~Escaped(s, i, k)
      <4>1. Cardinality(Trailing(s, i, k)) = 0
        BY <3>2, FS_EmptySet
      <4> QED BY <4>1 DEF Escaped, Trailing
    <3>4. k - 1 = i
      BY <2>1, <1>0
    <3> QED BY <3>1, <3>3, <3>4
  <2>2. CASE k # i + 1
    <3> DEFINE j == k - 1
    <3>1. j \in Nat /\ j < k /\ j \in (i + 1)..n /\ j \in 1..n /\ k = j + 1
      BY <2>2, <1>0
    <3>2. Row(j) /\ Inside(s, j - 1)
      <4>1. \A m \in i..(j - 1) : m \in i..(k - 1)
        BY <3>1, <1>0
      <4>2. j - 1 \in i..(k - 1)
        BY <3>1, <1>0
      <4> QED BY <4>1, <4>2
    <3>3. Escapes(s, j - 1) <=> Escaped(s, i, j)
      BY <3>1, <3>2, <1>1
    <3>4. Escapes(s, j) <=> ~Escapes(s, j - 1) /\ s[j] = Backslash
      BY <3>1, <3>2, ByteInside
    <3> HIDE DEF j
    <3> DEFINE T == Trailing(s, i, j)
    <3>5. IsFiniteSet(T) /\ j \notin T
      BY <3>1, TrailingNext
    <3>6. Cardinality(T) \in Nat /\ Cardinality(T \cup {j}) = Cardinality(T) + 1
      BY <3>5, FS_CardinalityType, FS_AddElement
    <3>7. Trailing(s, i, k) = IF s[j] = Backslash THEN T \cup {j} ELSE {}
      BY <3>1, TrailingNext
    <3>8. Escaped(s, i, j) <=> Cardinality(T) % 2 = 1
      BY DEF Escaped, Trailing
    <3>9. Escaped(s, i, k) <=> Cardinality(Trailing(s, i, k)) % 2 = 1
      BY DEF Escaped, Trailing
    <3>10. \A c \in Nat : (c + 1) % 2 = 1 <=> ~(c % 2 = 1)
      OBVIOUS
    <3>11. CASE s[j] = Backslash
      <4>1. Escaped(s, i, k) <=> (Cardinality(T) + 1) % 2 = 1
        BY <3>6, <3>7, <3>9, <3>11
      <4>2. Escaped(s, i, k) <=> ~Escaped(s, i, j)
        BY <4>1, <3>6, <3>8, <3>10
      <4> QED BY <4>2, <3>3, <3>4, <3>11 DEF j
    <3>12. CASE s[j] # Backslash
      <4>1. Cardinality(Trailing(s, i, k)) = 0
        BY <3>7, <3>12, FS_EmptySet
      <4>2. ~Escaped(s, i, k)
        BY <4>1, <3>9
      <4> QED BY <4>2, <3>4, <3>12 DEF j
    <3> QED BY <3>11, <3>12
  <2> QED BY <2>1, <2>2
<1>2. Nat \subseteq S
  <2> HIDE DEF S
  <2> QED BY <1>1, Strong
<1>3. ASSUME NEW k \in (i + 1)..n, Row(k) PROVE Escapes(s, k - 1) <=> Escaped(s, i, k)
  <2>1. k \in Nat
    BY <1>0
  <2> QED BY <2>1, <1>2, <1>3
<1> QED BY <1>3

\* The literal that begins at i, outside any string, ends where the scanner is
\* outside again for the first time.
LEMMA LiteralScanned ==
  ASSUME NEW s \in Seq(STRING), NEW i \in 1..Len(s), NEW j \in 1..Len(s), ~Inside(s, i - 1)
  PROVE  Literal(s, i, j) <=> /\ i < j /\ s[i] = Quote
                              /\ ~Inside(s, j) /\ \A m \in i..(j - 1) : Inside(s, m)
<1>0. Len(s) \in Nat /\ i \in Nat /\ j \in Nat /\ i <= Len(s) /\ j <= Len(s) /\ i >= 1
  OBVIOUS
<1> SUFFICES ASSUME i < j, s[i] = Quote
             PROVE  Literal(s, i, j) <=> ~Inside(s, j) /\ \A m \in i..(j - 1) : Inside(s, m)
  BY DEF Literal
<1>1. ASSUME NEW k \in (i + 1)..j, \A m \in i..(k - 1) : Inside(s, m)
      PROVE  Inside(s, k) <=> Escaped(s, i, k) \/ s[k] # Quote
  <2>1. k \in 1..Len(s) /\ k \in (i + 1)..Len(s) /\ k - 1 \in i..(k - 1)
    BY <1>0
  <2>2. Inside(s, k - 1)
    BY <2>1, <1>1
  <2>3. Escapes(s, k - 1) <=> Escaped(s, i, k)
    BY <2>1, <1>1, EscapesIsEscaped
  <2> QED BY <2>1, <2>2, <2>3, ByteInside
<1>2. ASSUME Literal(s, i, j)
      PROVE  ~Inside(s, j) /\ \A m \in i..(j - 1) : Inside(s, m)
  <2> DEFINE S == {k \in Nat : k \in i..(j - 1) => Inside(s, k)}
  <2>1. ASSUME NEW k \in Nat, \A m \in Nat : m < k => m \in S PROVE k \in S
    <3> SUFFICES ASSUME k \in i..(j - 1) PROVE Inside(s, k)
      OBVIOUS
    <3>1. CASE k = i
      BY <3>1, ByteOutside
    <3>2. CASE k # i
      <4>1. k \in (i + 1)..j /\ k < j
        BY <3>2, <1>0
      <4>2. \A m \in i..(k - 1) : m \in Nat /\ m < k /\ m \in i..(j - 1)
        BY <4>1, <1>0
      <4>3. \A m \in i..(k - 1) : Inside(s, m)
        BY <4>2, <2>1
      <4>4. s[k] = Quote => Escaped(s, i, k)
        BY <4>1, <1>2 DEF Literal
      <4> QED BY <4>1, <4>3, <4>4, <1>1
    <3> QED BY <3>1, <3>2
  <2>2. Nat \subseteq S
    <3> HIDE DEF S
    <3> QED BY <2>1, Strong
  <2>3. \A m \in i..(j - 1) : Inside(s, m)
    BY <2>2, <1>0
  <2>4. j \in (i + 1)..j /\ ~(j < j)
    BY <1>0
  <2>5. s[j] = Quote /\ ~Escaped(s, i, j)
    BY <2>4, <1>2 DEF Literal
  <2> QED BY <2>3, <2>4, <2>5, <1>1
<1>3. ASSUME ~Inside(s, j), \A m \in i..(j - 1) : Inside(s, m)
      PROVE  Literal(s, i, j)
  <2>1. ASSUME NEW k \in (i + 1)..j, s[k] = Quote PROVE Escaped(s, i, k) <=> k < j
    <3>1. \A m \in i..(k - 1) : m \in i..(j - 1)
      BY <1>0
    <3>2. Inside(s, k) <=> Escaped(s, i, k)
      BY <3>1, <1>3, <2>1, <1>1
    <3>3. CASE k = j
      BY <3>2, <3>3, <1>3, <1>0
    <3>4. CASE k # j
      <4>1. k \in i..(j - 1) /\ k < j
        BY <3>4, <1>0
      <4> QED BY <4>1, <3>2, <1>3
    <3> QED BY <3>3, <3>4
  <2>2. s[j] = Quote
    <3>1. j \in (i + 1)..j
      BY <1>0
    <3> QED BY <3>1, <1>1, <1>3
  <2> QED BY <2>1, <2>2 DEF Literal
<1> QED BY <1>2, <1>3

\* Nothing nests inside a string.
LEMMA DepthInside ==
  ASSUME NEW s \in Seq(STRING), NEW i \in 0..Len(s), NEW j \in i..Len(s),
         \A m \in i..(j - 1) : Inside(s, m)
  PROVE  \A m \in i..j : Depth(s, m) = Depth(s, i)
<1> DEFINE S == {m \in Nat : m \in i..j => Depth(s, m) = Depth(s, i)}
<1>0. Len(s) \in Nat /\ i \in Nat /\ j \in Nat /\ j <= Len(s)
  OBVIOUS
<1>1. ASSUME NEW k \in Nat, \A m \in Nat : m < k => m \in S PROVE k \in S
  <2> SUFFICES ASSUME k \in i..j, k # i PROVE Depth(s, k) = Depth(s, i)
    OBVIOUS
  <2>1. k - 1 \in Nat /\ k - 1 < k /\ k - 1 \in i..j /\ k - 1 \in i..(j - 1) /\ k \in 1..Len(s)
    BY <1>0
  <2>2. Depth(s, k - 1) = Depth(s, i)
    BY <2>1, <1>1
  <2> QED BY <2>1, <2>2, ByteInside
<1>2. Nat \subseteq S
  <2> HIDE DEF S
  <2> QED BY <1>1, Strong
<1> QED BY <1>0, <1>2

\* A string that has ended by j was a literal.
LEMMA StringEnds ==
  ASSUME NEW s \in Seq(STRING), NEW i \in 1..Len(s), NEW j \in i..Len(s),
         s[i] = Quote, ~Inside(s, i - 1), ~Inside(s, j)
  PROVE  \E k \in (i + 1)..j : Literal(s, i, k)
<1>0. Len(s) \in Nat /\ i \in Nat /\ j \in Nat /\ j <= Len(s) /\ i >= 1
  OBVIOUS
<1> DEFINE S == {k \in i..j : ~Inside(s, k)}
<1>1. S \subseteq Nat /\ j \in S
  BY <1>0
<1>2. PICK k \in S : \A m \in S : k <= m
  BY <1>1, Least
<1>3. Inside(s, i)
  BY ByteOutside
<1>4. k \in (i + 1)..j /\ k \in 1..Len(s)
  BY <1>0, <1>3
<1>5. \A m \in i..(k - 1) : Inside(s, m)
  <2> SUFFICES ASSUME NEW m \in i..(k - 1), ~Inside(s, m) PROVE FALSE
    OBVIOUS
  <2>1. m \in i..j /\ m < k
    BY <1>0, <1>4
  <2>2. m \in S
    BY <2>1
  <2> QED BY <2>1, <2>2, <1>2, <1>0
<1>6. ~Inside(s, k)
  OBVIOUS
<1> HIDE DEF S
<1>7. Literal(s, i, k)
  BY <1>0, <1>4, <1>5, <1>6, LiteralScanned
<1> QED BY <1>4, <1>7

\* After a literal the depth is what it was before it, and all the way.
LEMMA LiteralDepth ==
  ASSUME NEW s \in Seq(STRING), NEW i \in 1..Len(s), NEW j \in 1..Len(s), ~Inside(s, i - 1),
         Literal(s, i, j)
  PROVE  \A m \in (i - 1)..j : Depth(s, m) = Depth(s, i - 1)
<1>0. Len(s) \in Nat /\ i \in Nat /\ j \in Nat /\ j <= Len(s) /\ i >= 1
  OBVIOUS
<1>1. i < j /\ s[i] = Quote /\ \A m \in i..(j - 1) : Inside(s, m)
  BY LiteralScanned
<1>2. Depth(s, i) = Depth(s, i - 1)
  BY <1>1, ByteOutside, FourBytes
<1>3. \A m \in i..j : Depth(s, m) = Depth(s, i)
  BY <1>0, <1>1, DepthInside
<1> QED BY <1>0, <1>2, <1>3

-----------------------------------------------------------------------------
(* Objects.                                                                *)

\* From a on, the scanner does not leave the level it is on, and at b it is on
\* it, outside strings.
Level(s, a, b) ==
  /\ ~Inside(s, b) /\ Depth(s, b) = Depth(s, a)
  /\ \A m \in a..b : Depth(s, m) >= Depth(s, a)

\* What comes after a stretch that ends on its own level.
LEMMA LevelJoins ==
  ASSUME NEW s \in Seq(STRING), NEW a \in 0..Len(s), NEW b \in a..Len(s), NEW c \in b..Len(s),
         Depth(s, b) = Depth(s, a), \A m \in a..b : Depth(s, m) >= Depth(s, a)
  PROVE  Level(s, a, c) <=> Level(s, b, c)
<1>1. \A m \in a..c : m \in a..b \/ m \in b..c
  OBVIOUS
<1>2. \A m \in b..c : m \in a..c
  OBVIOUS
<1> QED BY <1>1, <1>2 DEF Level

\* A brace that opened has been closed once the scanner is where it was.
LEMMA ObjectCloses ==
  ASSUME NEW s \in Seq(STRING), NEW i \in 1..Len(s), NEW j \in i..Len(s),
         s[i] = LBrace, ~Inside(s, i - 1), Depth(s, j) = Depth(s, i - 1)
  PROVE  \E k \in (i + 1)..j :
           /\ s[k] = RBrace /\ Level(s, i, k - 1)
           /\ ~Inside(s, k) /\ Depth(s, k) = Depth(s, i - 1)
           /\ \A m \in (i - 1)..k : Depth(s, m) >= Depth(s, i - 1)
<1> DEFINE n == Len(s)
           d == Depth(s, i - 1)
           S == {k \in i..j : Depth(s, k) <= d}
<1>0. n \in Nat /\ i \in Nat /\ j \in Nat /\ j <= n /\ i >= 1 /\ i <= j
  OBVIOUS
<1>0a. \A m \in 0..n : Depth(s, m) \in Nat
  BY Bytes
<1>0b. d \in Nat
  BY <1>0, <1>0a
<1>1. Depth(s, i) = d + 1
  BY ByteOutside
<1>2. S \subseteq Nat /\ j \in S
  BY <1>0, <1>0b
<1>3. PICK k \in S : \A m \in S : k <= m
  BY <1>2, Least
<1>4. k \in i..j /\ Depth(s, k) <= d
  OBVIOUS
<1>5. k # i
  BY <1>0b, <1>1, <1>4
<1>6. k \in (i + 1)..j /\ k \in 1..n /\ k - 1 \in i..j /\ k - 1 \in 0..n /\ k \in 0..n
  BY <1>0, <1>4, <1>5
<1>7. ASSUME NEW m \in i..(k - 1) PROVE Depth(s, m) >= d + 1
  <2>1. m \in i..j /\ m < k /\ m \in 0..n
    BY <1>0, <1>6
  <2>2. m \notin S
    BY <2>1, <1>3, <1>0
  <2>3. ~(Depth(s, m) <= d) /\ Depth(s, m) \in Nat
    BY <2>1, <2>2, <1>0a
  <2> QED BY <2>3, <1>0b
<1> HIDE DEF S, d, n
<1>8. Depth(s, k - 1) >= d + 1 /\ Depth(s, k - 1) \in Nat /\ Depth(s, k) \in Nat
  BY <1>0a, <1>6, <1>7
<1>9. ~Inside(s, k - 1)
  <2>1. Depth(s, k) # Depth(s, k - 1)
    BY <1>4, <1>8, <1>0b
  <2> QED BY <2>1, <1>6, ByteInside DEF n
<1>10. s[k] = RBrace /\ Depth(s, k - 1) = d + 1 /\ Depth(s, k) = d /\ ~Inside(s, k)
  <2>1. /\ s[k] = LBrace => Depth(s, k) = Depth(s, k - 1) + 1
        /\ s[k] = RBrace => Depth(s, k) = IF Depth(s, k - 1) > 0 THEN Depth(s, k - 1) - 1 ELSE 0
        /\ s[k] \notin {LBrace, RBrace} => Depth(s, k) = Depth(s, k - 1)
        /\ Inside(s, k) <=> s[k] = Quote
    BY <1>6, <1>9, ByteOutside DEF n
  <2>2. s[k] # LBrace
    BY <2>1, <1>4, <1>8, <1>0b
  <2>3. s[k] = RBrace
    BY <2>1, <2>2, <1>4, <1>8, <1>0b
  <2> QED BY <2>1, <2>3, <1>4, <1>8, <1>0b, FourBytes
<1>11. Level(s, i, k - 1)
  BY <1>1, <1>7, <1>9, <1>10 DEF Level
<1>12. ASSUME NEW m \in (i - 1)..k PROVE Depth(s, m) >= d
  <2>1. m = i - 1 \/ m = k \/ m \in i..(k - 1)
    BY <1>0, <1>6
  <2>2. CASE m = i - 1
    BY <2>2, <1>0b DEF d
  <2>3. CASE m = k
    BY <2>3, <1>10, <1>0b
  <2>4. CASE m \in i..(k - 1)
    <3>1. Depth(s, m) \in Nat
      BY <2>4, <1>0, <1>0a, <1>6
    <3> QED BY <3>1, <2>4, <1>7, <1>0b
  <2> QED BY <2>1, <2>2, <2>3, <2>4
<1> QED BY <1>6, <1>10, <1>11, <1>12 DEF d

\* One step of the grammar of bodies.
BodyOf(s, body, i, j) ==
  \/ i > j
  \/ s[i] \notin {Quote, LBrace, RBrace} /\ body[<<i + 1, j>>]
  \/ \E k \in (i + 1)..j :
       /\ \/ Literal(s, i, k)
          \/ s[i] = LBrace /\ s[k] = RBrace /\ body[<<i + 1, k - 1>>]
       /\ body[<<k + 1, j>>]

\* The grammar of bodies is well founded: its recursion defines a function.
LEMMA BodiesRecursion ==
  ASSUME NEW s \in Seq(STRING)
  PROVE  \A i \in 1..(Len(s) + 1), j \in 0..Len(s) :
           Bodies(s)[<<i, j>>] <=> BodyOf(s, Bodies(s), i, j)
<1> DEFINE n == Len(s)
           D == (1..(n + 1)) \X (0..n)
           Def(f) == [o \in D |-> BodyOf(s, f, o[1], o[2])]
           F == [f \in [D -> BOOLEAN] |-> Def(f)]
           mu == [o \in D |-> IF o[1] > o[2] THEN 0 ELSE (o[2] - o[1]) + 1]
<1>0. n \in Nat
  OBVIOUS
<1>1. ASSUME NEW f \in [D -> BOOLEAN], NEW g \in [D -> BOOLEAN], NEW p \in D,
             \A q \in D : mu[q] < mu[p] => f[q] = g[q]
      PROVE  F[f][p] = F[g][p]
  <2> DEFINE i == p[1]
             j == p[2]
  <2>1. i \in 1..(n + 1) /\ j \in 0..n /\ p = <<i, j>>
    OBVIOUS
  <2>2. ASSUME NEW a \in (i + 1)..(j + 1), NEW b \in 0..j, i <= j PROVE f[<<a, b>>] = g[<<a, b>>]
    <3>1. a \in 1..(n + 1) /\ b \in 0..n
      BY <2>1, <2>2, <1>0
    <3>2. <<a, b>> \in D
      BY <3>1
    <3>3. mu[<<a, b>>] = IF a > b THEN 0 ELSE (b - a) + 1
      BY <3>2
    <3>4. mu[p] = (j - i) + 1
      BY <2>1, <2>2
    <3>5. mu[<<a, b>>] < mu[p]
      BY <3>3, <3>4, <3>1, <2>1, <2>2, <1>0
    <3> QED BY <3>2, <3>5, <1>1
  <2>3. BodyOf(s, f, i, j) <=> BodyOf(s, g, i, j)
    <3>1. CASE i > j
      BY <3>1 DEF BodyOf
    <3>2. CASE ~(i > j)
      <4>1. i <= j /\ i + 1 \in (i + 1)..(j + 1) /\ j \in 0..j
        BY <3>2, <2>1, <1>0
      <4>2. f[<<i + 1, j>>] = g[<<i + 1, j>>]
        BY <4>1, <2>2
      <4>3. ASSUME NEW k \in (i + 1)..j
            PROVE  f[<<i + 1, k - 1>>] = g[<<i + 1, k - 1>>] /\ f[<<k + 1, j>>] = g[<<k + 1, j>>]
        <5>1. k - 1 \in 0..j /\ k + 1 \in (i + 1)..(j + 1)
          BY <2>1, <1>0
        <5> QED BY <5>1, <4>1, <2>2
      <4> HIDE DEF i, j
      <4> QED BY <4>2, <4>3 DEF BodyOf
    <3> QED BY <3>1, <3>2
  <2>4. F[f][p] = BodyOf(s, f, i, j) /\ F[g][p] = BodyOf(s, g, i, j)
    OBVIOUS
  <2>5. BodyOf(s, f, i, j) \in BOOLEAN /\ BodyOf(s, g, i, j) \in BOOLEAN
    BY DEF BodyOf
  <2> QED BY <2>3, <2>4, <2>5
<1>2. \A f, g \in [D -> BOOLEAN] : \A p \in D :
         (\A q \in D : mu[q] < mu[p] => f[q] = g[q]) => F[f][p] = F[g][p]
  <2> HIDE DEF D, F, mu, n
  <2> QED BY <1>1
<1>3. F \in [[D -> BOOLEAN] -> [D -> BOOLEAN]]
  <2>1. \A f, i, j : BodyOf(s, f, i, j) \in BOOLEAN
    BY DEF BodyOf
  <2> QED BY <2>1
<1>4. mu \in [D -> Nat] /\ \A p \in D : mu[p] <= n
  BY <1>0
<1>5. \E f \in [D -> BOOLEAN] : F[f] = f
  <2> HIDE DEF D, F, mu, n, Def
  <2>1. WellFounded(D, BOOLEAN, mu, n, F)
    BY <1>0, <1>2, <1>3, <1>4 DEF WellFounded
  <2> QED BY <2>1, Recursion
<1>6. PICK f \in [D -> BOOLEAN] : f = Def(f)
  BY <1>5
<1>7. Bodies(s) = CHOOSE g : g = Def(g)
  BY DEF Bodies, BodyOf
<1>8. Bodies(s) = Def(Bodies(s))
  <2> HIDE DEF Def
  <2> QED BY <1>6, <1>7
<1>9. ASSUME NEW i \in 1..(n + 1), NEW j \in 0..n
      PROVE  Bodies(s)[<<i, j>>] = BodyOf(s, Bodies(s), i, j)
  <2>1. <<i, j>> \in D
    OBVIOUS
  <2>2. Def(Bodies(s))[<<i, j>>] = BodyOf(s, Bodies(s), i, j)
    BY <2>1
  <2> QED BY <2>2, <1>8
<1> QED BY <1>9

\* Inside an object and outside strings, a stretch of text is a body just when
\* the scanner ends it on the level it began on and never leaves that level.
IsBody(s, i, j) == Bodies(s)[<<i, j>>]

Inner(s, i, j) ==
  /\ i \in 1..(Len(s) + 1) /\ j \in 0..Len(s) /\ i <= j + 1
  /\ ~Inside(s, i - 1) /\ Depth(s, i - 1) >= 1

BodiesScannedUpTo(s, n) ==
  \A i \in 1..(Len(s) + 1), j \in 0..Len(s) :
    Inner(s, i, j) /\ (j + 1) - i < n => (IsBody(s, i, j) <=> Level(s, i - 1, j))

\* The step of that induction: what the grammar takes for a body, the scanner
\* leaves on its own level.
LEMMA BodyIsLevel ==
  ASSUME NEW s \in Seq(STRING), NEW i \in 1..(Len(s) + 1), NEW j \in 0..Len(s),
         Inner(s, i, j), BodiesScannedUpTo(s, (j + 1) - i), IsBody(s, i, j)
  PROVE  Level(s, i - 1, j)
<1> DEFINE n == Len(s)
<1>0. n \in Nat /\ i \in Nat /\ j \in Nat /\ i >= 1 /\ j <= n /\ i <= j + 1
  BY DEF Inner
<1>0a. ~Inside(s, i - 1) /\ Depth(s, i - 1) >= 1 /\ i - 1 \in 0..n
  BY <1>0 DEF Inner
<1>0b. \A m \in 0..n : Depth(s, m) \in Nat
  BY Bytes
<1>0c. Depth(s, i - 1) \in Nat
  BY <1>0a, <1>0b
<1>1. CASE i > j
  <2>1. j = i - 1 /\ \A m \in (i - 1)..j : m = i - 1
    BY <1>1, <1>0
  <2> QED BY <2>1, <1>0a, <1>0c DEF Level
<1>2. CASE ~(i > j)
  <2>1. i \in 1..n /\ i <= j /\ i + 1 \in 1..(n + 1)
    BY <1>2, <1>0
  <2>2. BodyOf(s, Bodies(s), i, j)
    BY BodiesRecursion DEF IsBody
  <2>3. CASE s[i] \notin {Quote, LBrace, RBrace} /\ IsBody(s, i + 1, j)
    <3>1. ~Inside(s, i) /\ Depth(s, i) = Depth(s, i - 1)
      BY <2>1, <2>3, <1>0a, ByteOutside
    <3>2. (i + 1) - 1 = i /\ (j + 1) - (i + 1) < (j + 1) - i /\ i + 1 <= j + 1
      BY <1>0, <2>1
    <3>3. Inner(s, i + 1, j)
      BY <2>1, <3>1, <3>2, <1>0a DEF Inner
    <3>4. Level(s, i, j)
      BY <3>2, <3>3, <2>1, <2>3 DEF BodiesScannedUpTo
    <3>5. \A m \in (i - 1)..i : Depth(s, m) >= Depth(s, i - 1)
      <4>1. \A m \in (i - 1)..i : m = i - 1 \/ m = i
        BY <1>0
      <4> QED BY <4>1, <3>1, <1>0c
    <3>6. i \in (i - 1)..n /\ j \in i..n
      BY <1>0, <2>1
    <3> QED BY <3>1, <3>4, <3>5, <3>6, <1>0a, LevelJoins
  <2>4. ASSUME NEW k \in (i + 1)..j, IsBody(s, k + 1, j),
               ~Inside(s, k), Depth(s, k) = Depth(s, i - 1),
               \A m \in (i - 1)..k : Depth(s, m) >= Depth(s, i - 1)
        PROVE  Level(s, i - 1, j)
    <3>1. /\ k + 1 \in 1..(n + 1) /\ (k + 1) - 1 = k /\ (j + 1) - (k + 1) < (j + 1) - i
          /\ k + 1 <= j + 1
      BY <1>0
    <3>2. Inner(s, k + 1, j)
      BY <3>1, <2>4, <1>0a DEF Inner
    <3>3. Level(s, k, j)
      BY <3>1, <3>2, <2>4 DEF BodiesScannedUpTo
    <3>4. k \in (i - 1)..n /\ j \in k..n
      BY <1>0
    <3> QED BY <3>3, <3>4, <2>4, <1>0a, LevelJoins
  <2>5. ASSUME NEW k \in (i + 1)..j, Literal(s, i, k), IsBody(s, k + 1, j)
        PROVE  Level(s, i - 1, j)
    <3>1. k \in 1..n /\ k \in (i - 1)..k
      BY <1>0
    <3>2. ~Inside(s, k)
      BY <3>1, <2>1, <2>5, <1>0a, LiteralScanned
    <3>3. \A m \in (i - 1)..k : Depth(s, m) = Depth(s, i - 1)
      BY <3>1, <2>1, <2>5, <1>0a, LiteralDepth
    <3>4. \A m \in (i - 1)..k : Depth(s, m) >= Depth(s, i - 1)
      BY <3>3, <1>0c
    <3> QED BY <3>1, <3>2, <3>3, <3>4, <2>4, <2>5
  <2>6. ASSUME NEW k \in (i + 1)..j, s[i] = LBrace, s[k] = RBrace, IsBody(s, i + 1, k - 1),
               IsBody(s, k + 1, j)
        PROVE  Level(s, i - 1, j)
    <3>1. ~Inside(s, i) /\ Depth(s, i) = Depth(s, i - 1) + 1
      BY <2>1, <2>6, <1>0a, ByteOutside, FourBytes
    <3>2. /\ k \in Nat /\ k - 1 \in 0..n /\ (i + 1) - 1 = i /\ i + 1 <= (k - 1) + 1
          /\ ((k - 1) + 1) - (i + 1) < (j + 1) - i /\ k \in 1..n /\ i \in i..(k - 1)
      BY <1>0, <2>1
    <3>3. Inner(s, i + 1, k - 1)
      BY <2>1, <3>1, <3>2, <1>0a, <1>0c DEF Inner
    <3>4. Level(s, i, k - 1)
      BY <3>2, <3>3, <2>1, <2>6 DEF BodiesScannedUpTo
    <3>5. ~Inside(s, k - 1) /\ Depth(s, k - 1) = Depth(s, i - 1) + 1
      BY <3>1, <3>4 DEF Level
    <3>6. ~Inside(s, k) /\ Depth(s, k) = Depth(s, i - 1)
      <4>1. Depth(s, k) = IF Depth(s, k - 1) > 0 THEN Depth(s, k - 1) - 1 ELSE 0
        BY <3>2, <3>5, <2>6, ByteOutside
      <4>2. Inside(s, k) <=> s[k] = Quote
        BY <3>2, <3>5, ByteOutside
      <4>3. s[k] # Quote
        BY <2>6, FourBytes
      <4>4. Depth(s, k) = Depth(s, i - 1)
        BY <4>1, <3>5, <1>0c
      <4> QED BY <4>2, <4>3, <4>4
    <3>7. ASSUME NEW m \in (i - 1)..k PROVE Depth(s, m) >= Depth(s, i - 1)
      <4>1. m = i - 1 \/ m = k \/ m \in i..(k - 1)
        BY <1>0
      <4>2. CASE m \in i..(k - 1)
        <5>1. Depth(s, m) >= Depth(s, i - 1) + 1
          BY <4>2, <3>1, <3>4 DEF Level
        <5>2. m \in 0..n
          BY <4>2, <3>2, <1>0
        <5>3. Depth(s, m) \in Nat
          BY <5>2, <1>0b
        <5> QED BY <5>1, <5>3, <1>0c
      <4> QED BY <4>1, <4>2, <3>6, <1>0c
    <3> QED BY <3>6, <3>7, <2>4, <2>6
  <2> QED BY <2>2, <2>3, <2>5, <2>6, <1>2 DEF BodyOf, IsBody
<1> QED BY <1>1, <1>2

\* And where the scanner leaves a stretch on its own level, the grammar finds a body.
LEMMA LevelIsBody ==
  ASSUME NEW s \in Seq(STRING), NEW i \in 1..(Len(s) + 1), NEW j \in 0..Len(s),
         Inner(s, i, j), BodiesScannedUpTo(s, (j + 1) - i), Level(s, i - 1, j)
  PROVE  IsBody(s, i, j)
<1> DEFINE n == Len(s)
<1>0. n \in Nat /\ i \in Nat /\ j \in Nat /\ i >= 1 /\ j <= n /\ i <= j + 1
  BY DEF Inner
<1>0a. ~Inside(s, i - 1) /\ Depth(s, i - 1) >= 1 /\ i - 1 \in 0..n
  BY <1>0 DEF Inner
<1>0b. \A m \in 0..n : Depth(s, m) \in Nat
  BY Bytes
<1>0c. Depth(s, i - 1) \in Nat
  BY <1>0a, <1>0b
<1> SUFFICES BodyOf(s, Bodies(s), i, j)
  BY BodiesRecursion DEF IsBody
<1>1. CASE i > j
  BY <1>1 DEF BodyOf
<1>2. CASE ~(i > j)
  <2>1. i \in 1..n /\ i <= j /\ i + 1 \in 1..(n + 1) /\ j \in i..n
    BY <1>2, <1>0
  <2>2. ~Inside(s, j) /\ Depth(s, j) = Depth(s, i - 1)
    BY DEF Level
  <2>3. ASSUME NEW k \in (i + 1)..j, ~Inside(s, k), Depth(s, k) = Depth(s, i - 1),
               \A m \in (i - 1)..k : Depth(s, m) >= Depth(s, i - 1)
        PROVE  IsBody(s, k + 1, j)
    <3>1. /\ k + 1 \in 1..(n + 1) /\ (k + 1) - 1 = k /\ (j + 1) - (k + 1) < (j + 1) - i
          /\ k + 1 <= j + 1
      BY <1>0
    <3>2. Inner(s, k + 1, j)
      BY <3>1, <2>3, <1>0a DEF Inner
    <3>3. k \in (i - 1)..n /\ j \in k..n
      BY <1>0
    <3>4. Level(s, k, j)
      BY <3>3, <2>3, <1>0a, LevelJoins
    <3> QED BY <3>1, <3>2, <3>4 DEF BodiesScannedUpTo
  <2>4. CASE s[i] = Quote
    <3>1. PICK k \in (i + 1)..j : Literal(s, i, k)
      BY <2>1, <2>2, <2>4, <1>0a, StringEnds
    <3>2. k \in 1..n /\ k \in (i - 1)..k
      BY <1>0
    <3>3. ~Inside(s, k)
      BY <3>1, <3>2, <2>1, <1>0a, LiteralScanned
    <3>4. \A m \in (i - 1)..k : Depth(s, m) = Depth(s, i - 1)
      BY <3>1, <3>2, <2>1, <1>0a, LiteralDepth
    <3>5. \A m \in (i - 1)..k : Depth(s, m) >= Depth(s, i - 1)
      BY <3>4, <1>0c
    <3>6. IsBody(s, k + 1, j)
      BY <3>2, <3>3, <3>4, <3>5, <2>3
    <3> QED BY <3>1, <3>6 DEF BodyOf, IsBody
  <2>5. CASE s[i] = LBrace
    <3>1. PICK k \in (i + 1)..j :
            /\ s[k] = RBrace /\ Level(s, i, k - 1)
            /\ ~Inside(s, k) /\ Depth(s, k) = Depth(s, i - 1)
            /\ \A m \in (i - 1)..k : Depth(s, m) >= Depth(s, i - 1)
      BY <2>1, <2>2, <2>5, <1>0a, ObjectCloses
    <3>2. IsBody(s, k + 1, j)
      BY <3>1, <2>3
    <3>3. ~Inside(s, i) /\ Depth(s, i) = Depth(s, i - 1) + 1
      BY <2>1, <2>5, <1>0a, ByteOutside, FourBytes
    <3>4. /\ k \in Nat /\ k - 1 \in 0..n /\ (i + 1) - 1 = i /\ i + 1 <= (k - 1) + 1
          /\ ((k - 1) + 1) - (i + 1) < (j + 1) - i
      BY <1>0, <2>1
    <3>5. Inner(s, i + 1, k - 1)
      BY <2>1, <3>3, <3>4, <1>0a, <1>0c DEF Inner
    <3>6. IsBody(s, i + 1, k - 1)
      BY <3>1, <3>4, <3>5, <2>1 DEF BodiesScannedUpTo
    <3> QED BY <3>1, <3>2, <3>6, <2>5 DEF BodyOf, IsBody
  <2>6. CASE s[i] = RBrace
    <3>1. Depth(s, i) = IF Depth(s, i - 1) > 0 THEN Depth(s, i - 1) - 1 ELSE 0
      BY <2>1, <2>6, <1>0a, ByteOutside
    <3>2. i \in (i - 1)..j
      BY <1>0, <2>1
    <3>3. Depth(s, i) >= Depth(s, i - 1)
      BY <3>2 DEF Level
    <3> QED BY <3>1, <3>3, <1>0a, <1>0c
  <2>7. CASE s[i] \notin {Quote, LBrace, RBrace}
    <3>1. ~Inside(s, i) /\ Depth(s, i) = Depth(s, i - 1)
      BY <2>1, <2>7, <1>0a, ByteOutside
    <3>2. (i + 1) - 1 = i /\ (j + 1) - (i + 1) < (j + 1) - i /\ i + 1 <= j + 1
      BY <1>0, <2>1
    <3>3. Inner(s, i + 1, j)
      BY <2>1, <3>1, <3>2, <1>0a DEF Inner
    <3>4. i \in (i - 1)..n /\ j \in i..n
      BY <1>0, <2>1
    <3>5. \A m \in (i - 1)..i : Depth(s, m) >= Depth(s, i - 1)
      <4>1. \A m \in (i - 1)..i : m = i - 1 \/ m = i
        BY <1>0
      <4> QED BY <4>1, <3>1, <1>0c
    <3>6. Level(s, i, j)
      BY <3>1, <3>4, <3>5, <1>0a, LevelJoins
    <3>7. IsBody(s, i + 1, j)
      BY <3>2, <3>3, <3>6, <2>1 DEF BodiesScannedUpTo
    <3> QED BY <3>7, <2>7 DEF BodyOf, IsBody
  <2> QED BY <2>4, <2>5, <2>6, <2>7
<1> QED BY <1>1, <1>2

\* By induction on its length, for every stretch.
LEMMA BodyScanned ==
  ASSUME NEW s \in Seq(STRING), NEW i \in 1..(Len(s) + 1), NEW j \in 0..Len(s),
         Inner(s, i, j)
  PROVE  IsBody(s, i, j) <=> Level(s, i - 1, j)
<1> DEFINE Holds(n) == \A a \in 1..(Len(s) + 1), b \in 0..Len(s) :
                         Inner(s, a, b) /\ (b + 1) - a = n
                           => (IsBody(s, a, b) <=> Level(s, a - 1, b))
           S == {n \in Nat : Holds(n)}
<1>1. ASSUME NEW n \in Nat, \A m \in Nat : m < n => m \in S PROVE n \in S
  <2>1. BodiesScannedUpTo(s, n)
    <3> SUFFICES ASSUME NEW a \in 1..(Len(s) + 1), NEW b \in 0..Len(s), Inner(s, a, b),
                        (b + 1) - a < n
                 PROVE  IsBody(s, a, b) <=> Level(s, a - 1, b)
      BY DEF BodiesScannedUpTo
    <3>1. a <= b + 1
      BY DEF Inner
    <3>2. (b + 1) - a \in Nat
      BY <3>1
    <3>3. Holds((b + 1) - a)
      BY <3>2, <1>1
    <3> QED BY <3>3
  <2>2. ASSUME NEW a \in 1..(Len(s) + 1), NEW b \in 0..Len(s), Inner(s, a, b),
               (b + 1) - a = n
        PROVE  IsBody(s, a, b) <=> Level(s, a - 1, b)
    BY <2>1, <2>2, BodyIsLevel, LevelIsBody
  <2> QED BY <2>2
<1>2. Nat \subseteq S
  <2> HIDE DEF S
  <2> QED BY <1>1, Strong
<1>3. i <= j + 1
  BY DEF Inner
<1>4. (j + 1) - i \in Nat
  BY <1>3
<1>5. Holds((j + 1) - i)
  BY <1>2, <1>4
<1> QED BY <1>5

\* The span from a to b, as the scanner sees it: it opens on level 0, closes on
\* level 1, and there is no level 0 in between.
IsSpan(s, a, b) ==
  /\ a \in 1..Len(s) /\ b \in 1..Len(s) /\ a < b
  /\ s[a] = LBrace /\ ~Inside(s, a - 1) /\ Depth(s, a - 1) = 0
  /\ s[b] = RBrace /\ ~Inside(s, b - 1) /\ Depth(s, b - 1) = 1
  /\ \A m \in a..(b - 1) : Depth(s, m) >= 1

\* On level 0 the objects of the grammar are the scanner's spans.
LEMMA ObjectScanned ==
  ASSUME NEW s \in Seq(STRING), NEW a \in 1..Len(s), NEW b \in 1..Len(s),
         ~Inside(s, a - 1), Depth(s, a - 1) = 0
  PROVE  <<a, b>> \in Objects(s) <=> IsSpan(s, a, b)
<1>0. Len(s) \in Nat /\ a \in Nat /\ b \in Nat
  OBVIOUS
<1>1. <<a, b>> \in Objects(s)
      <=> a < b /\ s[a] = LBrace /\ s[b] = RBrace /\ IsBody(s, a + 1, b - 1)
  BY DEF Objects, IsBody
<1>2. CASE ~(a < b /\ s[a] = LBrace)
  BY <1>1, <1>2 DEF IsSpan
<1>3. CASE a < b /\ s[a] = LBrace
  <2>1. ~Inside(s, a) /\ Depth(s, a) = 1
    BY <1>3, ByteOutside, FourBytes
  <2>2. /\ a + 1 \in 1..(Len(s) + 1) /\ b - 1 \in 0..Len(s) /\ (a + 1) - 1 = a
        /\ a + 1 <= (b - 1) + 1
    BY <1>0, <1>3
  <2>3. Inner(s, a + 1, b - 1)
    BY <2>1, <2>2 DEF Inner
  <2>4. IsBody(s, a + 1, b - 1) <=> Level(s, a, b - 1)
    BY <2>2, <2>3, BodyScanned
  <2> QED BY <1>1, <1>3, <2>1, <2>4 DEF IsSpan, Level
<1> QED BY <1>2, <1>3

\* What is inside a string began with a quote.
LEMMA StringBegins ==
  ASSUME NEW s \in Seq(STRING), NEW b \in 1..Len(s), Inside(s, b - 1)
  PROVE  \E a \in 1..(b - 1) : s[a] = Quote /\ ~Inside(s, a - 1)
                               /\ \A m \in a..(b - 1) : Inside(s, m)
<1> DEFINE S == {k \in 0..(b - 1) : ~Inside(s, k)}
<1>0. Len(s) \in Nat /\ b \in Nat /\ b - 1 \in Nat
  OBVIOUS
<1>1. 0 \in S
  BY <1>0, Bytes
<1>2. S \subseteq 0..(b - 1)
  OBVIOUS
<1>3. PICK k \in S : \A m \in S : m <= k
  <2> HIDE DEF S
  <2> QED BY <1>0, <1>1, <1>2, Greatest
<1>4. k \in 0..(b - 1) /\ ~Inside(s, k) /\ k # b - 1
  OBVIOUS
<1>5. k + 1 \in 1..(b - 1) /\ k + 1 \in 1..Len(s) /\ (k + 1) - 1 = k
  BY <1>0, <1>4
<1>6. ASSUME NEW m \in (k + 1)..(b - 1) PROVE Inside(s, m)
  <2>1. m \in 0..(b - 1) /\ ~(m <= k)
    BY <1>0, <1>4
  <2> QED BY <2>1, <1>3
<1> HIDE DEF S
<1>7. s[k + 1] = Quote
  <2>1. Inside(s, k + 1)
    BY <1>5, <1>6
  <2> QED BY <2>1, <1>4, <1>5, ByteOutside
<1> QED BY <1>4, <1>5, <1>6, <1>7

\* What is above level 0 began with a brace on level 0.
LEMMA ObjectOpens ==
  ASSUME NEW s \in Seq(STRING), NEW b \in 1..Len(s), Depth(s, b - 1) >= 1
  PROVE  \E a \in 1..(b - 1) : /\ s[a] = LBrace /\ ~Inside(s, a - 1) /\ Depth(s, a - 1) = 0
                               /\ \A m \in a..(b - 1) : Depth(s, m) >= 1
<1> DEFINE S == {k \in 0..(b - 1) : Depth(s, k) = 0}
<1>0. Len(s) \in Nat /\ b \in Nat /\ b - 1 \in Nat
  OBVIOUS
<1>0a. \A m \in 0..Len(s) : Depth(s, m) \in Nat
  BY Bytes
<1>1. 0 \in S
  BY <1>0, Bytes
<1>2. S \subseteq 0..(b - 1)
  OBVIOUS
<1>3. PICK k \in S : \A m \in S : m <= k
  <2> HIDE DEF S
  <2> QED BY <1>0, <1>1, <1>2, Greatest
<1>4. k \in 0..(b - 1) /\ Depth(s, k) = 0 /\ k # b - 1
  OBVIOUS
<1>5. k + 1 \in 1..(b - 1) /\ k + 1 \in 1..Len(s) /\ (k + 1) - 1 = k
  BY <1>0, <1>4
<1>6. ASSUME NEW m \in (k + 1)..(b - 1) PROVE Depth(s, m) >= 1
  <2>1. m \in 0..(b - 1) /\ ~(m <= k) /\ m \in 0..Len(s)
    BY <1>0, <1>4
  <2>2. Depth(s, m) # 0
    BY <2>1, <1>3
  <2> QED BY <2>1, <2>2, <1>0a
<1> HIDE DEF S
<1>7. Depth(s, k + 1) >= 1
  BY <1>5, <1>6
<1>8. ~Inside(s, k)
  <2>1. Inside(s, k) => Depth(s, k + 1) = Depth(s, k)
    BY <1>5, ByteInside
  <2> QED BY <2>1, <1>4, <1>7
<1>9. s[k + 1] = LBrace
  <2>1. s[k + 1] = RBrace => Depth(s, k + 1) = IF Depth(s, k) > 0 THEN Depth(s, k) - 1 ELSE 0
    BY <1>5, <1>8, ByteOutside
  <2>2. s[k + 1] \notin {LBrace, RBrace} => Depth(s, k + 1) = Depth(s, k)
    BY <1>5, <1>8, ByteOutside
  <2> QED BY <2>1, <2>2, <1>4, <1>7
<1> QED BY <1>4, <1>5, <1>6, <1>8, <1>9

\* One step of the grammar of prose.
ProseOf(s, prose, n) ==
  \/ n = 0
  \/ s[n] \notin {Quote, LBrace} /\ prose[n - 1]
  \/ \E m \in 1..(n - 1) :
       (Literal(s, m, n) \/ <<m, n>> \in Objects(s)) /\ prose[m - 1]

\* The grammar of prose is well founded too.
LEMMA ProseRecursion ==
  ASSUME NEW s \in Seq(STRING)
  PROVE  \A n \in 0..Len(s) : Prose(s)[n] <=> ProseOf(s, Prose(s), n)
<1> DEFINE D == 0..Len(s)
           Def(f) == [n \in D |-> ProseOf(s, f, n)]
           F == [f \in [D -> BOOLEAN] |-> Def(f)]
           mu == [n \in D |-> n]
<1>0. Len(s) \in Nat
  OBVIOUS
<1>1. ASSUME NEW f \in [D -> BOOLEAN], NEW g \in [D -> BOOLEAN], NEW p \in D,
             \A q \in D : mu[q] < mu[p] => f[q] = g[q]
      PROVE  F[f][p] = F[g][p]
  <2>1. ASSUME NEW m \in 1..p PROVE f[m - 1] = g[m - 1]
    <3>1. m - 1 \in D /\ mu[m - 1] < mu[p]
      BY <1>0
    <3> QED BY <3>1, <1>1
  <2>2. ProseOf(s, f, p) <=> ProseOf(s, g, p)
    <3>1. CASE p = 0
      BY <3>1 DEF ProseOf
    <3>2. CASE p # 0
      <4>1. p \in 1..p /\ \A m \in 1..(p - 1) : m \in 1..p
        BY <3>2, <1>0
      <4> HIDE DEF D
      <4> QED BY <4>1, <2>1 DEF ProseOf
    <3> QED BY <3>1, <3>2
  <2>3. F[f][p] = ProseOf(s, f, p) /\ F[g][p] = ProseOf(s, g, p)
    OBVIOUS
  <2>4. ProseOf(s, f, p) \in BOOLEAN /\ ProseOf(s, g, p) \in BOOLEAN
    BY DEF ProseOf
  <2> QED BY <2>2, <2>3, <2>4
<1>2. \A f, g \in [D -> BOOLEAN] : \A p \in D :
         (\A q \in D : mu[q] < mu[p] => f[q] = g[q]) => F[f][p] = F[g][p]
  <2> HIDE DEF D, F, mu
  <2> QED BY <1>1
<1>3. F \in [[D -> BOOLEAN] -> [D -> BOOLEAN]]
  <2>1. \A f, n : ProseOf(s, f, n) \in BOOLEAN
    BY DEF ProseOf
  <2> QED BY <2>1
<1>4. mu \in [D -> Nat] /\ \A p \in D : mu[p] <= Len(s)
  BY <1>0
<1>5. \E f \in [D -> BOOLEAN] : F[f] = f
  <2> HIDE DEF D, F, mu, Def
  <2>1. WellFounded(D, BOOLEAN, mu, Len(s), F)
    BY <1>0, <1>2, <1>3, <1>4 DEF WellFounded
  <2> QED BY <2>1, Recursion
<1>6. PICK f \in [D -> BOOLEAN] : f = Def(f)
  BY <1>5
<1>7. Prose(s) = CHOOSE g : g = Def(g)
  BY DEF Prose, ProseOf
<1>8. Prose(s) = Def(Prose(s))
  <2> HIDE DEF Def
  <2> QED BY <1>6, <1>7
<1>9. ASSUME NEW n \in D PROVE Prose(s)[n] = ProseOf(s, Prose(s), n)
  <2>1. Def(Prose(s))[n] = ProseOf(s, Prose(s), n)
    OBVIOUS
  <2> QED BY <2>1, <1>8
<1> QED BY <1>9

\* The scanner is on level 0, outside strings.
AtTop(s, n) == ~Inside(s, n) /\ Depth(s, n) = 0

\* It is so just after what the grammar takes for prose.
LEMMA ProseScanned ==
  ASSUME NEW s \in Seq(STRING)
  PROVE  \A n \in 0..Len(s) : Prose(s)[n] <=> AtTop(s, n)
<1> DEFINE S == {n \in Nat : n \in 0..Len(s) => (Prose(s)[n] <=> AtTop(s, n))}
<1>0. Len(s) \in Nat
  OBVIOUS
<1>0a. \A m \in 0..Len(s) : Depth(s, m) \in Nat
  BY Bytes
<1>1. ASSUME NEW n \in Nat, \A m \in Nat : m < n => m \in S PROVE n \in S
  <2> SUFFICES ASSUME n \in 0..Len(s) PROVE Prose(s)[n] <=> AtTop(s, n)
    OBVIOUS
  <2>0. Prose(s)[n] <=> ProseOf(s, Prose(s), n)
    BY ProseRecursion
  <2>1. CASE n = 0
    BY <2>0, <2>1, Bytes DEF ProseOf, AtTop
  <2>2. CASE n # 0
    <3>1. n \in 1..Len(s) /\ n - 1 \in 0..Len(s)
      BY <2>2, <1>0
    <3>2. ASSUME NEW m \in 1..n
          PROVE  m - 1 \in 0..Len(s) /\ m \in 1..Len(s) /\ (Prose(s)[m - 1] <=> AtTop(s, m - 1))
      <4>1. m - 1 \in Nat /\ m - 1 < n /\ m - 1 \in 0..Len(s) /\ m \in 1..Len(s)
        BY <1>0
      <4> QED BY <4>1, <1>1
    <3>3. Prose(s)[n - 1] <=> AtTop(s, n - 1)
      <4>1. n \in 1..n
        BY <3>1, <1>0
      <4> QED BY <4>1, <3>2
    <3>4. ASSUME Prose(s)[n] PROVE AtTop(s, n)
      <4>1. CASE s[n] \notin {Quote, LBrace} /\ Prose(s)[n - 1]
        <5>1. ~Inside(s, n - 1) /\ Depth(s, n - 1) = 0
          BY <4>1, <3>3 DEF AtTop
        <5>2. ~Inside(s, n)
          BY <4>1, <5>1, <3>1, ByteOutside
        <5>3. s[n] = RBrace => Depth(s, n) = 0
          BY <5>1, <3>1, ByteOutside
        <5>4. s[n] # RBrace => Depth(s, n) = 0
          BY <4>1, <5>1, <3>1, ByteOutside
        <5> QED BY <5>2, <5>3, <5>4 DEF AtTop
      <4>2. ASSUME NEW m \in 1..(n - 1), Literal(s, m, n), Prose(s)[m - 1] PROVE AtTop(s, n)
        <5>1. m \in 1..n /\ n \in (m - 1)..n
          BY <3>1, <1>0
        <5>2. ~Inside(s, m - 1) /\ Depth(s, m - 1) = 0 /\ m \in 1..Len(s)
          BY <5>1, <4>2, <3>2 DEF AtTop
        <5>3. ~Inside(s, n)
          BY <5>2, <4>2, <3>1, LiteralScanned
        <5>4. Depth(s, n) = 0
          BY <5>1, <5>2, <4>2, <3>1, LiteralDepth
        <5> QED BY <5>3, <5>4 DEF AtTop
      <4>3. ASSUME NEW m \in 1..(n - 1), <<m, n>> \in Objects(s), Prose(s)[m - 1]
            PROVE  AtTop(s, n)
        <5>1. m \in 1..n
          BY <3>1, <1>0
        <5>2. ~Inside(s, m - 1) /\ Depth(s, m - 1) = 0 /\ m \in 1..Len(s)
          BY <5>1, <4>3, <3>2 DEF AtTop
        <5>3. s[n] = RBrace /\ ~Inside(s, n - 1) /\ Depth(s, n - 1) = 1
          BY <5>2, <4>3, <3>1, ObjectScanned DEF IsSpan
        <5>4. Depth(s, n) = 0 /\ ~Inside(s, n)
          BY <5>3, <3>1, ByteOutside, FourBytes
        <5> QED BY <5>4 DEF AtTop
      <4> QED BY <2>0, <2>2, <3>4, <4>1, <4>2, <4>3 DEF ProseOf
    <3>5. ASSUME AtTop(s, n) PROVE Prose(s)[n]
      <4>0. ~Inside(s, n) /\ Depth(s, n) = 0
        BY <3>5 DEF AtTop
      <4>1. CASE Inside(s, n - 1)
        <5>1. PICK m \in 1..(n - 1) : s[m] = Quote /\ ~Inside(s, m - 1)
                                      /\ \A x \in m..(n - 1) : Inside(s, x)
          BY <4>1, <3>1, StringBegins
        <5>2. m < n /\ m \in 1..n /\ n \in (m - 1)..n /\ m \in 1..Len(s)
          BY <3>1, <1>0
        <5>3. Literal(s, m, n)
          BY <5>1, <5>2, <4>0, <3>1, LiteralScanned
        <5>4. Depth(s, m - 1) = 0
          BY <5>1, <5>2, <5>3, <4>0, <3>1, LiteralDepth
        <5>5. Prose(s)[m - 1]
          BY <5>1, <5>2, <5>4, <3>2 DEF AtTop
        <5> QED BY <5>3, <5>5, <2>0 DEF ProseOf
      <4>2. CASE ~Inside(s, n - 1) /\ Depth(s, n - 1) = 0
        <5>1. Prose(s)[n - 1]
          BY <4>2, <3>3 DEF AtTop
        <5>2. s[n] # Quote
          BY <4>0, <4>2, <3>1, ByteOutside
        <5>3. s[n] # LBrace
          BY <4>0, <4>2, <3>1, ByteOutside
        <5> QED BY <5>1, <5>2, <5>3, <2>0 DEF ProseOf
      <4>3. CASE ~Inside(s, n - 1) /\ Depth(s, n - 1) # 0
        <5>0. Depth(s, n - 1) \in Nat /\ Depth(s, n - 1) >= 1
          BY <4>3, <3>1, <1>0a
        <5>1. s[n] = RBrace /\ Depth(s, n - 1) = 1
          <6>1. s[n] = LBrace => Depth(s, n) = Depth(s, n - 1) + 1
            BY <4>3, <3>1, ByteOutside
          <6>2. s[n] = RBrace
                  => Depth(s, n) = IF Depth(s, n - 1) > 0 THEN Depth(s, n - 1) - 1 ELSE 0
            BY <4>3, <3>1, ByteOutside
          <6>3. s[n] \notin {LBrace, RBrace} => Depth(s, n) = Depth(s, n - 1)
            BY <4>3, <3>1, ByteOutside
          <6>4. s[n] = RBrace
            BY <6>1, <6>3, <5>0, <4>0
          <6> QED BY <6>2, <6>4, <5>0, <4>0
        <5>2. PICK m \in 1..(n - 1) :
                /\ s[m] = LBrace /\ ~Inside(s, m - 1) /\ Depth(s, m - 1) = 0
                /\ \A x \in m..(n - 1) : Depth(s, x) >= 1
          BY <5>0, <3>1, ObjectOpens
        <5>3. m < n /\ m \in 1..n /\ m \in 1..Len(s)
          BY <3>1, <1>0
        <5>4. <<m, n>> \in Objects(s)
          <6>1. IsSpan(s, m, n)
            BY <5>1, <5>2, <5>3, <4>3, <3>1 DEF IsSpan
          <6> QED BY <6>1, <5>2, <5>3, <3>1, ObjectScanned
        <5>5. Prose(s)[m - 1]
          BY <5>2, <5>3, <3>2 DEF AtTop
        <5> QED BY <5>4, <5>5, <2>0 DEF ProseOf
      <4> QED BY <4>1, <4>2, <4>3
    <3> QED BY <3>4, <3>5
  <2> QED BY <2>1, <2>2
<1>2. Nat \subseteq S
  <2> HIDE DEF S
  <2> QED BY <1>1, Strong
<1> QED BY <1>0, <1>2

\* So the top-level objects of the grammar are the scanner's spans.
LEMMA TopLevelScanned ==
  ASSUME NEW s \in Seq(STRING)
  PROVE  \A o : o \in TopLevel(s) <=> /\ o \in (1..Len(s)) \X (1..Len(s))
                                      /\ IsSpan(s, o[1], o[2])
<1> SUFFICES ASSUME NEW o, o \in (1..Len(s)) \X (1..Len(s))
             PROVE  o \in TopLevel(s) <=> IsSpan(s, o[1], o[2])
  BY DEF TopLevel, Objects
<1>1. PICK a \in 1..Len(s), b \in 1..Len(s) : o = <<a, b>>
  OBVIOUS
<1>2. a - 1 \in 0..Len(s)
  OBVIOUS
<1>3. Prose(s)[a - 1] <=> AtTop(s, a - 1)
  BY <1>2, ProseScanned
<1>4. <<a, b>> \in TopLevel(s) <=> <<a, b>> \in Objects(s) /\ AtTop(s, a - 1)
  BY <1>3 DEF TopLevel
<1>5. AtTop(s, a - 1) => (<<a, b>> \in Objects(s) <=> IsSpan(s, a, b))
  BY ObjectScanned DEF AtTop
<1>6. IsSpan(s, a, b) => AtTop(s, a - 1)
  BY DEF IsSpan, AtTop
<1> QED BY <1>1, <1>4, <1>5, <1>6

-----------------------------------------------------------------------------
(* What the scanner has found, and what it is in the middle of.            *)

IsOpen(s, a, k) ==
  /\ a \in 1..k /\ s[a] = LBrace /\ ~Inside(s, a - 1) /\ Depth(s, a - 1) = 0
  /\ \A m \in a..k : Depth(s, m) >= 1

\* spans are the spans up to k, from left to right.
AreSpans(s, spans, k) ==
  /\ \A x \in DOMAIN spans : IsSpan(s, spans[x][1], spans[x][2]) /\ spans[x][2] <= k
  /\ \A a, b \in 1..Len(s) : IsSpan(s, a, b) /\ b <= k
                               => \E x \in DOMAIN spans : spans[x] = <<a, b>>
  /\ \A x \in 2..Len(spans) : spans[x - 1][2] < spans[x][1]

Scanned(s, k) ==
  /\ Depth(s, k) >= 1 => IsOpen(s, Opened(s, k), k)
  /\ AreSpans(s, Found(s, k), k)

\* A byte that closes nothing ends no span.
LEMMA NothingFound ==
  ASSUME NEW s \in Seq(STRING), NEW i \in 1..Len(s), AreSpans(s, Found(s, i - 1), i - 1),
         Inside(s, i - 1) \/ ~Closes(s, i), Found(s, i) = Found(s, i - 1)
  PROVE  AreSpans(s, Found(s, i), i)
<1> DEFINE spans == Found(s, i)
<1>0. Found(s, i) \in Seq(Nat \X Nat)
  BY Bytes
<1>1. ASSUME NEW x \in DOMAIN spans
      PROVE  IsSpan(s, spans[x][1], spans[x][2]) /\ spans[x][2] <= i
  <2>1. IsSpan(s, spans[x][1], spans[x][2]) /\ spans[x][2] <= i - 1
    BY DEF AreSpans
  <2>2. spans[x] \in Nat \X Nat
    BY <1>0
  <2>3. spans[x][2] \in Nat
    BY <2>2
  <2> HIDE DEF spans
  <2> QED BY <2>1, <2>3
<1>2. ASSUME NEW a \in 1..Len(s), NEW b \in 1..Len(s), IsSpan(s, a, b), b <= i
      PROVE  \E x \in DOMAIN spans : spans[x] = <<a, b>>
  <2>1. b # i
    BY <1>2 DEF IsSpan, Closes
  <2>2. b <= i - 1
    BY <1>2, <2>1
  <2> QED BY <1>2, <2>2 DEF AreSpans
<1>3. \A x \in 2..Len(spans) : spans[x - 1][2] < spans[x][1]
  BY DEF AreSpans
<1> QED BY <1>1, <1>2, <1>3 DEF AreSpans

\* A byte that closes the outermost object ends one span, to the right of all others.
LEMMA OneFound ==
  ASSUME NEW s \in Seq(STRING), NEW i \in 1..Len(s), Scanned(s, i - 1),
         ~Inside(s, i - 1), Closes(s, i)
  PROVE  AreSpans(s, Found(s, i), i)
<1> DEFINE old == Found(s, i - 1)
           new == Found(s, i)
           a == Opened(s, i - 1)
           n == Len(old)
<1>0. i \in Nat /\ i - 1 \in 0..Len(s) /\ i \in 0..Len(s) /\ Len(s) \in Nat
  OBVIOUS
<1>1. old \in Seq(Nat \X Nat)
  BY <1>0, Bytes
<1>2. /\ IsOpen(s, a, i - 1) /\ AreSpans(s, old, i - 1)
      /\ s[i] = RBrace /\ Depth(s, i - 1) = 1
  BY DEF Scanned, Closes
<1>3. a \in 1..(i - 1) /\ a \in Nat
  BY <1>2 DEF IsOpen
<1>4. new = Append(old, <<a, i>>)
  BY ByteOutside
<1>5. IsSpan(s, a, i)
  BY <1>0, <1>2, <1>3 DEF IsOpen, IsSpan
<1> HIDE DEF old, new, a, n
<1>6. n \in Nat /\ DOMAIN old = 1..n
  BY <1>1, LenProperties DEF n
<1>7. /\ Len(new) = n + 1 /\ DOMAIN new = 1..(n + 1)
      /\ \A x \in 1..n : new[x] = old[x]
      /\ new[n + 1] = <<a, i>>
  <2>1. <<a, i>> \in Nat \X Nat
    BY <1>0, <1>3
  <2> QED BY <1>1, <1>4, <1>6, <2>1, AppendProperties DEF n
<1>8. ASSUME NEW x \in 1..n
      PROVE  /\ IsSpan(s, old[x][1], old[x][2]) /\ old[x][2] <= i - 1
             /\ old[x][1] \in Nat /\ old[x][2] \in Nat
  <2>1. old[x] \in Nat \X Nat
    BY <1>1, <1>6, ElementOfSeq DEF n
  <2> QED BY <2>1, <1>2, <1>6 DEF AreSpans
<1>9. ASSUME NEW x \in DOMAIN new
      PROVE  IsSpan(s, new[x][1], new[x][2]) /\ new[x][2] <= i
  <2>1. CASE x = n + 1
    BY <2>1, <1>0, <1>5, <1>7
  <2>2. CASE x # n + 1
    <3>1. x \in 1..n
      BY <2>2, <1>6, <1>7
    <3>2. new[x] = old[x]
      BY <3>1, <1>7
    <3> QED BY <3>1, <3>2, <1>0, <1>8
  <2> QED BY <2>1, <2>2
<1>10. ASSUME NEW c \in 1..Len(s), NEW b \in 1..Len(s), IsSpan(s, c, b), b <= i
       PROVE  \E x \in DOMAIN new : new[x] = <<c, b>>
  <2>1. CASE b = i
    <3>1. c < i /\ Depth(s, c - 1) = 0 /\ \A m \in c..(i - 1) : Depth(s, m) >= 1
      BY <2>1, <1>10 DEF IsSpan
    <3>2. Depth(s, a - 1) = 0 /\ \A m \in a..(i - 1) : Depth(s, m) >= 1
      BY <1>2 DEF IsOpen
    <3>3. ~(a < c)
      <4>1. SUFFICES ASSUME a < c PROVE FALSE
        OBVIOUS
      <4>2. c - 1 \in a..(i - 1)
        BY <4>1, <3>1, <1>0, <1>3
      <4> QED BY <4>2, <3>1, <3>2
    <3>4. ~(c < a)
      <4>1. SUFFICES ASSUME c < a PROVE FALSE
        OBVIOUS
      <4>2. a - 1 \in c..(i - 1)
        BY <4>1, <3>1, <1>0, <1>3
      <4> QED BY <4>2, <3>1, <3>2
    <3>5. c = a
      BY <3>3, <3>4, <1>3
    <3>6. n + 1 \in DOMAIN new
      BY <1>6, <1>7
    <3> QED BY <2>1, <3>5, <3>6, <1>7
  <2>2. CASE b # i
    <3>1. b <= i - 1
      BY <2>2, <1>10, <1>0
    <3>2. PICK x \in DOMAIN old : old[x] = <<c, b>>
      BY <3>1, <1>2, <1>10 DEF AreSpans
    <3>3. x \in 1..n /\ x \in DOMAIN new
      BY <1>6, <1>7
    <3> QED BY <3>2, <3>3, <1>7
  <2> QED BY <2>1, <2>2
<1>11. ASSUME NEW x \in 2..Len(new) PROVE new[x - 1][2] < new[x][1]
  <2>1. x \in 2..(n + 1) /\ x - 1 \in 1..n
    BY <1>6, <1>7
  <2>2. new[x - 1] = old[x - 1]
    BY <2>1, <1>7
  <2>3. CASE x = n + 1
    <3> DEFINE b == old[n][2]
    <3>1. n \in 1..n /\ x - 1 = n
      BY <2>1, <2>3, <1>6
    <3>2. IsSpan(s, old[n][1], b) /\ b <= i - 1 /\ b \in Nat
      BY <3>1, <1>8
    <3>3. b \in 1..Len(s) /\ s[b] = RBrace /\ ~Inside(s, b - 1) /\ Depth(s, b - 1) = 1
      BY <3>2 DEF IsSpan
    <3>4. Depth(s, b) = 0
      BY <3>3, ByteOutside
    <3>5. b \notin a..(i - 1)
      BY <3>4, <1>2 DEF IsOpen
    <3>6. b < a
      BY <3>5, <3>2, <1>3, <1>0
    <3> QED BY <3>1, <3>6, <2>2, <2>3, <1>7
  <2>4. CASE x # n + 1
    <3>1. x \in 2..n /\ x \in 1..n
      BY <2>1, <2>4, <1>6
    <3>2. old[x - 1][2] < old[x][1]
      BY <3>1, <1>2 DEF AreSpans, n
    <3> QED BY <3>1, <3>2, <2>2, <1>7
  <2> QED BY <2>3, <2>4
<1> QED BY <1>9, <1>10, <1>11 DEF AreSpans, new

\* Byte by byte the scanner has found the spans so far, and knows where the one
\* it is in began.
LEMMA SpansScanned ==
  ASSUME NEW s \in Seq(STRING)
  PROVE  \A k \in 0..Len(s) : Scanned(s, k)
<1> DEFINE S == {k \in Nat : k \in 0..Len(s) => Scanned(s, k)}
<1>0. Len(s) \in Nat
  OBVIOUS
<1>0a. \A m \in 0..Len(s) : Depth(s, m) \in Nat
  BY Bytes
<1>1. ASSUME NEW k \in Nat, \A m \in Nat : m < k => m \in S PROVE k \in S
  <2> SUFFICES ASSUME k \in 0..Len(s) PROVE Scanned(s, k)
    OBVIOUS
  <2>1. CASE k = 0
    <3>1. Depth(s, 0) = 0 /\ Found(s, 0) = <<>>
      BY Bytes
    <3>2. \A b \in 1..Len(s) : ~(b <= 0)
      BY <1>0
    <3>3. AreSpans(s, <<>>, 0)
      BY <3>2 DEF AreSpans
    <3> QED BY <2>1, <3>1, <3>3 DEF Scanned
  <2>2. CASE k # 0
    <3>1. k - 1 \in Nat /\ k - 1 < k /\ k - 1 \in 0..Len(s) /\ k \in 1..Len(s)
      BY <2>2, <1>0
    <3>2. Scanned(s, k - 1)
      BY <3>1, <1>1
    <3>3. AreSpans(s, Found(s, k - 1), k - 1)
      BY <3>2 DEF Scanned
    <3>4. Depth(s, k - 1) \in Nat /\ Depth(s, k) \in Nat
      BY <3>1, <1>0a
    <3>5. ASSUME Depth(s, k) >= 1, Depth(s, k - 1) >= 1, Opened(s, k) = Opened(s, k - 1)
          PROVE  IsOpen(s, Opened(s, k), k)
      <4>1. IsOpen(s, Opened(s, k), k - 1)
        BY <3>2, <3>5 DEF Scanned
      <4>2. \A m : m \in Opened(s, k)..k => m = k \/ m \in Opened(s, k)..(k - 1)
        BY <4>1 DEF IsOpen
      <4> QED BY <4>1, <4>2, <3>5 DEF IsOpen
    <3>6. CASE Inside(s, k - 1)
      <4>1. /\ Depth(s, k) = Depth(s, k - 1) /\ Opened(s, k) = Opened(s, k - 1)
            /\ Found(s, k) = Found(s, k - 1)
        BY <3>1, <3>6, ByteInside
      <4>2. AreSpans(s, Found(s, k), k)
        BY <3>1, <3>3, <3>6, <4>1, NothingFound
      <4> QED BY <4>1, <4>2, <3>5 DEF Scanned
    <3>7. CASE ~Inside(s, k - 1) /\ Closes(s, k)
      <4>1. AreSpans(s, Found(s, k), k)
        BY <3>1, <3>2, <3>7, OneFound
      <4>2. Depth(s, k) = 0
        BY <3>1, <3>7, ByteOutside DEF Closes
      <4> QED BY <4>1, <4>2 DEF Scanned
    <3>8. CASE ~Inside(s, k - 1) /\ ~Closes(s, k)
      <4>1. Found(s, k) = Found(s, k - 1)
        BY <3>1, <3>8, ByteOutside
      <4>2. AreSpans(s, Found(s, k), k)
        BY <3>1, <3>3, <3>8, <4>1, NothingFound
      <4>3. CASE s[k] = LBrace /\ Depth(s, k - 1) = 0
        <5>1. Opened(s, k) = k /\ Depth(s, k) = 1
          BY <3>1, <3>8, <4>3, ByteOutside
        <5>2. k \in 1..k /\ \A m \in k..k : m = k
          BY <3>1
        <5>3. IsOpen(s, k, k)
          BY <3>8, <4>3, <5>1, <5>2 DEF IsOpen
        <5> QED BY <4>2, <5>1, <5>3 DEF Scanned
      <4>4. CASE ~(s[k] = LBrace /\ Depth(s, k - 1) = 0)
        <5>1. Opened(s, k) = Opened(s, k - 1)
          BY <3>1, <3>8, <4>4, ByteOutside
        <5>2. Depth(s, k - 1) = 0 => Depth(s, k) = 0
          <6> SUFFICES ASSUME Depth(s, k - 1) = 0 PROVE Depth(s, k) = 0
            OBVIOUS
          <6>1. s[k] = RBrace => Depth(s, k) = 0
            BY <3>1, <3>8, ByteOutside
          <6>2. s[k] \notin {LBrace, RBrace} => Depth(s, k) = 0
            BY <3>1, <3>8, ByteOutside
          <6> QED BY <6>1, <6>2, <4>4
        <5>3. Depth(s, k) >= 1 => Depth(s, k - 1) >= 1
          BY <5>2, <3>4
        <5> QED BY <4>2, <5>1, <5>3, <3>5 DEF Scanned
      <4> QED BY <4>3, <4>4
    <3> QED BY <3>6, <3>7, <3>8
  <2> QED BY <2>1, <2>2
<1>2. Nat \subseteq S
  <2> HIDE DEF S
  <2> QED BY <1>1, Strong
<1> QED BY <1>0, <1>2

\* What the scanner has found at the end.
LEMMA FoundAtEnd ==
  ASSUME NEW s \in Seq(STRING)
  PROVE  /\ topLevelObjectSpans(s) \in Seq(Nat \X Nat)
         /\ AreSpans(s, topLevelObjectSpans(s), Len(s))
<1>1. Len(s) \in 0..Len(s)
  OBVIOUS
<1>2. Scanned(s, Len(s)) /\ Found(s, Len(s)) \in Seq(Nat \X Nat)
  BY <1>1, SpansScanned, Bytes
<1> QED BY <1>2 DEF Scanned, topLevelObjectSpans, Found

\* In any text whatsoever, the scanner finds the top-level objects of the grammar,
\* each of them, nothing else, and from left to right (topLevelObjectSpans,
\* agentproto.go:659-710).
THEOREM ScannerIsGrammar ==
  ASSUME NEW s \in Seq(STRING)
  PROVE  /\ ToSet(topLevelObjectSpans(s)) = TopLevel(s)
         /\ \A k \in 2..Len(topLevelObjectSpans(s)) :
              topLevelObjectSpans(s)[k - 1][2] < topLevelObjectSpans(s)[k][1]
<1> DEFINE spans == topLevelObjectSpans(s)
<1>1. spans \in Seq(Nat \X Nat) /\ AreSpans(s, spans, Len(s))
  BY FoundAtEnd
<1> HIDE DEF spans
<1>2. ASSUME NEW x \in DOMAIN spans PROVE spans[x] \in TopLevel(s)
  <2>1. spans[x] \in Nat \X Nat
    BY <1>1
  <2>2. PICK a \in Nat, b \in Nat : spans[x] = <<a, b>>
    BY <2>1
  <2>3. IsSpan(s, a, b)
    BY <2>2, <1>1 DEF AreSpans
  <2>4. <<a, b>> \in (1..Len(s)) \X (1..Len(s))
    BY <2>3 DEF IsSpan
  <2> QED BY <2>2, <2>3, <2>4, TopLevelScanned
<1>3. ASSUME NEW o \in TopLevel(s) PROVE \E x \in DOMAIN spans : spans[x] = o
  <2>1. o \in (1..Len(s)) \X (1..Len(s)) /\ IsSpan(s, o[1], o[2])
    BY TopLevelScanned
  <2>2. PICK a \in 1..Len(s), b \in 1..Len(s) : o = <<a, b>>
    BY <2>1
  <2>3. IsSpan(s, a, b) /\ b <= Len(s)
    BY <2>1, <2>2
  <2> QED BY <2>2, <2>3, <1>1 DEF AreSpans
<1>4. ToSet(spans) = TopLevel(s)
  BY <1>2, <1>3 DEF ToSet
<1>5. \A k \in 2..Len(spans) : spans[k - 1][2] < spans[k][1]
  BY <1>1 DEF AreSpans
<1> QED BY <1>4, <1>5 DEF spans

-----------------------------------------------------------------------------
(* The parsers.                                                            *)

\* The object o of s unmarshals to one of the kinds C.
Fits(s, o, C) ==
  LET text == SubSeq(s, o[1], o[2]) IN text \in DOMAIN json /\ json[text] \in C

\* Spans further right in the list are further right in the text.
LEMMA SpansOrdered ==
  ASSUME NEW s \in Seq(STRING), NEW x \in DOMAIN topLevelObjectSpans(s)
  PROVE  \A y \in DOMAIN topLevelObjectSpans(s) :
           y <= x => topLevelObjectSpans(s)[y][1] <= topLevelObjectSpans(s)[x][1]
<1> DEFINE spans == topLevelObjectSpans(s)
           n == Len(spans)
           S == {z \in Nat : \A y \in DOMAIN spans :
                   z \in DOMAIN spans /\ y <= z => spans[y][1] <= spans[z][1]}
<1>1. /\ spans \in Seq(Nat \X Nat) /\ AreSpans(s, spans, Len(s))
      /\ n \in Nat /\ DOMAIN spans = 1..n
  BY FoundAtEnd
<1> HIDE DEF spans
<1>2. ASSUME NEW y \in DOMAIN spans
      PROVE  spans[y][1] \in Nat /\ spans[y][2] \in Nat /\ spans[y][1] < spans[y][2]
  <2>1. spans[y] \in Nat \X Nat
    BY <1>1
  <2> QED BY <2>1, <1>1 DEF AreSpans, IsSpan
<1>3. ASSUME NEW z \in Nat, \A m \in Nat : m < z => m \in S PROVE z \in S
  <2> SUFFICES ASSUME NEW y \in DOMAIN spans, z \in DOMAIN spans, y <= z
               PROVE  spans[y][1] <= spans[z][1]
    OBVIOUS
  <2>1. CASE y = z
    BY <2>1, <1>2
  <2>2. CASE y # z
    <3>1. z - 1 \in Nat /\ z - 1 < z /\ z - 1 \in DOMAIN spans /\ y <= z - 1 /\ z \in 2..n
      BY <2>2, <1>1
    <3>2. spans[y][1] <= spans[z - 1][1]
      BY <3>1, <1>3
    <3>3. spans[z - 1][2] < spans[z][1]
      BY <3>1, <1>1 DEF AreSpans
    <3> QED BY <3>1, <3>2, <3>3, <1>2
  <2> QED BY <2>1, <2>2
<1>4. Nat \subseteq S
  <2> HIDE DEF S
  <2> QED BY <1>3, Strong
<1>5. x \in Nat /\ x \in DOMAIN spans
  BY <1>1 DEF spans
<1> QED BY <1>4, <1>5 DEF spans

\* LastOf, which every parser of agentproto calls, returns the rightmost top-level
\* object that fits, and nothing only where none fits, for any text.
THEOREM LastIsRightmost ==
  ASSUME NEW s \in Seq(STRING), NEW C
  PROVE  \/ /\ LastOf(s, C) = <<>>
            /\ \A o \in TopLevel(s) : ~Fits(s, o, C)
         \/ \E o \in TopLevel(s) :
              /\ Fits(s, o, C) /\ LastOf(s, C) = SubSeq(s, o[1], o[2])
              /\ LastOf(s, C) # <<>>
              /\ \A p \in TopLevel(s) : Fits(s, p, C) => p[1] <= o[1]
<1> DEFINE spans == topLevelObjectSpans(s)
           text == [k \in DOMAIN spans |-> SubSeq(s, spans[k][1], spans[k][2])]
           fits == {k \in DOMAIN spans : text[k] \in DOMAIN json /\ json[text[k]] \in C}
<1>1. ToSet(spans) = TopLevel(s)
  BY ScannerIsGrammar
<1>2. LastOf(s, C) = IF fits = {} THEN <<>> ELSE text[Max(fits)]
  BY DEF LastOf
<1>3. \A k \in DOMAIN spans : k \in fits <=> Fits(s, spans[k], C)
  BY DEF Fits
<1>4. \A o \in TopLevel(s) : \E k \in DOMAIN spans : spans[k] = o
  BY <1>1 DEF ToSet
<1>5. CASE fits = {}
  <2>1. LastOf(s, C) = <<>>
    BY <1>2, <1>5
  <2> QED BY <2>1, <1>3, <1>4, <1>5
<1>6. CASE fits # {}
  <2>1. spans \in Seq(Nat \X Nat) /\ Len(spans) \in Nat /\ DOMAIN spans = 1..Len(spans)
    BY FoundAtEnd
  <2>2. fits \subseteq 0..Len(spans)
    BY <2>1
  <2>3. \E x \in fits : \A y \in fits : y <= x
    <3> HIDE DEF fits, spans
    <3> QED BY <2>1, <2>2, <1>6, Greatest
  <2>4. Max(fits) \in fits /\ \A y \in fits : y <= Max(fits)
    <3>1. \A x, y \in fits : y <= x <=> x >= y
      BY <2>2
    <3>2. \E x \in fits : \A y \in fits : x >= y
      BY <2>3, <3>1
    <3> HIDE DEF fits
    <3>3. Max(fits) \in fits /\ \A y \in fits : Max(fits) >= y
      BY <3>2 DEF Max
    <3> QED BY <3>1, <3>3
  <2> DEFINE x == Max(fits)
             o == spans[x]
  <2>5. x \in DOMAIN spans /\ Fits(s, o, C)
    BY <2>4, <1>3
  <2>6. o \in TopLevel(s)
    BY <2>5, <1>1 DEF ToSet
  <2>7. LastOf(s, C) = SubSeq(s, o[1], o[2])
    BY <1>2, <1>6, <2>5
  <2>8. LastOf(s, C) # <<>>
    <3>1. o \in (1..Len(s)) \X (1..Len(s)) /\ IsSpan(s, o[1], o[2])
      BY <2>6, TopLevelScanned
    <3> HIDE DEF o
    <3>2. PICK a \in 1..Len(s), b \in 1..Len(s) : o = <<a, b>>
      BY <3>1
    <3>3. a < b
      <4>1. IsSpan(s, a, b)
        BY <3>1, <3>2
      <4> QED BY <4>1 DEF IsSpan
    <3>4. Len(SubSeq(s, a, b)) = (b - a) + 1
      BY <3>3, SubSeqProperties
    <3>5. SubSeq(s, a, b) # <<>>
      BY <3>3, <3>4
    <3>6. LastOf(s, C) = SubSeq(s, a, b)
      BY <3>2, <2>7
    <3> QED BY <3>5, <3>6
  <2>9. ASSUME NEW p \in TopLevel(s), Fits(s, p, C) PROVE p[1] <= o[1]
    <3>1. PICK k \in DOMAIN spans : spans[k] = p
      BY <1>4
    <3>2. k \in fits
      BY <3>1, <1>3, <2>9
    <3>3. k <= x
      BY <3>2, <2>4
    <3> QED BY <3>1, <3>3, <2>5, SpansOrdered
  <2> QED BY <2>5, <2>6, <2>7, <2>8, <2>9
<1> QED BY <1>5, <1>6

-----------------------------------------------------------------------------
(***************************************************************************)
(* Dispatch.                                                               *)
(***************************************************************************)
(***************************************************************************)
(* Types.                                                                  *)
(***************************************************************************)
Findings == [says : {"failed", "critical", "clean"}, of : Nat]
Reviews == [Reviewer -> Findings \cup {None}]
Aggregates == [final_status : Given, revision_rounds : Nat, errored : BOOLEAN]
Outcomes == [status : Given, review : Aggregates \cup {None}]
Records == [status : Given \cup {"intent", "update", "foreign"}, review : Aggregates \cup {None}]
Trees == [by : Nat, code : Code]
Verdicts == [passed : BOOLEAN, tree : Trees]

(***************************************************************************)
(* Where the pipeline is.  A call of runAuthor belongs to the stage that   *)
(* made it.                                                                *)
(***************************************************************************)
\* An outcome has been adopted, and it is or is not reviewed.
Second == pc \in {"select", "accept", "review", "rereview", "finish"} \/ InAuthor("reviews")
\* There is a result, and it is or is not verified.
Third == pc \in {"verify", "settle"} \/ InAuthor("verify")

Adopted == Second \/ Third \/ pc = "done"
Resulted == Third \/ pc = "done"

TypeInv ==
  /\ asked \in [review : BOOLEAN, verify : BOOLEAN, found : Code \cup {None}]
  /\ First \/ Adopted \/ pc = "error"
  /\ caller \in {"dispatch", "reviews", "verify"}
  /\ run \in Nat
  /\ pc = "reply" => reply \in Given
  /\ DOMAIN store \subseteq Nat /\ \A k \in DOMAIN store : store[k] \in Records
  /\ tree \in Trees /\ before \in Code \cup {None}
  /\ Adopted => final \in [key : Nat, status : Given, record : Outcomes]
  /\ reviews \in Reviews
  /\ round \in Nat
  /\ res \in [key : Nat, status : Given \cup {None}, reviews : Reviews \cup {None},
              verify : Verdicts \cup {None}, revisions : Nat,
              files : (SUBSET Code) \cup {None}]
  /\ Resulted => res.status \in Given
  /\ unsynced \in BOOLEAN

\* What the parsers can say, whatever is printed.
LEMMA ParsersType ==
  AgentStatus \subseteq Given /\ ReviewStatus \subseteq {"failed", "critical", "clean"}
<1>1. AgentStatus \subseteq Given
  BY DEF AgentStatus, ParseResponse, Given
<1>2. ReviewStatus \subseteq {"failed", "critical", "clean"}
  BY DEF ReviewStatus
<1> QED BY <1>1, <1>2

\* At first every variable has its type.
LEMMA InitType == Init => TypeInv
<1> SUFFICES ASSUME Init PROVE TypeInv
  OBVIOUS
<1>1. reviews \in Reviews /\ tree \in Trees
  BY DispatchAssumption DEF Init, Reviews, Trees
<1>2. DOMAIN store \subseteq Nat /\ \A k \in DOMAIN store : store[k] \in Records
  BY DEF Init
<1>3. res \in [key : Nat, status : Given \cup {None}, reviews : Reviews \cup {None},
               verify : Verdicts \cup {None}, revisions : Nat,
               files : (SUBSET Code) \cup {None}]
  BY DEF Init
<1> QED
  BY <1>1, <1>2, <1>3
  DEF Init, TypeInv, First, Adopted, Resulted, Second, Third, InAuthor

\* finishReviewed, which four places call.
LEMMA FinishType ==
  ASSUME TypeInv, Second, NEW agg \in Aggregates, NEW shown \in Reviews \cup {None},
         FinishReviewed(agg, shown)
  PROVE  TypeInv'
<1> DEFINE rec == [final.record EXCEPT !.review = agg]
<1>1. rec \in Outcomes /\ rec \in Records
  BY DEF TypeInv, Adopted, Outcomes, Records
<1> HIDE DEF rec
<1>2. final' \in [key : Nat, status : Given, record : Outcomes]
  BY <1>1 DEF FinishReviewed, TypeInv, Adopted, rec
<1>3. DOMAIN store' \subseteq Nat /\ \A k \in DOMAIN store' : store'[k] \in Records
  BY <1>1 DEF FinishReviewed, TypeInv, Adopted, Put, rec
<1>4. /\ res' \in [key : Nat, status : Given \cup {None}, reviews : Reviews \cup {None},
                   verify : Verdicts \cup {None}, revisions : Nat,
                   files : (SUBSET Code) \cup {None}]
      /\ res'.status \in Given
  BY DEF FinishReviewed, TypeInv, Adopted, Aggregates
<1> QED
  BY <1>2, <1>3, <1>4
  DEF FinishReviewed, TypeInv, First, Adopted, Resulted, Second, Third, InAuthor, Gate,
      snapshots

\* The verdict over several reviews is one of the three.
LEMMA AggregateType ==
  ASSUME NEW status \in Given, NEW n \in Nat
  PROVE  Aggregate(status, n) \in Aggregates
BY DEF Aggregate, Aggregates

\* Every step keeps the types.
LEMMA TypePreserved == TypeInv /\ [Next]_vars => TypeInv'
<1> SUFFICES ASSUME TypeInv, [Next]_vars PROVE TypeInv'
  OBVIOUS
<1> USE DispatchAssumption
    DEF First, Adopted, Resulted, Second, Third, InAuthor, Put, Record, CallAuthor,
        AuthorFails, Edits, Gate, snapshots
<1>0. Adopted => final.status \in Given
  BY DEF TypeInv
<1>1. CASE Refuse  BY <1>1 DEF Refuse, TypeInv
<1>2. CASE Begin   BY <1>2 DEF Begin, TypeInv
<1>3. CASE AuthorRefused  BY <1>3 DEF AuthorRefused, TypeInv
<1>4. CASE Intent  BY <1>4 DEF Intent, Records, TypeInv
<1>5. CASE AgentFails  BY <1>5 DEF AgentFails, Trees, TypeInv
<1>6. CASE WriteFails  BY <1>6 DEF WriteFails, TypeInv
<1>7. CASE Final
  <2>1. Record(reply, None) \in Outcomes
    BY <1>7 DEF Final, Outcomes, Given, TypeInv
  <2>2. /\ DOMAIN store' \subseteq Nat /\ \A k \in DOMAIN store' : store'[k] \in Records
        /\ final' \in [key : Nat, status : Given, record : Outcomes]
    BY <1>7, <2>1 DEF Final, Records, TypeInv
  <2>3. /\ reviews' \in Reviews
        /\ res' \in [key : Nat, status : Given \cup {None},
                      reviews : Reviews \cup {None}, verify : Verdicts \cup {None},
                      revisions : Nat, files : (SUBSET Code) \cup {None}]
        /\ Resulted' => res'.status \in Given
    <3>1. run \in Nat /\ reply \in Given /\ round \in Nat
      BY <1>7 DEF Final, Given, TypeInv
    <3>2. CASE UNCHANGED <<reviews, res>> /\ pc' \in {"select", "accept"}
      BY <3>2 DEF TypeInv
    <3>3. CASE reviews' = [r \in Reviewer |-> None] /\ UNCHANGED res /\ pc' = "rereview"
      BY <3>3 DEF Reviews, TypeInv
    <3>4. CASE /\ UNCHANGED reviews
               /\ res' = [res EXCEPT !.key = run, !.status = reply, !.revisions = round]
      BY <3>1, <3>4 DEF TypeInv
    <3> QED BY <1>7, <3>2, <3>3, <3>4 DEF Final
  <2> QED
    BY <1>7, <2>2, <2>3 DEF Final, TypeInv
<1>8. ASSUME NEW s \in AgentStatus, AgentReplies(s) PROVE TypeInv'
  BY <1>8, ParsersType DEF AgentReplies, Trees, TypeInv
<1>9. CASE AcceptAuthor  BY <1>0, <1>9 DEF AcceptAuthor, TypeInv
<1>10. CASE SelectReviewers  BY <1>10 DEF SelectReviewers, TypeInv
<1>11. CASE NoReviewers
  BY <1>0, <1>11, AggregateType, FinishType DEF NoReviewers
<1>12. ASSUME NEW r \in Reviewer, ReviewerAnswers(r) PROVE TypeInv'
  BY <1>12, ParsersType DEF ReviewerAnswers, Reviews, Findings, TypeInv
<1>13. CASE AcceptReviews
  BY <1>0, <1>13, AggregateType, FinishType DEF AcceptReviews, TypeInv
<1>14. CASE Revise  BY <1>14 DEF Revise, TypeInv
<1>15. CASE RevisionFailed
  BY <1>15, AggregateType, FinishType DEF RevisionFailed, TypeInv, Given
<1>16. CASE AcceptRereview
  BY <1>0, <1>16, AggregateType, FinishType DEF AcceptRereview, TypeInv, Given
<1>17. ASSUME NEW ok \in BOOLEAN, Verify(ok) PROVE TypeInv'
  BY <1>17 DEF Verify, Verdicts, TypeInv
<1>18. CASE Settle
  <2> DEFINE status == IF VerifyFailed THEN "verify_failed" ELSE res.status
  <2>1. status \in Given
    BY <1>18 DEF Settle, TypeInv, Given
  <2>2. \A files \in changedFilesSince(before) : files \in (SUBSET Code) \cup {None}
    BY DEF changedFilesSince, TypeInv, Trees
  <2> HIDE DEF status
  <2>3. Synced(status) \in Outcomes /\ Synced(status) \in Records
    BY <1>18, <2>1 DEF Settle, Synced, TypeInv, Outcomes, Records
  <2>4. /\ res' \in [key : Nat, status : Given \cup {None}, reviews : Reviews \cup {None},
                     verify : Verdicts \cup {None}, revisions : Nat,
                     files : (SUBSET Code) \cup {None}]
        /\ res'.status \in Given
    <3>1. PICK files \in (SUBSET Code) \cup {None} :
            res' = [res EXCEPT !.status = status, !.files = files]
      BY <1>18, <2>2 DEF Settle, status
    <3> QED BY <2>1, <3>1 DEF TypeInv
  <2>5. final' \in [key : Nat, status : Given, record : Outcomes]
    BY <1>18, <2>3 DEF Settle, TypeInv, status
  <2>6. DOMAIN store' \subseteq Nat /\ \A k \in DOMAIN store' : store'[k] \in Records
    BY <1>18, <2>3 DEF Settle, TypeInv, status
  <2> QED
    BY <1>18, <2>4, <2>5, <2>6 DEF Settle, TypeInv
<1>19. CASE OtherEdits  BY <1>19 DEF OtherEdits, Trees, TypeInv
<1>20. CASE UNCHANGED vars  BY <1>20 DEF vars, TypeInv
<1>21. ASSUME NEW k \in DOMAIN store, Update(k) PROVE TypeInv'
  BY <1>21 DEF Update, Records, TypeInv
<1>22. ASSUME NEW k \in DOMAIN store, OtherUpdates(k) PROVE TypeInv'
  BY <1>22 DEF OtherUpdates, Records, TypeInv
<1> QED
  BY <1>1, <1>2, <1>3, <1>4, <1>5, <1>6, <1>7, <1>8, <1>9, <1>10, <1>11, <1>12, <1>13,
     <1>14, <1>15, <1>16, <1>17, <1>18, <1>19, <1>20, <1>21, <1>22 DEF Next

-----------------------------------------------------------------------------
(***************************************************************************)
(* The inductive invariant.                                                *)
(***************************************************************************)

\* Run numbers are used once; the run in progress is not the one adopted.
RunInv ==
  /\ \A k \in DOMAIN store : k <= run
  /\ pc = "author" => run \notin DOMAIN store
  /\ pc \in {"run", "reply"} => run \in DOMAIN store
  /\ Adopted => final.key \in DOMAIN store
  /\ Adopted /\ pc \in {"author", "run", "reply"} => final.key < run

\* A revision may have overwritten the record of the outcome that is adopted, and
\* is either at work or has failed.
Marked ==
  \/ InAuthor("reviews") \/ pc = "finish" \/ InAuthor("verify")
  \/ pc \in {"verify", "settle"} /\ res.status = "review_failed"
  \/ pc = "settle" /\ VerifyFailed
  \/ pc = "done" /\ res.status \in FailedStatus /\ final.status = res.status

\* What is adopted is on record with its status, or with what was put over it.
RecordInv ==
  /\ Adopted /\ ~(pc = "done" /\ unsynced) =>
       \/ store[final.key].status \in {final.record.status, "foreign"}
       \/ store[final.key].status = "update" /\ Marked
  /\ Adopted /\ pc # "done" => final.record.status = final.status
  /\ Second => final.record.review = None
  /\ Resulted => res.key = final.key
  /\ pc = "done" => res.status = final.record.status

\* The reviewers' slots speak of the run adopted.
SlotInv ==
  /\ First \/ pc = "select" => \A r \in Reviewer : reviews[r] = None
  /\ pc \in {"review", "rereview"} =>
       \A r \in Reviewer : reviews[r] # None => reviews[r].of = final.key
  /\ pc = "finish" \/ InAuthor("reviews") =>
       /\ AnyCritical
       /\ \A r \in Reviewer : reviews[r] # None /\ reviews[r].of = final.key

\* GatedByReview, with the aggregate that explains the status.
ReviewInv ==
  /\ First \/ Second => res.reviews = None
  /\ InAuthor("verify") => round > 0
  /\ Resulted /\ res.reviews # None /\ res.revisions = 0 =>
       /\ \A r \in Reviewer : res.reviews[r] # None /\ res.reviews[r].of = res.key
       /\ \/ \E r \in Reviewer : res.reviews[r].says = "critical"
          \/ final.status = "review_failed"
          <=> final.record.review.final_status = "review_failed"
       /\ Third \/ ~VerifyFailed => res.status = final.record.review.final_status

\* A pass is the last thing that happened to the tree, as far as authors go.
VerifyInv ==
  /\ InAuthor("verify") => res.verify # None /\ ~res.verify.passed
  /\ pc \in {"settle", "done"} /\ asked.verify =>
       /\ res.verify # None
       /\ res.verify.passed => res.verify.tree = tree \/ tree.by = 0
  /\ pc = "done" /\ res.status # "verify_failed" => ~VerifyFailed

FilesInv ==
  /\ pc \notin {"start", "error"} => before = asked.found
  /\ pc = "done" /\ res.files # None => res.files = {tree.code} \ {Clean, asked.found}

IInv == TypeInv /\ RunInv /\ RecordInv /\ SlotInv /\ ReviewInv /\ VerifyInv /\ FilesInv

Rest == RunInv /\ RecordInv /\ SlotInv /\ ReviewInv /\ VerifyInv /\ FilesInv

\* At first nothing is dispatched, and the invariant holds.
LEMMA InitIInv == Init => IInv
<1> SUFFICES ASSUME Init PROVE IInv
  OBVIOUS
<1>1. DOMAIN store = {}
  BY DEF Init
<1> QED
  BY <1>1, InitType
  DEF Init, IInv, RunInv, RecordInv, SlotInv, ReviewInv, VerifyInv, FilesInv, First, Adopted,
      Resulted, Second, Third, InAuthor

\* finishReviewed: what it is given of the reviewers agrees with the aggregate.
LEMMA FinishPreserves ==
  ASSUME IInv, Second, pc \notin {"author", "run", "reply"},
         NEW agg \in Aggregates, NEW shown \in {None, reviews},
         shown # None =>
           /\ \A r \in Reviewer : reviews[r] # None /\ reviews[r].of = final.key
           /\ AnyCritical \/ final.status = "review_failed"
                <=> agg.final_status = "review_failed",
         pc = "finish" => agg.final_status = "review_failed",
         FinishReviewed(agg, shown)
  PROVE  Rest'
<1> USE DEF IInv, TypeInv, First, Adopted, Resulted, Second, Third, InAuthor, Gate, snapshots
<1>1. /\ final'.key = final.key /\ final'.status = final.status
      /\ final'.record.status = final.record.status /\ final'.record.review = agg
  BY DEF FinishReviewed, Outcomes
<1>2. /\ DOMAIN store' = DOMAIN store
      /\ \/ store'[final.key].status = final.record.status
         \/ store'[final.key].status = store[final.key].status
  <2> DEFINE rec == [final.record EXCEPT !.review = agg]
  <2>1. rec.status = final.record.status
    BY DEF Outcomes
  <2> HIDE DEF rec
  <2>2. Put(final.key, rec) \/ store' = store
    BY DEF FinishReviewed, rec
  <2>3. final.key \in DOMAIN store
    BY DEF RunInv
  <2>4. CASE Put(final.key, rec)
    BY <2>1, <2>3, <2>4 DEF Put
  <2>5. CASE store' = store
    BY <2>5
  <2> QED BY <2>2, <2>4, <2>5
<1>3. /\ res'.key = final.key /\ res'.status = agg.final_status /\ res'.reviews = shown
      /\ res'.revisions = res.revisions /\ res'.verify = res.verify /\ res'.files = res.files
  BY DEF FinishReviewed
<1> USE DEF FinishReviewed
<1>4. RunInv' /\ SlotInv' /\ FilesInv'
  BY <1>1, <1>2 DEF RunInv, SlotInv, FilesInv
<1>5. RecordInv'
  <2>1. \/ store[final.key].status \in {final.record.status, "foreign"}
        \/ store[final.key].status = "update" /\ pc = "finish"
    BY DEF RecordInv, Marked
  <2>2. \/ store'[final.key].status \in {final.record.status, "foreign"}
        \/ store'[final.key].status = "update" /\ res'.status = "review_failed"
    BY <1>2, <1>3, <2>1
  <2>3. final.record.status = final.status
    BY DEF RecordInv
  <2>4. pc' \in {"verify", "settle"}
    OBVIOUS
  <2> QED
    BY <1>1, <1>3, <2>2, <2>3, <2>4 DEF RecordInv, Marked
<1>6. ReviewInv'
  BY <1>1, <1>3 DEF ReviewInv, AnyCritical
<1>7. VerifyInv'
  BY DEF VerifyInv
<1> QED BY <1>4, <1>5, <1>6, <1>7 DEF Rest

\* The ends of the review stage.
LEMMA ReviewEndPreserves ==
  ASSUME IInv, NoReviewers \/ AcceptReviews \/ RevisionFailed \/ AcceptRereview
  PROVE  Rest'
<1> DEFINE kept == final.status
<1>1. Second /\ pc \notin {"author", "run", "reply"}
  BY DEF Second, NoReviewers, AcceptReviews, RevisionFailed, AcceptRereview
<1>2. kept \in Given
  BY <1>1 DEF IInv, TypeInv, Adopted
<1>3. /\ \A n \in Nat : Aggregate(kept, n) \in Aggregates /\ Aggregate(kept, n).final_status = kept
      /\ Aggregate("review_failed", 1) \in Aggregates
      /\ Aggregate("review_failed", 1).final_status = "review_failed"
  BY <1>2, AggregateType DEF Aggregate, Given
<1>4. CASE NoReviewers
  BY <1>1, <1>3, <1>4, FinishPreserves DEF NoReviewers
<1>5. CASE AcceptReviews
  <2>1. \A r \in Reviewer : reviews[r] # None /\ reviews[r].of = final.key
    BY <1>5 DEF IInv, SlotInv, AcceptReviews, Joined
  <2> QED BY <1>1, <1>3, <1>5, <2>1, FinishPreserves DEF AcceptReviews
<1>6. CASE RevisionFailed
  <2>1. AnyCritical /\ \A r \in Reviewer : reviews[r] # None /\ reviews[r].of = final.key
    BY <1>6 DEF IInv, SlotInv, RevisionFailed
  <2> QED BY <1>1, <1>3, <1>6, <2>1, FinishPreserves DEF RevisionFailed
<1>7. CASE AcceptRereview
  <2>1. \A r \in Reviewer : reviews[r] # None /\ reviews[r].of = final.key
    BY <1>7 DEF IInv, SlotInv, AcceptRereview, Joined
  <2>2. CASE AnyCritical
    BY <1>1, <1>3, <1>7, <2>1, <2>2, FinishPreserves DEF AcceptRereview
  <2>3. CASE ~AnyCritical
    BY <1>1, <1>3, <1>7, <2>1, <2>3, FinishPreserves DEF AcceptRereview
  <2> QED BY <2>2, <2>3
<1> QED BY <1>4, <1>5, <1>6, <1>7

\* Writing the record of k writes no other.
LEMMA PutWrites ==
  ASSUME NEW k, NEW rec, Put(k, rec)
  PROVE  /\ DOMAIN store' = DOMAIN store \cup {k} /\ store'[k] = rec
         /\ \A j \in DOMAIN store : j # k => store'[j] = store[j]
BY DEF Put

\* What an update leaves of the records.
LEMMA Overwritten ==
  ASSUME NEW k \in DOMAIN store, NEW status, Put(k, Record(status, None))
  PROVE  /\ DOMAIN store' = DOMAIN store /\ store'[k].status = status
         /\ \A j \in DOMAIN store : j # k => store'[j] = store[j]
BY PutWrites DEF Record

\* The final record takes the place of the intent and is adopted, and after a verify
\* round the result is of it.
LEMMA FinalAdopts ==
  ASSUME TypeInv, RunInv, Final
  PROVE  /\ final'.key = run /\ final'.status = reply
         /\ final'.record.status = reply /\ final'.record.review = None
         /\ DOMAIN store' = DOMAIN store /\ store'[run] = final'.record
         /\ \A k \in DOMAIN store : k # run => store'[k] = store[k]
         /\ caller = "verify" =>
              /\ res'.key = run /\ res'.status = reply /\ res'.revisions = round
              /\ res'.reviews = res.reviews /\ res'.verify = res.verify
              /\ res'.files = res.files
<1>1. run \in DOMAIN store
  BY DEF Final, RunInv
<1>2. /\ Put(run, final'.record)
      /\ final' = [key |-> run, status |-> reply, record |-> Record(reply, None)]
  BY DEF Final
<1>3. DOMAIN store' = DOMAIN store /\ store'[run] = final'.record
      /\ \A k \in DOMAIN store : k # run => store'[k] = store[k]
  BY <1>1, <1>2, PutWrites
<1>4. ASSUME caller = "verify"
      PROVE  /\ res'.key = run /\ res'.status = reply /\ res'.revisions = round
             /\ res'.reviews = res.reviews /\ res'.verify = res.verify
             /\ res'.files = res.files
  <2>1. res' = [res EXCEPT !.key = run, !.status = reply, !.revisions = round]
    BY <1>4 DEF Final
  <2> QED BY <2>1 DEF TypeInv
<1> QED BY <1>2, <1>3, <1>4 DEF Record

\* Memory updates, the dispatch's own and the others'.
LEMMA UpdatesPreserve ==
  ASSUME IInv, NEW k \in DOMAIN store, Update(k) \/ OtherUpdates(k)
  PROVE  Rest'
<1>1. /\ UNCHANGED <<asked, pc, caller, run, tree, before, final, reviews, round, res, unsynced>>
      /\ \/ pc = "reply" /\ Put(k, Record("update", None))
         \/ Put(k, Record("foreign", None))
  BY DEF Update, OtherUpdates, snapshots
<1>2. /\ DOMAIN store' = DOMAIN store
      /\ \A j \in DOMAIN store : j # k => store'[j] = store[j]
      /\ \/ pc = "reply" /\ store'[k].status = "update"
         \/ store'[k].status = "foreign"
  BY <1>1, Overwritten
<1> USE DEF First, Adopted, Resulted, Second, Third, InAuthor
<1>3. RunInv'
  BY <1>1, <1>2 DEF IInv, RunInv
<1>4. RecordInv'
  <2>1. Marked' = Marked
    BY <1>1 DEF Marked, VerifyFailed
  <2>2. Adopted /\ pc = "reply" => Marked
    BY DEF Marked
  <2>3. Adopted => final.key \in DOMAIN store
    BY DEF IInv, RunInv
  <2> QED BY <1>1, <1>2, <2>1, <2>2, <2>3 DEF IInv, RecordInv
<1>5. SlotInv'
  BY <1>1 DEF IInv, SlotInv, AnyCritical
<1>6. ReviewInv'
  BY <1>1 DEF IInv, ReviewInv, VerifyFailed
<1>7. VerifyInv' /\ FilesInv'
  BY <1>1 DEF IInv, VerifyInv, FilesInv, VerifyFailed
<1> QED BY <1>3, <1>4, <1>5, <1>6, <1>7 DEF Rest

\* Every step keeps what the invariant says beyond the types.
LEMMA RestPreserved == IInv /\ [Next]_vars => Rest'
<1> SUFFICES ASSUME IInv, [Next]_vars PROVE Rest'
  OBVIOUS
<1> USE DispatchAssumption
    DEF IInv, TypeInv, Rest, RunInv, RecordInv, SlotInv, ReviewInv, VerifyInv, FilesInv,
        First, Adopted, Resulted, Second, Third, InAuthor, Put, Record, CallAuthor,
        AuthorFails, Gate, snapshots, Marked, VerifyFailed
<1>1. CASE Refuse  BY <1>1 DEF Refuse
<1>2. CASE Begin   BY <1>2 DEF Begin
<1>3. CASE AuthorRefused  BY <1>3 DEF AuthorRefused, AnyCritical
<1>4. CASE Intent  BY <1>4 DEF Intent, Records, AnyCritical
<1>5. CASE AgentFails  BY <1>5 DEF AgentFails, Trees, AnyCritical
<1>6. CASE WriteFails  BY <1>6 DEF WriteFails, AnyCritical
<1>7. CASE Final
  <2>1. /\ final'.key = run /\ final'.status = reply
        /\ final'.record.status = reply /\ final'.record.review = None
        /\ DOMAIN store' = DOMAIN store /\ store'[run] = final'.record
        /\ \A k \in DOMAIN store : k # run => store'[k] = store[k]
    BY <1>7, FinalAdopts
  <2>2. CASE caller = "dispatch"
    BY <1>7, <2>1, <2>2 DEF Final
  <2>3. CASE caller = "reviews"
    BY <1>7, <2>1, <2>3 DEF Final
  <2>4. CASE caller = "verify"
    <3>1. /\ res'.key = run /\ res'.status = reply /\ res'.revisions = round
          /\ res'.reviews = res.reviews /\ res'.verify = res.verify
          /\ res'.files = res.files
      BY <1>7, <2>4, FinalAdopts
    <3> QED BY <1>7, <2>1, <2>4, <3>1 DEF Final
  <2> QED BY <2>2, <2>3, <2>4
<1>8. ASSUME NEW s \in AgentStatus, AgentReplies(s) PROVE Rest'
  BY <1>8 DEF AgentReplies, AnyCritical
<1>9. CASE AcceptAuthor
  <2>1. /\ res'.key = final.key /\ res'.status = final.status
        /\ res'.reviews = res.reviews /\ res'.verify = res.verify
    BY <1>9 DEF AcceptAuthor
  <2> QED BY <1>9, <2>1 DEF AcceptAuthor
<1>10. CASE SelectReviewers  BY <1>10 DEF SelectReviewers
<1>11. CASE NoReviewers  BY <1>11, ReviewEndPreserves
<1>12. ASSUME NEW r \in Reviewer, ReviewerAnswers(r) PROVE Rest'
  BY <1>12 DEF ReviewerAnswers, Reviews
<1>13. CASE AcceptReviews  BY <1>13, ReviewEndPreserves
<1>14. CASE Revise  BY <1>14 DEF Revise, Joined, AnyCritical
<1>15. CASE RevisionFailed  BY <1>15, ReviewEndPreserves
<1>16. CASE AcceptRereview  BY <1>16, ReviewEndPreserves
<1>17. ASSUME NEW ok \in BOOLEAN, Verify(ok) PROVE Rest'
  <2>1. /\ res'.verify = [passed |-> ok, tree |-> tree]
        /\ res'.key = res.key /\ res'.status = res.status /\ res'.files = res.files
        /\ res'.reviews = res.reviews /\ res'.revisions = res.revisions
    BY <1>17 DEF Verify
  <2>2. res'.verify \in Verdicts /\ res'.verify # None
    BY <2>1 DEF Verdicts, Trees
  <2> QED BY <1>17, <2>1, <2>2 DEF Verify, AnyCritical
<1>18. CASE Settle
  <2> DEFINE status == IF VerifyFailed THEN "verify_failed" ELSE res.status
  <2>1. /\ res'.status = status /\ res'.files \in changedFilesSince(before)
        /\ res'.key = res.key /\ res'.verify = res.verify
        /\ res'.reviews = res.reviews /\ res'.revisions = res.revisions
    BY <1>18 DEF Settle
  <2>2. /\ final'.key = final.key /\ final'.status = final.status
        /\ final'.record = Synced(status)
    BY <1>18 DEF Settle
  <2>3. Synced(status).status = status /\ Synced(status).review = final.record.review
    BY <1>18 DEF Synced, Outcomes
  <2>s. status = "verify_failed" \/ (~VerifyFailed /\ status = res.status)
    OBVIOUS
  <2> HIDE DEF status
  <2>4. /\ DOMAIN store' = DOMAIN store
        /\ ~unsynced' =>
             \/ store'[final.key].status \in {status, "foreign"}
             \/ /\ store'[final.key].status = "update"
                /\ status \in FailedStatus /\ final.status = status
    <3>1. final.key \in DOMAIN store
      BY <1>18 DEF Settle
    <3>2. CASE Put(final.key, Synced(status))
      <4> HIDE DEF Put, IInv
      <4>1. store'[final.key] = Synced(status) /\ DOMAIN store' = DOMAIN store
        BY <3>1, <3>2, PutWrites
      <4> QED BY <2>3, <4>1
    <3>3. CASE OutOfSync(status) /\ unsynced' /\ store' = store
      BY <1>18, <3>1, <3>3 DEF Settle
    <3>4. CASE ~OutOfSync(status) /\ store' = store
      <4>1. final.record.status = status /\ final.status = status
        BY <1>18, <3>4 DEF Settle, OutOfSync
      <4>2. \/ store[final.key].status \in {status, "foreign"}
            \/ /\ store[final.key].status = "update"
               /\ res.status = "review_failed" \/ VerifyFailed
        BY <1>18, <4>1 DEF Settle
      <4>3. res.status = "review_failed" \/ VerifyFailed => status \in FailedStatus
        BY DEF status, FailedStatus
      <4> QED BY <3>1, <3>4, <4>1, <4>2, <4>3
    <3>5. \/ Put(final.key, Synced(status))
          \/ OutOfSync(status) /\ unsynced' /\ store' = store
          \/ ~OutOfSync(status) /\ store' = store
      <4> HIDE DEF Put, OutOfSync
      <4> QED BY <1>18 DEF Settle, status
    <3> QED BY <3>2, <3>3, <3>4, <3>5
  <2>5. RunInv' /\ SlotInv'
    BY <1>18, <2>2, <2>4 DEF Settle, status
  <2>6. RecordInv'
    BY <1>18, <2>1, <2>2, <2>3, <2>4 DEF Settle
  <2>7. ReviewInv'
    BY <1>18, <2>1, <2>2, <2>3, <2>s DEF Settle
  <2>8. VerifyInv'
    BY <1>18, <2>1, <2>s DEF Settle
  <2>9. FilesInv'
    BY <1>18, <2>1 DEF Settle, changedFilesSince
  <2> QED BY <2>5, <2>6, <2>7, <2>8, <2>9
<1>19. CASE OtherEdits  BY <1>19 DEF OtherEdits, Edits, AnyCritical
<1>20. CASE UNCHANGED vars  BY <1>20 DEF vars, AnyCritical
<1>21. ASSUME NEW k \in DOMAIN store, Update(k) PROVE Rest'
  BY <1>21, UpdatesPreserve
<1>22. ASSUME NEW k \in DOMAIN store, OtherUpdates(k) PROVE Rest'
  BY <1>22, UpdatesPreserve
<1> QED
  BY <1>1, <1>2, <1>3, <1>4, <1>5, <1>6, <1>7, <1>8, <1>9, <1>10, <1>11, <1>12, <1>13,
     <1>14, <1>15, <1>16, <1>17, <1>18, <1>19, <1>20, <1>21, <1>22 DEF Next

\* The invariant holds throughout.
LEMMA Inductive == Spec => []IInv
<1>1. IInv /\ [Next]_vars => IInv'
  BY TypePreserved, RestPreserved DEF IInv, Rest
<1> QED BY InitIInv, <1>1, PTL DEF Spec

-----------------------------------------------------------------------------

\* orchestrator.go:694-705: the record the result points to says what the
\* result says, unless the sync itself failed.
THEOREM RecordsAgree == Spec => []RecordAgrees
<1>1. IInv => RecordAgrees
  BY DEF IInv, RunInv, RecordInv, Adopted, Resulted, Marked, First, Second, Third, InAuthor,
         RecordAgrees
<1> QED BY Inductive, <1>1, PTL

\* orchestrator.go:556-566, 1485-1564: the reviews returned are of the run
\* returned, and a critical one marks it.
THEOREM ReviewsGate == Spec => []GatedByReview
<1>1. IInv => GatedByReview
  BY DEF IInv, RecordInv, ReviewInv, VerifyInv, Resulted, Third, InAuthor, GatedByReview
<1> QED BY Inductive, <1>1, PTL

\* orchestrator.go:632-668: what is not marked verify_failed passed on the tree
\* as this dispatch leaves it.
THEOREM GatePassedHere == Spec => []PassedOnThisTree
<1>1. IInv => PassedOnThisTree
  BY DEF IInv, VerifyInv, VerifyFailed, PassedOnThisTree
<1> QED BY Inductive, <1>1, PTL

\* orchestrator.go:596-599, 688-692: the files listed are the net changes.
THEOREM FilesNet == Spec => []FilesAreNet
<1>1. IInv => FilesAreNet
  BY DEF IInv, FilesInv, FilesAreNet
<1> QED BY Inductive, <1>1, PTL

(***************************************************************************)
(* How far a dispatch is from its end.                                     *)
(***************************************************************************)
Waiting == {r \in Reviewer : reviews[r] = None}

\* The steps to come from a place of the pipeline, memory updates and what others
\* do apart, when waiting reviewers are at work and left verify rounds have not
\* begun.
StepsFrom(place, who, waiting, left) ==
  LET R == Cardinality(Reviewer)
      V == verifyReviseRounds
      author == IF place = "author" THEN 3 ELSE IF place = "run" THEN 2 ELSE 1
  IN CASE place \in {"done", "error"} -> 0
       [] place = "settle" -> 1
       [] place = "verify" -> 2 + 4 * left
       [] place \in {"accept", "finish"} -> 3 + 4 * V
       [] place = "rereview" -> 3 + 4 * V + waiting
       [] place = "review" -> 7 + 4 * V + R + waiting
       [] place = "select" -> 8 + 4 * V + 2 * R
       [] place = "start" -> 12 + 4 * V + 2 * R
       [] place \in {"author", "run", "reply"} ->
            author + CASE who = "verify" -> 2 + 4 * left
                       [] who = "reviews" -> 3 + 4 * V + R
                       [] who = "dispatch" -> 8 + 4 * V + 2 * R

\* The records that a memory update would change.
Unspoilt == {k \in DOMAIN store : store[k] # Record("update", None)}

StagesLeft ==
  StepsFrom(pc, caller, Cardinality(Waiting), verifyReviseRounds - round)
    + (MaxOthers - others)

\* Every stage leaves at most one record more to be changed.
StepsLeft == 2 * StagesLeft + Cardinality(Unspoilt)

\* The verify rounds are counted from the gate on, there are no more of them than
\* configured, and each runs the author once.
RoundInv ==
  /\ round \in 0..verifyReviseRounds /\ others \in 0..MaxOthers
  /\ First \/ Second => round = 0
  /\ pc = "start" => run = 0
  /\ InAuthor("dispatch") \/ pc \in {"select", "accept", "review"} => run <= 1
  /\ run <= 2 + round

\* The rounds are a number, and so are the reviewers at work.
LEMMA Counts ==
  /\ verifyReviseRounds \in Nat \ {0} /\ Cardinality(Reviewer) \in Nat
  /\ Cardinality(Waiting) \in 0..Cardinality(Reviewer)
<1>1. verifyReviseRounds \in Nat \ {0}
  BY DispatchAssumption DEF verifyReviseRounds
<1>2. IsFiniteSet(Reviewer) /\ Waiting \in SUBSET Reviewer
  BY ReviewerAssumption DEF Waiting
<1>3. IsFiniteSet(Waiting) /\ Cardinality(Waiting) <= Cardinality(Reviewer)
  BY <1>2, FS_Subset
<1> QED BY <1>1, <1>2, <1>3, FS_CardinalityType

\* The pipeline is always somewhere.
LEMMA PlacesOf ==
  ASSUME TypeInv
  PROVE  /\ pc \in {"start", "author", "run", "reply", "select", "accept", "review", "rereview",
                    "finish", "verify", "settle", "done", "error"}
         /\ caller \in {"dispatch", "reviews", "verify"}
BY DEF TypeInv, First, Adopted, Second, Third, InAuthor

\* No step leads past the configured rounds.
LEMMA RoundsPreserved == TypeInv /\ RoundInv /\ [Next]_vars => RoundInv'
<1> SUFFICES ASSUME TypeInv, RoundInv, [Next]_vars PROVE RoundInv'
  OBVIOUS
<1>1. verifyReviseRounds \in Nat \ {0} /\ round \in Nat /\ run \in Nat /\ MaxOthers \in Nat
  BY Counts, DispatchAssumption DEF TypeInv
<1>p. pc \in {"start", "author", "run", "reply", "select", "accept", "review", "rereview",
              "finish", "verify", "settle", "done", "error"}
      /\ caller \in {"dispatch", "reviews", "verify"}
  BY PlacesOf
<1> USE DEF First, Second, Third, InAuthor
<1>2. CASE Refuse \/ Begin
  BY <1>1, <1>2 DEF Refuse, Begin, CallAuthor, RoundInv, snapshots
<1>3. CASE AuthorRefused \/ AgentFails \/ WriteFails
  <2>1. /\ pc \in {"author", "run", "reply"} /\ UNCHANGED <<caller, run, round, others>>
        /\ \/ caller = "dispatch" /\ pc' = "error"
           \/ caller = "reviews" /\ pc' = "finish"
           \/ caller = "verify" /\ pc' = "settle"
    BY <1>3, <1>p DEF AuthorRefused, AgentFails, WriteFails, AuthorFails, snapshots
  <2> QED BY <1>1, <2>1 DEF RoundInv
<1>4. CASE Intent \/ \E s \in AgentStatus : AgentReplies(s)
  BY <1>1, <1>4 DEF Intent, AgentReplies, RoundInv, snapshots
<1>5. CASE Final
  BY <1>1, <1>5 DEF Final, RoundInv, snapshots
<1>6. CASE AcceptAuthor \/ SelectReviewers \/ \E r \in Reviewer : ReviewerAnswers(r)
  BY <1>1, <1>6 DEF AcceptAuthor, SelectReviewers, ReviewerAnswers, Gate, RoundInv, snapshots
<1>7. CASE NoReviewers \/ AcceptReviews \/ RevisionFailed \/ AcceptRereview
  <2>1. /\ pc \in {"select", "review", "finish", "rereview"} /\ pc' \in {"verify", "settle"}
        /\ UNCHANGED <<caller, run, round, others>>
    BY <1>7 DEF NoReviewers, AcceptReviews, RevisionFailed, AcceptRereview, FinishReviewed,
       Gate, snapshots
  <2> QED BY <1>1, <2>1 DEF RoundInv
<1>8. CASE Revise
  BY <1>1, <1>8 DEF Revise, CallAuthor, RoundInv, snapshots
<1>9. CASE \E ok \in BOOLEAN : Verify(ok)
  <2>1. pc = "verify" /\ UNCHANGED others
        /\ \/ /\ round < verifyReviseRounds /\ round' = round + 1 /\ run' = run + 1
              /\ pc' = "author" /\ caller' = "verify"
           \/ pc' = "settle" /\ UNCHANGED <<round, run, caller>>
    BY <1>9 DEF Verify, CallAuthor, snapshots
  <2> QED BY <1>1, <2>1 DEF RoundInv
<1>10. CASE Settle
  <2>1. pc' = "done" /\ UNCHANGED <<round, run, caller, others>>
    BY <1>10 DEF Settle, snapshots
  <2> QED BY <1>1, <2>1 DEF RoundInv
<1>11. CASE OtherEdits \/ \E k \in DOMAIN store : OtherUpdates(k)
  BY <1>1, <1>11 DEF OtherEdits, OtherUpdates, RoundInv
<1>12. CASE UNCHANGED vars
  BY <1>12 DEF vars, snapshots, RoundInv
<1>13. CASE \E k \in DOMAIN store : Update(k)
  BY <1>13 DEF Update, snapshots, RoundInv
<1> QED
  BY <1>2, <1>3, <1>4, <1>5, <1>6, <1>7, <1>8, <1>9, <1>10, <1>11, <1>12, <1>13 DEF Next

\* Every step but a memory update is one stage nearer to the end.
LEMMA NextStage ==
  ASSUME TypeInv, RoundInv, Next, ~\E k \in DOMAIN store : Update(k)
  PROVE  StagesLeft' < StagesLeft
<1> DEFINE W == Cardinality(Waiting)
           V == verifyReviseRounds
           R == Cardinality(Reviewer)
<1>1. V \in Nat \ {0} /\ R \in Nat /\ W \in 0..R
  BY Counts
<1>2. W' \in 0..R
  <2>1. IsFiniteSet(Reviewer) /\ Waiting' \in SUBSET Reviewer
    BY ReviewerAssumption DEF Waiting
  <2>2. IsFiniteSet(Waiting') /\ Cardinality(Waiting') <= R
    BY <2>1, FS_Subset
  <2> QED BY <2>1, <2>2, <1>1, FS_CardinalityType
<1>3. round \in 0..V /\ others \in 0..MaxOthers /\ MaxOthers \in Nat
  BY DispatchAssumption DEF RoundInv
<1>4. /\ StagesLeft = StepsFrom(pc, caller, W, V - round) + (MaxOthers - others)
      /\ StagesLeft' = StepsFrom(pc', caller', W', V - round') + (MaxOthers - others')
  BY DEF StagesLeft
<1>5. UNCHANGED reviews => W' = W
  BY DEF Waiting
<1>p. /\ pc \in {"start", "author", "run", "reply", "select", "accept", "review", "rereview",
                  "finish", "verify", "settle", "done", "error"}
      /\ caller \in {"dispatch", "reviews", "verify"}
  BY PlacesOf
<1>r. pc \in {"select", "accept", "review", "rereview", "finish"} => round = 0
  BY DEF RoundInv, Second
\* What StepsFrom is at each place.
<1>s. ASSUME NEW w, NEW n, NEW who
      PROVE  /\ StepsFrom("done", who, w, n) = 0 /\ StepsFrom("error", who, w, n) = 0
             /\ StepsFrom("settle", who, w, n) = 1
             /\ StepsFrom("verify", who, w, n) = 2 + 4 * n
             /\ StepsFrom("accept", who, w, n) = 3 + 4 * V
             /\ StepsFrom("finish", who, w, n) = 3 + 4 * V
             /\ StepsFrom("rereview", who, w, n) = 3 + 4 * V + w
             /\ StepsFrom("review", who, w, n) = 7 + 4 * V + R + w
             /\ StepsFrom("select", who, w, n) = 8 + 4 * V + 2 * R
             /\ StepsFrom("start", who, w, n) = 12 + 4 * V + 2 * R
  BY DEF StepsFrom
<1>a. ASSUME NEW w, NEW n, NEW who,
             NEW place \in {"author", "run", "reply"}
      PROVE  LET author == IF place = "author" THEN 3 ELSE IF place = "run" THEN 2 ELSE 1
             IN /\ StepsFrom(place, "verify", w, n) = author + (2 + 4 * n)
                /\ StepsFrom(place, "reviews", w, n) = author + (3 + 4 * V + R)
                /\ StepsFrom(place, "dispatch", w, n) = author + (8 + 4 * V + 2 * R)
  BY DEF StepsFrom
<1> HIDE DEF V, R, W
<1>6. CASE Refuse \/ Begin
  <2>1. /\ pc = "start" /\ UNCHANGED <<others, reviews, round>>
        /\ pc' = "error" \/ (pc' = "author" /\ caller' = "dispatch")
    BY <1>6 DEF Refuse, Begin, CallAuthor, snapshots
  <2> QED BY <2>1, <1>1, <1>2, <1>3, <1>4, <1>5, <1>s, <1>a
<1>7. CASE AuthorRefused \/ AgentFails \/ WriteFails
  <2>1. /\ pc \in {"author", "run", "reply"} /\ UNCHANGED <<others, reviews, round>>
        /\ \/ caller = "dispatch" /\ pc' = "error"
           \/ caller = "reviews" /\ pc' = "finish"
           \/ caller = "verify" /\ pc' = "settle"
    BY <1>7, <1>p DEF AuthorRefused, AgentFails, WriteFails, AuthorFails, snapshots
  <2> QED BY <2>1, <1>1, <1>2, <1>3, <1>4, <1>5, <1>s, <1>a
<1>8. CASE Intent \/ \E s \in AgentStatus : AgentReplies(s)
  <2>1. /\ (pc = "author" /\ pc' = "run") \/ (pc = "run" /\ pc' = "reply")
        /\ UNCHANGED <<others, reviews, round, caller>>
    <3>1. CASE Intent
      BY <3>1 DEF Intent, snapshots
    <3>2. CASE \E s \in AgentStatus : AgentReplies(s)
      BY <3>2 DEF AgentReplies, snapshots
    <3> QED BY <1>8, <3>1, <3>2
  <2> QED BY <2>1, <1>1, <1>2, <1>3, <1>4, <1>5, <1>p, <1>s, <1>a
<1>9. CASE Final
  <2>1. /\ pc = "reply" /\ UNCHANGED <<others, round, caller>>
        /\ \/ caller = "dispatch" /\ pc' \in {"select", "accept"}
           \/ caller = "reviews" /\ pc' = "rereview"
           \/ caller = "verify" /\ pc' = "verify"
    BY <1>9 DEF Final, snapshots
  <2> QED BY <2>1, <1>1, <1>2, <1>3, <1>4, <1>s, <1>a
<1>10. CASE AcceptAuthor \/ NoReviewers \/ AcceptReviews \/ RevisionFailed \/ AcceptRereview
  <2>1. /\ pc \in {"accept", "select", "review", "finish", "rereview"}
        /\ pc' \in {"verify", "settle"} /\ UNCHANGED <<others, round>>
    BY <1>10 DEF AcceptAuthor, NoReviewers, AcceptReviews, RevisionFailed, AcceptRereview,
       FinishReviewed, Gate, snapshots
  <2> QED BY <2>1, <1>1, <1>2, <1>3, <1>4, <1>r, <1>s
<1>11. CASE SelectReviewers
  <2>1. pc = "select" /\ pc' = "review" /\ UNCHANGED <<others, round>>
    BY <1>11 DEF SelectReviewers
  <2> QED BY <2>1, <1>1, <1>2, <1>3, <1>4, <1>s
<1>12. CASE \E r \in Reviewer : ReviewerAnswers(r)
  <2>1. PICK r \in Reviewer : ReviewerAnswers(r)
    BY <1>12
  <2>2. /\ pc \in {"review", "rereview"} /\ UNCHANGED <<pc, others, round>>
        /\ reviews[r] = None
    BY <2>1 DEF ReviewerAnswers, snapshots
  <2>3. PICK says \in ReviewStatus :
          reviews' = [reviews EXCEPT ![r] = [says |-> says, of |-> final.key]]
    BY <2>1 DEF ReviewerAnswers
  <2>4. final.key \in Nat /\ reviews \in [Reviewer -> Findings \cup {None}]
    BY <2>2 DEF TypeInv, Adopted, Second, Reviews
  <2>5. [says |-> says, of |-> final.key] # None
    BY <2>4, ParsersType, ReviewerAssumption
  <2>6. Waiting' = Waiting \ {r} /\ r \in Waiting
    BY <2>2, <2>3, <2>4, <2>5 DEF Waiting
  <2>7. IsFiniteSet(Waiting)
    BY ReviewerAssumption, FS_Subset, Waiting \in SUBSET Reviewer DEF Waiting
  <2>8. W' = W - 1
    BY <2>6, <2>7, FS_RemoveElement DEF W
  <2> QED BY <2>2, <2>8, <1>1, <1>2, <1>3, <1>4, <1>s
<1>13. CASE Revise
  <2>1. /\ pc = "review" /\ pc' = "author" /\ caller' = "reviews"
        /\ UNCHANGED <<others, round>>
    BY <1>13 DEF Revise, CallAuthor, snapshots
  <2> QED BY <2>1, <1>1, <1>2, <1>3, <1>4, <1>s, <1>a
<1>14. CASE \E ok \in BOOLEAN : Verify(ok)
  <2>1. /\ pc = "verify" /\ UNCHANGED others
        /\ \/ round' = round + 1 /\ pc' = "author" /\ caller' = "verify"
           \/ pc' = "settle"
    BY <1>14 DEF Verify, CallAuthor, snapshots
  <2> QED BY <2>1, <1>1, <1>2, <1>3, <1>4, <1>s, <1>a
<1>15. CASE Settle
  <2>1. pc = "settle" /\ pc' = "done" /\ UNCHANGED others
    BY <1>15 DEF Settle, snapshots
  <2> QED BY <2>1, <1>3, <1>4, <1>s
<1>16. CASE OtherEdits \/ \E k \in DOMAIN store : OtherUpdates(k)
  <2>1. others' = others + 1 /\ UNCHANGED <<pc, caller, reviews, round>>
    BY <1>16 DEF OtherEdits, OtherUpdates
  <2> QED BY <2>1, <1>1, <1>3, <1>4, <1>5, <1>p, <1>s, <1>a
<1> QED
  BY <1>6, <1>7, <1>8, <1>9, <1>10, <1>11, <1>12, <1>13, <1>14, <1>15, <1>16 DEF Next

\* So it is in every reachable state.
LEMMA RoundsCounted == Spec => [](TypeInv /\ RoundInv)
<1>1. Init => TypeInv /\ RoundInv
  <2>1. Init => RoundInv
    BY Counts, DispatchAssumption DEF Init, RoundInv, First, Second, InAuthor
  <2> QED BY <2>1, InitType
<1>2. TypeInv /\ RoundInv /\ [Next]_vars => TypeInv' /\ RoundInv'
  BY TypePreserved, RoundsPreserved
<1> QED BY <1>1, <1>2, PTL DEF Spec

\* A step writes one record at most.
LEMMA OneRecordWritten ==
  ASSUME Next
  PROVE  UNCHANGED store \/ \E k, rec : Put(k, rec)
<1>1. CASE UNCHANGED store
  BY <1>1
<1>2. CASE \E k \in DOMAIN store : Update(k) \/ OtherUpdates(k)
  BY <1>2 DEF Update, OtherUpdates
<1>3. CASE Intent
  BY <1>3 DEF Intent
<1>4. CASE Final
  BY <1>4 DEF Final
<1>5. CASE \E agg, shown : FinishReviewed(agg, shown)
  BY <1>5 DEF FinishReviewed
<1>6. CASE Settle
  BY <1>6 DEF Settle
<1> QED
  BY <1>1, <1>2, <1>3, <1>4, <1>5, <1>6
  DEF Next, Refuse, Begin, AuthorRefused, AgentFails, AgentReplies, WriteFails, AcceptAuthor,
      SelectReviewers, NoReviewers, ReviewerAnswers, AcceptReviews, Revise, RevisionFailed,
      AcceptRereview, Verify, OtherEdits

\* There are finitely many records.
StoreInv == IsFiniteSet(DOMAIN store) /\ store = [k \in DOMAIN store |-> store[k]]

\* Writing one of them leaves it so, and at most that one to be changed.
LEMMA PutCounts ==
  ASSUME StoreInv, NEW k, NEW rec, Put(k, rec)
  PROVE  StoreInv' /\ Cardinality(Unspoilt') <= Cardinality(Unspoilt) + 1
<1>1. DOMAIN store' = DOMAIN store \cup {k} /\ IsFiniteSet(DOMAIN store')
  BY FS_AddElement DEF StoreInv, Put
<1>2. store' = [j \in DOMAIN store' |-> store'[j]]
  BY DEF Put
<1>3. IsFiniteSet(Unspoilt)
  BY FS_Subset, Unspoilt \in SUBSET DOMAIN store DEF StoreInv, Unspoilt
<1>4. Unspoilt' \subseteq Unspoilt \cup {k}
  <2>1. \A j \in DOMAIN store : j # k => store'[j] = store[j]
    BY PutWrites
  <2> QED BY <1>1, <2>1 DEF Unspoilt
<1>5. /\ IsFiniteSet(Unspoilt \cup {k})
      /\ \/ Cardinality(Unspoilt \cup {k}) = Cardinality(Unspoilt)
         \/ Cardinality(Unspoilt \cup {k}) = Cardinality(Unspoilt) + 1
  BY <1>3, FS_AddElement
<1>6. /\ Cardinality(Unspoilt') <= Cardinality(Unspoilt \cup {k})
      /\ Cardinality(Unspoilt') \in Nat /\ Cardinality(Unspoilt) \in Nat
  BY <1>3, <1>4, <1>5, FS_Subset, FS_CardinalityType
<1> QED BY <1>1, <1>2, <1>5, <1>6 DEF StoreInv

LEMMA StoreKept == StoreInv /\ [Next]_vars => StoreInv'
<1> SUFFICES ASSUME StoreInv, [Next]_vars PROVE StoreInv'
  OBVIOUS
<1>1. CASE UNCHANGED store
  BY <1>1 DEF StoreInv
<1>2. CASE \E k, rec : Put(k, rec)
  BY <1>2, PutCounts
<1> QED BY <1>1, <1>2, OneRecordWritten DEF vars

\* An update that changes a record leaves one less to be changed.
LEMMA UpdateCounts ==
  ASSUME StoreInv, NEW k \in DOMAIN store, Update(k), vars' # vars
  PROVE  /\ StagesLeft' = StagesLeft
         /\ Cardinality(Unspoilt') = Cardinality(Unspoilt) - 1
<1>1. StagesLeft' = StagesLeft
  BY DEF Update, StagesLeft, Waiting, snapshots
<1>2. /\ DOMAIN store' = DOMAIN store /\ store'[k] = Record("update", None)
      /\ \A j \in DOMAIN store : j # k => store'[j] = store[j]
      /\ store' = [j \in DOMAIN store' |-> store'[j]]
  BY PutWrites DEF Update, Put
<1>3. store[k] # Record("update", None)
  <2> SUFFICES ASSUME store[k] = Record("update", None) PROVE FALSE
    OBVIOUS
  <2>1. store' = store
    BY <1>2 DEF StoreInv
  <2> QED BY <2>1 DEF Update, vars, snapshots
<1>4. k \in Unspoilt /\ Unspoilt' = Unspoilt \ {k}
  BY <1>2, <1>3 DEF Unspoilt
<1>5. IsFiniteSet(Unspoilt)
  BY FS_Subset, Unspoilt \in SUBSET DOMAIN store DEF StoreInv, Unspoilt
<1>6. Cardinality(Unspoilt \ {k}) = Cardinality(Unspoilt) - 1
  BY <1>4, <1>5, FS_RemoveElement
<1> QED BY <1>1, <1>4, <1>6

\* So either way there is less to come.
Numbered == StagesLeft \in Nat /\ Cardinality(Unspoilt) \in Nat

LEMMA Nearer ==
  ASSUME TypeInv, RoundInv, StoreInv, Numbered, Numbered', Next, vars' # vars
  PROVE  StepsLeft' < StepsLeft
<1>1. CASE \E k \in DOMAIN store : Update(k)
  BY <1>1, UpdateCounts DEF StepsLeft, Numbered
<1>2. CASE ~\E k \in DOMAIN store : Update(k)
  <2>1. StagesLeft' < StagesLeft
    BY <1>2, NextStage
  <2>2. Cardinality(Unspoilt') <= Cardinality(Unspoilt) + 1
    <3>1. CASE UNCHANGED store
      <4>1. Unspoilt' = Unspoilt
        BY <3>1 DEF Unspoilt
      <4> QED BY <4>1 DEF Numbered
    <3>2. CASE \E k, rec : Put(k, rec)
      BY <3>2, PutCounts
    <3> QED BY <3>1, <3>2, OneRecordWritten
  <2> QED BY <2>1, <2>2 DEF StepsLeft, Numbered
<1> QED BY <1>1, <1>2

\* The stages left are a number.
LEMMA StagesNumber ==
  ASSUME TypeInv, RoundInv
  PROVE  StagesLeft \in Nat
<1>1. /\ verifyReviseRounds \in Nat /\ Cardinality(Reviewer) \in Nat
      /\ Cardinality(Waiting) \in Nat /\ MaxOthers \in Nat
      /\ round \in 0..verifyReviseRounds /\ others \in 0..MaxOthers
  BY Counts, DispatchAssumption DEF RoundInv
<1>2. \A w, n \in Nat : StepsFrom(pc, caller, w, n) \in Nat
  BY <1>1, PlacesOf DEF StepsFrom
<1>3. verifyReviseRounds - round \in Nat /\ MaxOthers - others \in Nat
  BY <1>1
<1>4. StepsFrom(pc, caller, Cardinality(Waiting), verifyReviseRounds - round) \in Nat
  BY <1>1, <1>2, <1>3
<1> QED BY <1>3, <1>4 DEF StagesLeft

\* So is the count of the records an update would change.
LEMMA UnspoiltNumber ==
  ASSUME StoreInv
  PROVE  Cardinality(Unspoilt) \in Nat
BY FS_Subset, FS_CardinalityType, Unspoilt \in SUBSET DOMAIN store DEF StoreInv, Unspoilt

\* Every step of a dispatch, and of those who edit and write beside it, that
\* changes anything leaves fewer to come: at most
\* 2 * (12 + 4 * verifyReviseRounds + 2 * Cardinality(Reviewer)) of its own, the
\* memory updates included, from beginning to end, and two more for each of
\* the others', whatever agents, reviewers and commands do (orchestrator.go:646-668).
THEOREM DispatchRunsOut ==
  Spec => [](StepsLeft \in Nat) /\ [][StepsLeft' < StepsLeft]_vars
<1>1. Init => StoreInv
  <2> SUFFICES ASSUME Init PROVE StoreInv
    OBVIOUS
  <2>1. store = <<>> /\ DOMAIN store = {}
    BY DEF Init
  <2> QED BY <2>1, FS_EmptySet DEF StoreInv
<1>2. Spec => []StoreInv
  BY <1>1, StoreKept, PTL DEF Spec
<1>3. TypeInv /\ RoundInv /\ StoreInv => Numbered
  BY StagesNumber, UnspoiltNumber DEF Numbered
<1>4. Numbered => StepsLeft \in Nat
  BY DEF Numbered, StepsLeft
<1>5. TypeInv /\ RoundInv /\ StoreInv /\ Numbered /\ Numbered' /\ [Next]_vars
        => [StepsLeft' < StepsLeft]_vars
  BY Nearer
<1> QED BY RoundsCounted, <1>2, <1>3, <1>4, <1>5, PTL DEF Spec

\* An author is run at most once for the dispatch, once for its reviews and once
\* for each verify round.
THEOREM AuthorRunsBounded == Spec => [](run <= 2 + verifyReviseRounds)
<1>3. TypeInv /\ RoundInv => run <= 2 + verifyReviseRounds
  BY Counts DEF TypeInv, RoundInv
<1> QED BY RoundsCounted, <1>3, PTL

(***************************************************************************)
(* The ledger.                                                             *)
(***************************************************************************)

\* Runs are numbered from one, and the status sync is the last thing a dispatch
\* does.
OpenInv ==
  /\ pc \in {"author", "run", "reply"} => run >= 1
  /\ Adopted => final.key >= 1
  /\ pc # "done" => unsynced = FALSE

LedgerInv == IInv /\ RoundInv /\ OpenInv

\* Finishing the reviews puts the review into the copy, and writes the copy or
\* nothing.
LEMMA FinishWrites ==
  ASSUME IInv, Second, pc \notin {"author", "run", "reply"}, NEW agg, NEW shown,
         FinishReviewed(agg, shown)
  PROVE  /\ \/ Put(final.key, [status |-> final.record.status, review |-> agg])
            \/ UNCHANGED store
         /\ final'.key = final.key
         /\ final'.record.status = final.record.status /\ final'.record.review = agg
         /\ final.record.review = None
         /\ pc' \in {"verify", "settle"}
<1>1. final \in [key : Nat, status : Given, record : Outcomes] /\ final.record.review = None
  BY DEF IInv, TypeInv, RecordInv, Adopted
<1> DEFINE rec == [final.record EXCEPT !.review = agg]
<1>2. rec = [status |-> final.record.status, review |-> agg]
  BY <1>1 DEF Outcomes
<1>3. /\ Put(final.key, rec) \/ UNCHANGED store
      /\ final' = [final EXCEPT !.record = rec]
      /\ pc' \in {"verify", "settle"}
  BY DEF FinishReviewed, Gate
<1> HIDE DEF rec
<1>4. final'.key = final.key /\ final'.record = rec
  BY <1>1, <1>3
<1>5. rec.status = final.record.status /\ rec.review = agg
  BY <1>2
<1> QED BY <1>1, <1>2, <1>3, <1>4, <1>5

\* Every step keeps that.
LEMMA OpenPreserved == LedgerInv /\ [Next]_vars => OpenInv'
<1> SUFFICES ASSUME LedgerInv, [Next]_vars PROVE OpenInv'
  OBVIOUS
<1>i. IInv /\ RoundInv /\ OpenInv /\ TypeInv
  BY DEF LedgerInv, IInv
<1>t. run \in Nat /\ (Adopted => final \in [key : Nat, status : Given, record : Outcomes])
  BY <1>i DEF TypeInv
<1> USE DEF First, Second, Third, Adopted, InAuthor
<1>1. CASE Refuse \/ Begin
  BY <1>1, <1>i, <1>t DEF Refuse, Begin, CallAuthor, RoundInv, OpenInv
<1>2. CASE AuthorRefused \/ AgentFails \/ WriteFails
  <2>1. /\ pc \in {"author", "run", "reply"} /\ UNCHANGED <<caller, run, final, unsynced>>
        /\ \/ caller = "dispatch" /\ pc' = "error"
           \/ caller = "reviews" /\ pc' = "finish"
           \/ caller = "verify" /\ pc' = "settle"
    BY <1>2, <1>i, PlacesOf DEF AuthorRefused, AgentFails, WriteFails, AuthorFails, snapshots
  <2> QED BY <2>1, <1>i DEF OpenInv
<1>3. CASE Intent
  BY <1>3, <1>i DEF Intent, OpenInv
<1>4. CASE \E s \in AgentStatus : AgentReplies(s)
  BY <1>4, <1>i DEF AgentReplies, OpenInv
<1>5. CASE Final
  BY <1>5, <1>i, <1>t DEF Final, OpenInv
<1>6. CASE AcceptAuthor \/ SelectReviewers \/ \E r \in Reviewer : ReviewerAnswers(r)
  BY <1>6, <1>i DEF AcceptAuthor, SelectReviewers, ReviewerAnswers, Gate, OpenInv
<1>7. CASE NoReviewers \/ AcceptReviews \/ RevisionFailed \/ AcceptRereview
  <2>1. /\ pc \in {"select", "review", "finish", "rereview"} /\ UNCHANGED unsynced
        /\ \E agg, shown : FinishReviewed(agg, shown)
    BY <1>7 DEF NoReviewers, AcceptReviews, RevisionFailed, AcceptRereview, FinishReviewed
  <2>2. final'.key = final.key /\ pc' \in {"verify", "settle"}
    BY <2>1, <1>i, FinishWrites
  <2> QED BY <2>1, <2>2, <1>i DEF OpenInv
<1>8. CASE Revise
  BY <1>8, <1>i, <1>t DEF Revise, CallAuthor, OpenInv
<1>9. CASE \E ok \in BOOLEAN : Verify(ok)
  <2>1. /\ pc = "verify" /\ UNCHANGED <<final, unsynced>>
        /\ (pc' = "author" /\ run' = run + 1) \/ pc' = "settle"
    BY <1>9 DEF Verify, CallAuthor
  <2> QED BY <2>1, <1>i, <1>t DEF OpenInv
<1>10. CASE Settle
  <2>1. pc = "settle" /\ pc' = "done" /\ final'.key = final.key
    BY <1>10, <1>t DEF Settle
  <2> QED BY <2>1, <1>i DEF OpenInv
<1>11. CASE OtherEdits \/ \E k \in DOMAIN store : Update(k) \/ OtherUpdates(k)
  BY <1>11, <1>i DEF OtherEdits, Update, OtherUpdates, OpenInv
<1>12. CASE UNCHANGED vars
  BY <1>12, <1>i DEF vars, OpenInv
<1> QED BY <1>1, <1>2, <1>3, <1>4, <1>5, <1>6, <1>7, <1>8, <1>9, <1>10, <1>11, <1>12 DEF Next

\* What the ledger shows of a dispatch.
opened == IF pc \in {"run", "reply"} THEN run ELSE 0
adopted ==
  IF First \/ pc = "error" THEN [key |-> 0, status |-> None, review |-> None]
  ELSE [key |-> final.key, status |-> final.record.status, review |-> final.record.review]
told == CASE pc = "done" -> [key |-> res.key, status |-> res.status, recorded |-> ~unsynced]
          [] pc = "error" -> "error"
          [] OTHER -> None

\* A dispatch begins with an empty ledger.
LEMMA LedgerBegins == Init => Ledger!LInit
<1> SUFFICES ASSUME Init PROVE Ledger!LInit
  OBVIOUS
<1>1. store = <<>> /\ pc = "start"
  BY DEF Init
<1> QED BY <1>1 DEF Ledger!LInit, First

\* Writing a record is what the ledger calls it.
LEMMA PutIsWrite ==
  ASSUME NEW k, NEW status, NEW review,
         Put(k, Record(status, review))
  PROVE  Ledger!Write(k, status, review)
BY DEF Put, Record, Ledger!Write

\* A step that writes no record and moves neither of the others is none of the
\* ledger's.
LEMMA LedgerStutters ==
  ASSUME UNCHANGED <<store, opened, adopted, told>>
  PROVE  UNCHANGED Ledger!lvars
BY DEF Ledger!lvars, opened, adopted, told

\* The steps of the ledger, in terms of what it shows.
LEMMA LedgerActs ==
  ASSUME NEW s, NEW k
  PROVE  /\ /\ told = None /\ opened = 0 /\ \A j \in DOMAIN store : j < k
            /\ Ledger!Write(k, "intent", None)
            /\ opened' = k /\ UNCHANGED <<adopted, told>>
            => Ledger!Open(k)
         /\ /\ opened # 0 /\ Ledger!Write(k, "update", None)
            /\ UNCHANGED <<opened, adopted, told>>
            => Ledger!Overwrite(k)
         /\ /\ Ledger!Write(k, "foreign", None)
            /\ UNCHANGED <<opened, adopted, told>>
            => Ledger!Intrude(k)
         /\ /\ opened # 0 /\ Ledger!Write(opened, s, None)
            /\ adopted' = [key |-> opened, status |-> s, review |-> None]
            /\ opened' = 0 /\ UNCHANGED told
            => Ledger!Complete(s)
         /\ /\ opened # 0 /\ opened' = 0
            /\ told' = IF adopted.key = 0 THEN "error" ELSE told
            /\ UNCHANGED <<store, adopted>>
            => Ledger!GiveUp
         /\ /\ told = None /\ opened = 0 /\ adopted.key = 0 /\ told' = "error"
            /\ UNCHANGED <<store, opened, adopted>>
            => Ledger!Refuse
BY Zenon
DEF Ledger!Open, Ledger!Overwrite, Ledger!Intrude, Ledger!Complete, Ledger!GiveUp,
    Ledger!Refuse, opened, adopted, told

\* Those of a dispatch that has adopted something and runs no agent.
LEMMA LedgerEnds ==
  ASSUME NEW s, told = None, opened = 0, adopted.key # 0, opened' = 0
  PROVE  /\ /\ adopted.review = None /\ told' = None
            /\ adopted' = [adopted EXCEPT !.review = adopted'.review]
            /\ \/ Ledger!Write(adopted.key, adopted.status, adopted'.review)
               \/ UNCHANGED store
            => Ledger!AttachReview
         /\ /\ adopted' = [adopted EXCEPT !.status = s]
            /\ \/ /\ Ledger!Write(adopted.key, s, adopted.review)
                  /\ told' = [key |-> adopted.key, status |-> s, recorded |-> TRUE]
               \/ /\ s = adopted.status
                  /\ \/ store[adopted.key].status \in {s, "foreign"}
                     \/ store[adopted.key].status = "update" /\ s \in FailedStatus
                  /\ told' = [key |-> adopted.key, status |-> s, recorded |-> TRUE]
                  /\ UNCHANGED store
               \/ /\ s # adopted.status
                  /\ told' = [key |-> adopted.key, status |-> s, recorded |-> FALSE]
                  /\ UNCHANGED store
            => Ledger!Answer(s)
BY Zenon DEF Ledger!AttachReview, Ledger!Answer, opened, adopted, told

\* Every step is a step of the ledger, or changes nothing of it.
LEMMA LedgerSteps == LedgerInv /\ [Next]_vars => [Ledger!LNext]_(Ledger!lvars)
<1> SUFFICES ASSUME LedgerInv, [Next]_vars PROVE [Ledger!LNext]_(Ledger!lvars)
  OBVIOUS
<1>i. IInv /\ RoundInv /\ OpenInv /\ TypeInv /\ RunInv
  BY DEF LedgerInv, IInv
<1>t. run \in Nat /\ (Adopted => final \in [key : Nat, status : Given, record : Outcomes])
  BY <1>i DEF TypeInv
<1>b. run <= 2 + verifyReviseRounds
  <2>1. run <= 2 + round /\ round \in Nat /\ round <= verifyReviseRounds
    BY <1>i, Counts DEF RoundInv
  <2> QED BY <2>1, <1>t, Counts
<1>1. CASE Refuse
  <2>1. pc = "start" /\ pc' = "error" /\ UNCHANGED store
    BY <1>1 DEF Refuse
  <2>2. /\ told = None /\ opened = 0 /\ adopted.key = 0 /\ told' = "error"
        /\ UNCHANGED <<opened, adopted>>
    BY <2>1 DEF opened, adopted, told, First
  <2> QED BY <2>1, <2>2, LedgerActs DEF Ledger!LNext
<1>2. CASE Begin
  <2>1. pc = "start" /\ pc' = "author" /\ caller' = "dispatch" /\ UNCHANGED store
    BY <1>2 DEF Begin, CallAuthor
  <2> QED BY <2>1, LedgerStutters DEF opened, adopted, told, First, InAuthor
<1>3. CASE AuthorRefused \/ AgentFails \/ WriteFails
  <2>1. /\ pc \in {"author", "run", "reply"} /\ UNCHANGED <<caller, store, final>>
        /\ \/ caller = "dispatch" /\ pc' = "error"
           \/ caller = "reviews" /\ pc' = "finish"
           \/ caller = "verify" /\ pc' = "settle"
    BY <1>3, <1>i, PlacesOf DEF AuthorRefused, AgentFails, WriteFails, AuthorFails
  <2>2. opened' = 0 /\ told = None
    BY <2>1 DEF opened, told
  <2>3. CASE caller = "dispatch"
    <3>1. /\ adopted = [key |-> 0, status |-> None, review |-> None]
          /\ adopted' = adopted /\ told' = "error"
      BY <2>1, <2>3 DEF adopted, told, First, InAuthor
    <3>2. adopted.key = 0
      BY <3>1
    <3>3. CASE opened = 0
      BY <2>1, <2>2, <3>1, <3>2, <3>3, LedgerActs DEF Ledger!LNext
    <3>4. CASE opened # 0
      BY <2>1, <2>2, <3>1, <3>2, <3>4, LedgerActs DEF Ledger!LNext
    <3> QED BY <3>3, <3>4
  <2>4. CASE caller # "dispatch"
    <3>1. UNCHANGED <<adopted, told>> /\ adopted.key = final.key
      BY <2>1, <2>4 DEF adopted, told, First, InAuthor
    <3>2. Adopted
      BY <2>1, <2>4 DEF Adopted, Second, Third, InAuthor
    <3>3. adopted.key # 0
      BY <3>1, <3>2, <1>i, <1>t DEF OpenInv
    <3>4. CASE opened = 0
      BY <2>1, <2>2, <3>1, <3>4, LedgerStutters
    <3>5. CASE opened # 0
      BY <2>1, <2>2, <3>1, <3>3, <3>5, LedgerActs DEF Ledger!LNext
    <3> QED BY <3>4, <3>5
  <2> QED BY <2>3, <2>4
<1>4. CASE Intent
  <2>1. /\ pc = "author" /\ pc' = "run" /\ UNCHANGED <<caller, run, final>>
        /\ Put(run, Record("intent", None))
    BY <1>4 DEF Intent
  <2>2. run >= 1 /\ run \notin DOMAIN store /\ \A k \in DOMAIN store : k <= run
    BY <2>1, <1>i DEF OpenInv, RunInv
  <2>3. \A k \in DOMAIN store : k < run
    <3>1. DOMAIN store \subseteq Nat
      BY <1>i DEF TypeInv
    <3> QED BY <2>2, <3>1, <1>t
  <2>4. UNCHANGED <<adopted, told>> /\ told = None /\ opened = 0 /\ opened' = run
    BY <2>1 DEF opened, adopted, told, First, InAuthor
  <2>5. Ledger!Write(run, "intent", None)
    BY <2>1, PutIsWrite
  <2>6. Ledger!Open(run)
    BY <2>3, <2>4, <2>5, LedgerActs
  <2>7. run \in 1..(2 + verifyReviseRounds)
    BY <2>2, <1>b, <1>t, Counts
  <2> QED BY <2>6, <2>7 DEF Ledger!LNext
<1>5. ASSUME NEW k \in DOMAIN store, Update(k) PROVE Ledger!LNext
  <2>1. /\ pc = "reply" /\ UNCHANGED <<pc, caller, run, final, res, unsynced>>
        /\ Put(k, Record("update", None))
    BY <1>5 DEF Update
  <2>2. UNCHANGED <<opened, adopted, told>> /\ opened = run /\ run >= 1
    BY <2>1, <1>i DEF opened, adopted, told, First, InAuthor, OpenInv
  <2>3. opened # 0
    BY <2>2, <1>t
  <2>4. Ledger!Overwrite(k)
    BY <2>1, <2>2, <2>3, PutIsWrite, LedgerActs
  <2> QED BY <2>4 DEF Ledger!LNext
<1>6. ASSUME NEW k \in DOMAIN store, OtherUpdates(k) PROVE Ledger!LNext
  <2>1. /\ UNCHANGED <<pc, caller, run, final, res, unsynced>>
        /\ Put(k, Record("foreign", None))
    BY <1>6 DEF OtherUpdates
  <2>2. UNCHANGED <<opened, adopted, told>>
    BY <2>1 DEF opened, adopted, told, First, InAuthor
  <2>3. Ledger!Intrude(k)
    BY <2>1, <2>2, PutIsWrite, LedgerActs
  <2> QED BY <2>3 DEF Ledger!LNext
<1>7. CASE Final
  <2>1. /\ pc = "reply" /\ Put(run, Record(reply, None))
        /\ final' = [key |-> run, status |-> reply, record |-> Record(reply, None)]
        /\ pc' \in {"select", "accept", "rereview", "verify"}
    BY <1>7 DEF Final
  <2>2. run >= 1
    BY <2>1, <1>i DEF OpenInv
  <2>3. reply \in Given
    BY <2>1, <1>i DEF TypeInv
  <2>4. opened = run /\ opened' = 0 /\ told = None /\ told' = None
    BY <2>1 DEF opened, told
  <2>5. adopted' = [key |-> run, status |-> reply, review |-> None]
    BY <2>1 DEF adopted, First, InAuthor, Record
  <2>6. opened # 0
    BY <2>2, <2>4, <1>t
  <2>7. Ledger!Write(run, reply, None)
    BY <2>1, PutIsWrite
  <2>8. Ledger!Complete(reply)
    BY <2>4, <2>5, <2>6, <2>7, LedgerActs
  <2> QED BY <2>3, <2>8 DEF Ledger!LNext
<1>8. CASE AcceptAuthor \/ SelectReviewers \/ \E r \in Reviewer : ReviewerAnswers(r)
  <2>1. /\ pc \in {"accept", "select", "review", "rereview"} /\ UNCHANGED <<store, final>>
        /\ pc' \in {"verify", "settle", "review", "rereview"}
    BY <1>8 DEF AcceptAuthor, SelectReviewers, ReviewerAnswers, Gate
  <2> QED BY <2>1, LedgerStutters DEF opened, adopted, told, First, InAuthor
<1>9. CASE NoReviewers \/ AcceptReviews \/ RevisionFailed \/ AcceptRereview
  <2>1. pc \in {"select", "review", "finish", "rereview"}
    BY <1>9 DEF NoReviewers, AcceptReviews, RevisionFailed, AcceptRereview
  <2>2. PICK agg, shown : FinishReviewed(agg, shown)
    BY <1>9 DEF NoReviewers, AcceptReviews, RevisionFailed, AcceptRereview
  <2>3. /\ \/ Put(final.key, [status |-> final.record.status, review |-> agg])
           \/ UNCHANGED store
        /\ final'.key = final.key
        /\ final'.record.status = final.record.status /\ final'.record.review = agg
        /\ final.record.review = None
        /\ pc' \in {"verify", "settle"}
    BY <2>1, <2>2, <1>i, FinishWrites DEF Second
  <2>4. opened = 0 /\ opened' = 0 /\ told = None /\ told' = None
    BY <2>1, <2>3 DEF opened, told
  <2>5. /\ adopted = [key |-> final.key, status |-> final.record.status, review |-> None]
        /\ adopted' = [key |-> final.key, status |-> final.record.status, review |-> agg]
    BY <2>1, <2>3 DEF adopted, First, InAuthor
  <2>6. final.key # 0
    BY <2>1, <1>i, <1>t DEF OpenInv, Adopted, Second
  <2>7. /\ adopted.key = final.key /\ adopted.status = final.record.status
        /\ adopted.review = None /\ adopted'.review = agg
        /\ adopted' = [adopted EXCEPT !.review = adopted'.review]
    BY <2>5
  <2>8. \/ Ledger!Write(final.key, final.record.status, agg)
        \/ UNCHANGED store
    BY <2>3 DEF Put, Ledger!Write
  <2>9. Ledger!AttachReview
    BY <2>4, <2>6, <2>7, <2>8, LedgerEnds
  <2> QED BY <2>9 DEF Ledger!LNext
<1>10. CASE Revise \/ \E ok \in BOOLEAN : Verify(ok)
  <2>1. /\ pc \in {"review", "verify"} /\ UNCHANGED <<store, final>>
        /\ (pc' = "author" /\ caller' \in {"reviews", "verify"}) \/ pc' = "settle"
    BY <1>10 DEF Revise, Verify, CallAuthor
  <2> QED BY <2>1, LedgerStutters DEF opened, adopted, told, First, InAuthor
<1>11. CASE Settle
  <2> DEFINE status == IF VerifyFailed THEN "verify_failed" ELSE res.status
             rec == Synced(status)
  <2>1. /\ pc = "settle" /\ pc' = "done"
        /\ final' = [final EXCEPT !.record = rec]
        /\ \E files : res' = [res EXCEPT !.status = status, !.files = files]
    BY <1>11 DEF Settle
  <2>a. OutOfSync(status) => \/ Put(final.key, rec) /\ UNCHANGED unsynced
                             \/ unsynced' = TRUE /\ UNCHANGED store
    BY <1>11 DEF Settle
  <2>b. ~OutOfSync(status) => UNCHANGED <<store, unsynced>>
    BY <1>11, Zenon DEF Settle
  <2>2. rec = Record(status, final.record.review)
    BY <2>1, <1>t DEF Synced, Outcomes, Adopted, Third, Record
  <2>3. /\ final.key \in Nat /\ final.key # 0
        /\ res.key = final.key /\ unsynced = FALSE
    BY <2>1, <1>i, <1>t DEF OpenInv, IInv, RecordInv, Adopted, Resulted, Third
  <2>4. status \in Given
    BY <2>1, <1>i DEF TypeInv, Resulted, Third, Given
  <2>c. status = final.record.status =>
          \/ store[final.key].status \in {status, "foreign"}
          \/ store[final.key].status = "update" /\ status \in FailedStatus
    BY <2>1, <1>i DEF IInv, RecordInv, Marked, Adopted, Third, InAuthor, FailedStatus
  <2>5. /\ res'.key = final.key /\ res'.status = status /\ final'.key = final.key
        /\ final'.record = rec
    BY <2>1, <2>3, <1>i, <1>t DEF TypeInv, Adopted, Third
  <2> HIDE DEF status, rec
  <2>d. rec.status = status /\ rec.review = final.record.review
    BY <2>2 DEF Record
  <2>6. /\ opened = 0 /\ opened' = 0 /\ told = None
        /\ told' = [key |-> final.key, status |-> status, recorded |-> ~unsynced']
    BY <2>1, <2>5 DEF opened, told
  <2>7. /\ adopted = [key |-> final.key, status |-> final.record.status,
                      review |-> final.record.review]
        /\ adopted' = [key |-> final.key, status |-> status, review |-> final.record.review]
    BY <2>1, <2>5, <2>d DEF adopted, First, InAuthor
  <2>8. /\ adopted.key = final.key /\ adopted.status = final.record.status
        /\ adopted.review = final.record.review
        /\ adopted' = [adopted EXCEPT !.status = status]
    BY <2>7
  <2>e. /\ unsynced' = FALSE =>
             told' = [key |-> final.key, status |-> status, recorded |-> TRUE]
        /\ unsynced' = TRUE =>
             told' = [key |-> final.key, status |-> status, recorded |-> FALSE]
    <3>1. ASSUME NEW q \in BOOLEAN, unsynced' = q
          PROVE  told' = [key |-> final.key, status |-> status, recorded |-> ~q]
      BY <2>6, <3>1
    <3>2. (~FALSE) = TRUE /\ (~TRUE) = FALSE
      OBVIOUS
    <3> QED BY <3>1, <3>2
  <2>9. Ledger!Answer(status)
    <3>1. CASE OutOfSync(status) /\ Put(final.key, rec) /\ UNCHANGED unsynced
      <4>1. Ledger!Write(final.key, status, final.record.review)
        BY <3>1, <2>2, PutIsWrite
      <4>2. told' = [key |-> final.key, status |-> status, recorded |-> TRUE]
        BY <3>1, <2>3, <2>e
      <4> QED BY <2>3, <2>6, <2>8, <4>1, <4>2, LedgerEnds
    <3>2. CASE OutOfSync(status) /\ unsynced' = TRUE /\ UNCHANGED store
      <4>1. told' = [key |-> final.key, status |-> status, recorded |-> FALSE]
        BY <3>2, <2>e
      <4>2. status # adopted.status
        BY <3>2, <2>8 DEF OutOfSync
      <4> QED BY <2>3, <2>6, <2>8, <3>2, <4>1, <4>2, LedgerEnds
    <3>3. CASE ~OutOfSync(status) /\ UNCHANGED <<store, unsynced>>
      <4>1. told' = [key |-> final.key, status |-> status, recorded |-> TRUE]
        BY <3>3, <2>3, <2>e
      <4>2. status = adopted.status
        BY <3>3, <2>8 DEF OutOfSync
      <4>3. \/ store[adopted.key].status \in {status, "foreign"}
            \/ store[adopted.key].status = "update" /\ status \in FailedStatus
        BY <2>c, <2>8, <4>2
      <4> QED BY <2>3, <2>6, <2>8, <3>3, <4>1, <4>2, <4>3, LedgerEnds
    <3> QED BY <2>a, <2>b, <3>1, <3>2, <3>3
  <2> QED BY <2>4, <2>9 DEF Ledger!LNext
<1>12. CASE (\E s \in AgentStatus : AgentReplies(s)) \/ OtherEdits
  <2>1. /\ UNCHANGED <<store, final, caller, run, res, unsynced>>
        /\ UNCHANGED pc \/ (pc = "run" /\ pc' = "reply")
    BY <1>12 DEF AgentReplies, OtherEdits
  <2> QED BY <2>1, LedgerStutters DEF opened, adopted, told, First, InAuthor
<1>13. CASE UNCHANGED vars
  BY <1>13, LedgerStutters DEF vars, opened, adopted, told, First, InAuthor
<1> QED
  BY <1>1, <1>2, <1>3, <1>4, <1>5, <1>6, <1>7, <1>8, <1>9, <1>10, <1>11, <1>12, <1>13 DEF Next

\* Dispatch implements the ledger, for any reviewers, rounds, texts and edits.
THEOREM Refinement == Spec => KeepsLedger
<1>1. Init => LedgerInv
  <2>1. Init => OpenInv
    BY DEF Init, OpenInv, Adopted, Second, Third, InAuthor
  <2>2. Init => RoundInv
    BY Counts, DispatchAssumption DEF Init, RoundInv, First, Second, InAuthor
  <2> QED BY <2>1, <2>2, InitIInv DEF LedgerInv
<1>2. LedgerInv /\ [Next]_vars => LedgerInv'
  <2>1. IInv /\ [Next]_vars => IInv'
    BY TypePreserved, RestPreserved DEF IInv, Rest
  <2> QED BY <2>1, RoundsPreserved, OpenPreserved DEF LedgerInv, IInv
<1> QED BY <1>1, <1>2, LedgerBegins, LedgerSteps, PTL DEF Spec, KeepsLedger, Ledger!LSpec

-----------------------------------------------------------------------------
(***************************************************************************)
(* Consult.                                                                *)
(***************************************************************************)
(***************************************************************************)
(* Types.                                                                  *)
(***************************************************************************)
Procs == [state : {"none", "running", "exited", "failed"}, held : BOOLEAN,
          out : Seq(STRING)]

\* What a program printed that exited is a text it may print.
ConsultType ==
  /\ req \in Requests
  /\ proc \in [Run -> Procs]
  /\ \A r \in Run : proc[r].state = "exited" => proc[r].out \in Prints
  /\ DOMAIN candidates = Slot
  /\ at \in Nat /\ passed \in BOOLEAN

(***************************************************************************)
(* dispatch_multi.                                                         *)
(***************************************************************************)
Idle(r) == proc[r].state # "running"

\* Candidate i is what run i printed, or its failure.
Agrees(i) ==
  /\ candidates[i].model = models[i]
  /\ IF Printed(i) = None
       THEN candidates[i].status = "error" /\ candidates[i].result = <<>>
       ELSE /\ candidates[i].agent = agentOf[models[i]]
            /\ candidates[i].status = Response[Printed(i)].status
            /\ candidates[i].result = Response[Printed(i)].result

\* Until all candidates are in, no judge runs; from then on they are final, and
\* a judge is given all of them.
MultiInv ==
  req.tool = "dispatch_multi" =>
    /\ stage \in {"propose", "judge", "answered"}
    /\ \A i \in Slot : candidates[i] # None => Agrees(i) /\ Idle(i)
    /\ IF stage = "propose" THEN proc[Lead].state = "none"
                            ELSE \A i \in Slot : candidates[i] # None
    /\ stage = "judge" \/ proc[Lead].state # "none"
         => solutions = [i \in Slot |-> candidates[i].result]

(***************************************************************************)
(* plan_gate.                                                              *)
(***************************************************************************)

\* Every command before the one at hand succeeded, and none after it has run.
InOrder ==
  \A i \in DOMAIN req.cmds : /\ i < at => proc[i].state = "exited"
                             /\ at < i => proc[i].state = "none"

Decided ==
  IF passed THEN at \notin DOMAIN req.cmds
            ELSE at \in DOMAIN req.cmds /\ proc[at].state = "failed"

\* The verdict is the judge's only over commands that all succeeded.
Verdict ==
  /\ Decided /\ answer \in {"stop", "go on"}
  /\ answer = "stop" <=> req.remaining = 0 /\ passed /\ Printed(Lead) \in GoalMet

GateInv ==
  req.tool = "plan_gate" =>
    /\ stage \in {"validate", "verify", "judge", "answered"}
    /\ at >= 1 /\ InOrder
    /\ stage \in {"validate", "verify"} => passed /\ proc[Lead].state = "none"
    /\ stage = "judge" => Decided
    /\ stage = "answered" =>
         /\ Idle(Lead)
         /\ Verdict \/ (answer = "error" /\ proc[Lead].state = "none")

(***************************************************************************)
(* plan.                                                                   *)
(***************************************************************************)

\* A key is reserved only for a planner that printed a plan, and told only when
\* the plan is stored under it.
PlanInv ==
  req.tool = "plan" =>
    /\ stage \in {"plan", "alloc", "upsert", "answered"}
    /\ stage \in {"plan", "alloc"} => stored = "none"
    /\ stage = "upsert" => stored = "reserved"
    /\ stage # "plan" => Idle(Lead)
    /\ stage \in {"alloc", "upsert"} => Printed(Lead) \in Plans
    /\ stage = "answered" =>
         /\ answer = "plan and key" <=> stored = "plan"
         /\ answer # "error" <=> Printed(Lead) \in Plans

ConsultInv == ConsultType /\ MultiInv /\ GateInv /\ PlanInv

\* The programs a request may run are told apart by their numbers.
LEMMA Numbers ==
  /\ Lead \in Run /\ Slot \subseteq Run /\ Lead \notin Slot
  /\ req \in Requests /\ req.tool = "plan_gate" =>
       /\ req.cmds \in Seq(STRING) /\ DOMAIN req.cmds = 1..Len(req.cmds)
       /\ Len(req.cmds) \in Nat
       /\ DOMAIN req.cmds \subseteq Run /\ Lead \notin DOMAIN req.cmds
       /\ req.remaining \in {0, 1}
<1>1. Lead \in Run /\ Slot \subseteq Run /\ Lead \notin Slot
  BY ConsultAssumption
<1>2. ASSUME req \in Requests, req.tool = "plan_gate"
      PROVE  req.cmds \in CmdLists /\ req.remaining \in {0, 1}
  BY <1>2 DEF Requests
<1>3. ASSUME NEW c \in CmdLists
      PROVE  /\ c \in Seq(STRING) /\ DOMAIN c = 1..Len(c) /\ Len(c) \in Nat
             /\ DOMAIN c \subseteq Run /\ Lead \notin DOMAIN c
  <2>1. c \in Seq(STRING)
    BY ConsultAssumption
  <2>2. DOMAIN c = 1..Len(c) /\ Len(c) \in Nat
    BY <2>1
  <2>3. DOMAIN c \subseteq Run
    BY ConsultAssumption
  <2> QED BY <2>1, <2>2, <2>3 DEF Lead
<1> QED BY <1>1, <1>2, <1>3

\* Nothing a program prints is None; so None is no plan and no verdict.
LEMMA NoneIsNoText ==
  /\ None \notin Seq(STRING) /\ None \notin Plans /\ None \notin GoalMet
  /\ Prints \subseteq Seq(STRING)
<1>1. /\ None \notin Seq(STRING) /\ Stdout \subseteq Seq(STRING)
      /\ PlannerStdout \subseteq Seq(STRING)
  BY OutputAssumption, ConsultAssumption
<1>2. Prints \subseteq Seq(STRING)
  BY <1>1 DEF Prints
<1>3. Plans \subseteq Seq(STRING) /\ GoalMet \subseteq Seq(STRING)
  BY <1>1 DEF Plans, GoalMet
<1> QED BY <1>1, <1>2, <1>3

\* A program that is not running has printed what it printed.
LEMMA PrintedText ==
  ASSUME ConsultType, NEW r \in Run
  PROVE  /\ proc[r] \in Procs
         /\ Printed(r) # None <=> proc[r].state = "exited"
         /\ proc[r].state = "exited" => Printed(r) = proc[r].out /\ Printed(r) \in Prints
<1>1. proc[r] \in Procs
  BY DEF ConsultType
<1>2. proc[r].out \in Seq(STRING)
  BY <1>1 DEF Procs
<1>3. proc[r].state = "exited" => proc[r].out \in Prints
  BY DEF ConsultType
<1> QED BY <1>1, <1>2, <1>3, NoneIsNoText DEF Printed, Succeeded

\* What starting a program changes.
StartOnly(r) ==
  /\ proc' \in [Run -> Procs]
  /\ proc'[r].state = "running"
  /\ \A q \in Run \ {r} : proc'[q] = proc[q]

\* Starting a program changes that and nothing else.
LEMMA Starts ==
  ASSUME ConsultType, NEW r \in Run, Start(r)
  PROVE  StartOnly(r)
<1>1. <<>> \in Seq(STRING)
  OBVIOUS
<1>2. NotRun \in Procs
  BY <1>1 DEF NotRun, Procs
<1> DEFINE p == [NotRun EXCEPT !.state = "running"]
<1>4. p \in Procs /\ p.state = "running"
  BY <1>2 DEF Procs
<1>5. proc \in [Run -> Procs] /\ proc' = [proc EXCEPT ![r] = p]
  BY DEF ConsultType, Start
<1> HIDE DEF p
<1> QED BY <1>4, <1>5 DEF StartOnly

\* What a step of a program changes: only itself, and only while it runs does it
\* print or end.
StepOnly(r) ==
  /\ proc' \in [Run -> Procs]
  /\ \A q \in Run \ {r} : proc'[q] = proc[q]
  /\ proc[r].state # "running" => proc'[r].state = proc[r].state /\ proc'[r].out = proc[r].out
  /\ proc[r].state = "running" =>
       /\ proc'[r].state \in {"running", "exited", "failed"}
       /\ proc'[r].state = "exited" => proc'[r].out \in Prints

\* A step of a program changes that and nothing else.
LEMMA Steps ==
  ASSUME ConsultType, NEW r \in Run, ProcStep(r, Prints)
  PROVE  StepOnly(r)
<1>1. proc \in [Run -> Procs] /\ proc[r] \in Procs
  BY DEF ConsultType
<1>2. CASE Spawn(r)
  <2>1. [proc[r] EXCEPT !.held = TRUE] \in Procs
    BY <1>1 DEF Procs
  <2>2. proc' = [proc EXCEPT ![r].held = TRUE] /\ proc[r].state = "running"
    BY <1>2 DEF Spawn, Running
  <2>3. proc' = [proc EXCEPT ![r] = [proc[r] EXCEPT !.held = TRUE]]
    BY <2>2
  <2>4. proc'[r].state = proc[r].state
    BY <1>1, <2>3 DEF Procs
  <2> QED BY <1>1, <2>1, <2>2, <2>3, <2>4 DEF StepOnly
<1>3. CASE LetGo(r)
  <2>1. [proc[r] EXCEPT !.held = FALSE] \in Procs
    BY <1>1 DEF Procs
  <2>2. proc' = [proc EXCEPT ![r] = [proc[r] EXCEPT !.held = FALSE]]
    BY <1>3 DEF LetGo
  <2>3. proc'[r].state = proc[r].state /\ proc'[r].out = proc[r].out
    BY <1>1, <2>2 DEF Procs
  <2>4. proc[r].state = "exited" => proc[r].out \in Prints
    BY DEF ConsultType
  <2> QED BY <1>1, <2>1, <2>2, <2>3, <2>4 DEF StepOnly
<1>4. CASE Exit(r, Prints)
  <2>1. PICK out \in Prints : proc' = [proc EXCEPT ![r].state = "exited", ![r].out = out]
    BY <1>4 DEF Exit
  <2>2. [proc[r] EXCEPT !.state = "exited", !.out = out] \in Procs
    BY <1>1, NoneIsNoText DEF Procs
  <2>3. proc' = [proc EXCEPT ![r] = [proc[r] EXCEPT !.state = "exited", !.out = out]]
    BY <1>1, <2>1
  <2>4. proc'[r].state = "exited" /\ proc'[r].out = out
    BY <1>1, <2>3 DEF Procs
  <2>5. proc[r].state = "running"
    BY <1>4 DEF Exit, Running
  <2> QED BY <1>1, <2>2, <2>3, <2>4, <2>5 DEF StepOnly
<1>5. CASE Fail(r) \/ Kill(r)
  <2>1. [proc[r] EXCEPT !.state = "failed"] \in Procs
    BY <1>1 DEF Procs
  <2>2. proc' = [proc EXCEPT ![r] = [proc[r] EXCEPT !.state = "failed"]]
        /\ proc[r].state = "running"
    BY <1>5 DEF Fail, Kill, Running
  <2>3. proc'[r].state = "failed"
    BY <1>1, <2>2 DEF Procs
  <2> QED BY <1>1, <2>1, <2>2, <2>3 DEF StepOnly
<1> QED BY <1>2, <1>3, <1>4, <1>5 DEF ProcStep

\* The initial states are as they should be.
LEMMA ConsultStarts == ConsultInit => ConsultInv
<1> SUFFICES ASSUME ConsultInit PROVE ConsultInv
  OBVIOUS
<1>1. NotRun \in Procs /\ NotRun.state = "none"
  BY DEF NotRun, Procs
<1>2. \A r \in Run : proc[r] = NotRun
  BY DEF ConsultInit, ProcInit
<1>3. proc \in [Run -> Procs]
  BY <1>1 DEF ConsultInit, ProcInit
<1>4. ConsultType
  BY <1>1, <1>2, <1>3 DEF ConsultInit, ConsultType
<1>5. MultiInv
  BY <1>1, <1>2, Numbers DEF ConsultInit, MultiInv
<1>6. GateInv
  <2>1. SUFFICES ASSUME req.tool = "plan_gate" PROVE GateInv
    BY DEF GateInv
  <2>2. stage = "validate" /\ at = 1 /\ passed
    BY <2>1 DEF ConsultInit
  <2>3. InOrder
    BY <1>1, <1>2, <1>4, <2>1, <2>2, Numbers DEF InOrder, ConsultType
  <2>4. proc[Lead].state = "none"
    BY <1>1, <1>2, Numbers
  <2> QED BY <2>2, <2>3, <2>4 DEF GateInv
<1>7. PlanInv
  BY <1>1, <1>2, Numbers DEF ConsultInit, PlanInv
<1> QED BY <1>4, <1>5, <1>6, <1>7 DEF ConsultInv

\* Each tool has stages of its own.
LEMMA StagesOf ==
  ASSUME ConsultInv
  PROVE  /\ req.tool \in {"dispatch_multi", "plan_gate", "plan"}
         /\ stage = "propose" => req.tool = "dispatch_multi"
         /\ stage \in {"validate", "verify"} => req.tool = "plan_gate"
         /\ stage = "judge" => req.tool \in {"dispatch_multi", "plan_gate"}
         /\ stage \in {"plan", "alloc", "upsert"} => req.tool = "plan"
BY DEF ConsultInv, ConsultType, Requests, MultiInv, GateInv, PlanInv

\* What a step may do to the programs.
Programs ==
  \/ UNCHANGED proc
  \/ \E r \in Run : StartOnly(r) \/ StepOnly(r)

\* The call never changes, and a step starts one program or is a step of one.
LEMMA StepsOfPrograms ==
  ASSUME ConsultInv, [ConsultNext]_consultVars
  PROVE  req' = req /\ Programs
<1> USE DEF ConsultInv
<1>1. CASE Slots
  <2>1. PICK i \in Slot : NotRouted(i) \/ Propose(i) \/ Proposed(i)
    BY <1>1 DEF Slots
  <2>2. CASE Propose(i)
    <3>1. i \in Run /\ Start(i) /\ req' = req
      BY <2>2, Numbers DEF Propose
    <3> QED BY <3>1, Starts DEF Programs
  <2> QED BY <2>1, <2>2 DEF NotRouted, Proposed, Programs
<1>2. CASE Join \/ Validate \/ CommandReturns \/ Verified \/ JudgeUnavailable \/ JudgeReturns
  BY <1>2 DEF Join, Validate, CommandReturns, Verified, JudgeUnavailable, JudgeReturns, Programs
<1>3. CASE PlannerUnknown \/ PlannerReturns \/ AllocKey \/ Upsert
  BY <1>3 DEF PlannerUnknown, PlannerReturns, AllocKey, Upsert, Programs
<1>4. CASE RunCommand
  <2>1. Start(at) /\ req' = req /\ stage = "verify" /\ at \in DOMAIN req.cmds
    BY <1>4 DEF RunCommand
  <2>2. at \in Run
    BY <2>1, StagesOf, Numbers DEF ConsultType
  <2> QED BY <2>1, <2>2, Starts DEF Programs
<1>5. CASE Judge \/ Planner
  <2>1. Start(Lead) /\ req' = req
    BY <1>5 DEF Judge, Planner
  <2> QED BY <2>1, Numbers, Starts DEF Programs
<1>6. CASE \E r \in Run : External(ProcStep(r, Prints))
  <2>1. PICK r \in Run : ProcStep(r, Prints) /\ req' = req
    BY <1>6 DEF External
  <2> QED BY <2>1, Steps DEF Programs
<1>7. CASE UNCHANGED consultVars
  BY <1>7 DEF consultVars, Programs
<1> QED BY <1>1, <1>2, <1>3, <1>4, <1>5, <1>6, <1>7 DEF ConsultNext, Orchestrator

\* The types are kept.
LEMMA ConsultTypePreserved ==
  ASSUME ConsultInv, [ConsultNext]_consultVars
  PROVE  ConsultType'
<1>t. ConsultType
  BY DEF ConsultInv
<1>1. req' = req /\ Programs
  BY StepsOfPrograms
<1>2. Prints' = Prints
  BY <1>1 DEF Prints
<1>3. /\ proc' \in [Run -> Procs]
      /\ \A r \in Run : proc'[r].state = "exited" => proc'[r].out \in Prints
  <2>1. CASE UNCHANGED proc
    BY <2>1, <1>t DEF ConsultType
  <2>2. CASE \E r \in Run : StartOnly(r)
    BY <2>2, <1>t DEF StartOnly, ConsultType
  <2>3. CASE \E r \in Run : StepOnly(r)
    BY <2>3, <1>t DEF StepOnly, ConsultType
  <2> QED BY <1>1, <2>1, <2>2, <2>3 DEF Programs
<1>4. DOMAIN candidates' = Slot
  <2>1. CASE Slots
    <3>1. PICK i \in Slot : NotRouted(i) \/ Propose(i) \/ Proposed(i)
      BY <2>1 DEF Slots
    <3>2. CASE UNCHANGED candidates
      BY <3>2, <1>t DEF ConsultType
    <3>3. CASE \E c : candidates' = [candidates EXCEPT ![i] = c]
      BY <3>3, <1>t DEF ConsultType
    <3> QED BY <3>1, <3>2, <3>3 DEF NotRouted, Propose, Proposed, Collect
  <2>2. CASE UNCHANGED candidates
    BY <2>2, <1>t DEF ConsultType
  <2> QED
    BY <2>1, <2>2 DEF ConsultNext, Orchestrator, Join, Validate, RunCommand, CommandReturns,
       Verified, JudgeUnavailable, Judge, JudgeReturns, PlannerUnknown, Planner, PlannerReturns,
       AllocKey, Upsert, External, consultVars
<1>5. at' \in Nat /\ passed' \in BOOLEAN
  <2>1. CASE CommandReturns
    <3>1. CASE Succeeded(at)
      <4>1. at' = at + 1 /\ UNCHANGED <<stage, passed>>
        BY <2>1, <3>1, Zenon DEF CommandReturns
      <4> QED BY <4>1, <1>t DEF ConsultType
    <3>2. CASE ~Succeeded(at)
      <4>1. passed' = FALSE /\ UNCHANGED at
        BY <2>1, <3>2, Zenon DEF CommandReturns
      <4> QED BY <4>1, <1>t DEF ConsultType
    <3> QED BY <3>1, <3>2
  <2>2. CASE UNCHANGED <<at, passed>>
    BY <2>2, <1>t DEF ConsultType
  <2> QED
    BY <2>1, <2>2 DEF ConsultNext, Orchestrator, Slots, NotRouted, Propose, Proposed, Join,
       Validate, RunCommand, Verified, JudgeUnavailable, Judge, JudgeReturns, PlannerUnknown,
       Planner, PlannerReturns, AllocKey, Upsert, External, consultVars
<1>6. \A r \in Run : proc'[r].state = "exited" => proc'[r].out \in Prints'
  BY <1>2, <1>3
<1>7. req' \in Requests
  BY <1>t, <1>1 DEF ConsultType
<1> QED BY <1>3, <1>4, <1>5, <1>6, <1>7 DEF ConsultType

\* A candidate stays what its program printed while neither changes.
LEMMA AgreesKept ==
  ASSUME NEW i \in Slot, Agrees(i), candidates'[i] = candidates[i],
         proc'[i].state = proc[i].state, proc'[i].out = proc[i].out
  PROVE  Agrees(i)'
<1>1. Printed(i)' = Printed(i)
  BY DEF Printed, Succeeded
<1> QED BY <1>1 DEF Agrees

\* A goroutine writes what its own program printed, or an error.
LEMMA CandidateAgrees ==
  ASSUME ConsultType, NEW i \in Slot, NotRouted(i) \/ Proposed(i)
  PROVE  Agrees(i)' /\ Idle(i)'
<1>1. UNCHANGED proc /\ i \in DOMAIN candidates /\ i \in Run
  BY Numbers DEF ConsultType, NotRouted, Proposed
<1>2. Printed(i)' = Printed(i)
  BY <1>1 DEF Printed, Succeeded
<1>3. CASE NotRouted(i)
  <2>1. candidates'[i] = Failed(None, models[i]) /\ proc[i].state = "none"
    BY <1>1, <1>3 DEF NotRouted, Collect
  <2>2. Printed(i) = None
    BY <2>1 DEF Printed, Succeeded
  <2> QED BY <1>1, <1>2, <2>1, <2>2 DEF Agrees, Failed, Idle
<1>4. CASE Proposed(i) /\ Succeeded(i)
  <2>1. candidates'[i] = Candidate(agentOf[models[i]], models[i], proc[i].out)
    BY <1>1, <1>4, Zenon DEF Proposed, Collect
  <2>2. Printed(i) = proc[i].out /\ Printed(i) # None /\ Idle(i)
    BY <1>1, <1>4, PrintedText DEF Succeeded, Idle
  <2> QED BY <1>1, <1>2, <2>1, <2>2 DEF Agrees, Candidate, Idle
<1>5. CASE Proposed(i) /\ ~Succeeded(i)
  <2>1. candidates'[i] = Failed(agentOf[models[i]], models[i])
    BY <1>1, <1>5, Zenon DEF Proposed, Collect
  <2>2. Printed(i) = None /\ Idle(i)
    BY <1>5 DEF Printed, Proposed, Returned, Idle
  <2> QED BY <1>1, <1>2, <2>1, <2>2 DEF Agrees, Failed, Idle
<1> QED BY <1>3, <1>4, <1>5

\* dispatch_multi: no step disturbs the candidates that are in.
LEMMA MultiPreserved ==
  ASSUME ConsultInv, [ConsultNext]_consultVars
  PROVE  MultiInv'
<1>t. ConsultType /\ req' = req
  BY StepsOfPrograms DEF ConsultInv
<1> SUFFICES ASSUME req.tool = "dispatch_multi" PROVE MultiInv'
  BY <1>t DEF MultiInv
<1>m. MultiInv
  BY DEF ConsultInv
<1>i. /\ stage \in {"propose", "judge", "answered"}
      /\ \A i \in Slot : candidates[i] # None => Agrees(i) /\ Idle(i)
      /\ IF stage = "propose" THEN proc[Lead].state = "none"
                              ELSE \A i \in Slot : candidates[i] # None
      /\ stage = "judge" \/ proc[Lead].state # "none"
           => solutions = [i \in Slot |-> candidates[i].result]
  BY <1>m DEF MultiInv
<1>n. Lead \in Run /\ Slot \subseteq Run /\ Lead \notin Slot
  BY Numbers
<1>1. CASE Slots
  <2>1. PICK i \in Slot : NotRouted(i) \/ Propose(i) \/ Proposed(i)
    BY <1>1 DEF Slots
  <2>2. stage = "propose" /\ stage' = "propose" /\ candidates[i] = None /\ UNCHANGED solutions
    BY <2>1 DEF NotRouted, Propose, Proposed, Proposing
  <2>3. CASE Propose(i)
    <3>1. StartOnly(i) /\ UNCHANGED candidates
      BY <2>3, <1>t, <1>n, Starts DEF Propose
    <3>2. \A q \in Slot \cup {Lead} : q # i => proc'[q] = proc[q]
      BY <3>1, <1>n DEF StartOnly
    <3>3. ASSUME NEW q \in Slot, candidates'[q] # None
          PROVE  Agrees(q)' /\ Idle(q)'
      <4>1. q # i /\ candidates'[q] = candidates[q] /\ Agrees(q) /\ Idle(q)
        BY <3>1, <3>3, <2>2, <1>i
      <4>2. proc'[q] = proc[q]
        BY <3>2, <4>1
      <4> QED BY <4>1, <4>2, AgreesKept DEF Idle
    <3>4. proc'[Lead].state = "none"
      BY <3>2, <2>2, <1>i, <1>n
    <3> QED BY <3>3, <3>4, <2>2, <1>t DEF MultiInv
  <2>4. CASE NotRouted(i) \/ Proposed(i)
    <3>1. Agrees(i)' /\ Idle(i)'
      BY <2>4, <1>t, CandidateAgrees
    <3>2. UNCHANGED proc /\ \A q \in Slot \ {i} : candidates'[q] = candidates[q]
      BY <2>4, <1>t DEF NotRouted, Proposed, Collect, ConsultType
    <3>3. ASSUME NEW q \in Slot, candidates'[q] # None, q # i
          PROVE  Agrees(q)' /\ Idle(q)'
      BY <3>2, <3>3, <1>i, AgreesKept DEF Idle
    <3> QED BY <3>1, <3>2, <3>3, <2>2, <1>i, <1>t DEF MultiInv
  <2> QED BY <2>1, <2>3, <2>4
<1>2. ASSUME UNCHANGED <<proc, candidates>>, NEW q \in Slot, candidates'[q] # None
      PROVE  Agrees(q)' /\ Idle(q)'
  BY <1>2, <1>i, AgreesKept DEF Idle
<1>5. CASE Join
  <2>1. UNCHANGED <<proc, candidates>> /\ stage = "propose" /\ \A i \in Slot : candidates[i] # None
    BY <1>5 DEF Join
  <2>2. CASE req.synthesis = "judge"
    <3>1. stage' = "judge" /\ solutions' = [i \in Slot |-> candidates[i].result]
      BY <1>5, <2>2 DEF Join
    <3> QED BY <1>2, <1>t, <2>1, <3>1 DEF MultiInv
  <2>3. CASE req.synthesis # "judge"
    <3>1. stage' = "answered" /\ UNCHANGED solutions /\ proc[Lead].state = "none"
      BY <1>5, <2>1, <2>3, <1>i DEF Join, Answer
    <3> QED BY <1>2, <1>t, <2>1, <3>1 DEF MultiInv
  <2> QED BY <2>2, <2>3
<1>6. CASE JudgeUnavailable \/ JudgeReturns
  <2>1. /\ stage = "judge" /\ stage' = "answered"
        /\ UNCHANGED <<proc, candidates, solutions>>
    BY <1>6 DEF JudgeUnavailable, JudgeReturns, Answer
  <2> QED BY <2>1, <1>2, <1>i, <1>t DEF MultiInv
<1>7. CASE UNCHANGED consultVars
  BY <1>7, <1>2, <1>i, <1>t DEF MultiInv, consultVars
<1>3. CASE Judge
  <2>1. StartOnly(Lead) /\ UNCHANGED <<stage, candidates, solutions>> /\ stage = "judge"
    BY <1>3, <1>t, <1>n, Starts DEF Judge
  <2>2. \A q \in Slot : proc'[q] = proc[q]
    BY <2>1, <1>n DEF StartOnly
  <2>3. ASSUME NEW q \in Slot, candidates'[q] # None
        PROVE  Agrees(q)' /\ Idle(q)'
    BY <2>1, <2>2, <2>3, <1>i, AgreesKept DEF Idle
  <2> QED BY <2>1, <2>3, <1>i, <1>t DEF MultiInv
<1>4. CASE \E r \in Run : External(ProcStep(r, Prints))
  <2>1. PICK r \in Run : ProcStep(r, Prints) /\ UNCHANGED <<stage, candidates, solutions>>
    BY <1>4 DEF External
  <2>2. StepOnly(r)
    BY <2>1, <1>t, Steps
  <2>3. ASSUME NEW q \in Run, Idle(q)
        PROVE  proc'[q].state = proc[q].state /\ proc'[q].out = proc[q].out
    BY <2>2, <2>3 DEF StepOnly, Idle
  <2>4. ASSUME NEW q \in Slot, candidates'[q] # None
        PROVE  Agrees(q)' /\ Idle(q)'
    BY <2>1, <2>3, <2>4, <1>i, <1>n, AgreesKept DEF Idle
  <2>5. proc[Lead].state = "none" => proc'[Lead].state = "none"
    BY <2>3, <1>n DEF Idle
  <2> QED BY <2>1, <2>4, <2>5, <1>i, <1>t DEF MultiInv
<1> QED
  BY <1>1, <1>3, <1>4, <1>5, <1>6, <1>7, <1>i
  DEF ConsultNext, Orchestrator, Validate, RunCommand, CommandReturns, Verified,
      PlannerUnknown, Planner, PlannerReturns, AllocKey, Upsert

\* What a step of one program leaves of the others, and of a program that is over.
LEMMA StepsElsewhere ==
  ASSUME NEW r \in Run, StepOnly(r), NEW q \in Run, q # r \/ proc[q].state # "running"
  PROVE  proc'[q].state = proc[q].state /\ proc'[q].out = proc[q].out
BY DEF StepOnly

\* plan_gate: the order of the commands is kept while none of them that is over
\* changes and none after the one at hand begins.
LEMMA InOrderKept ==
  ASSUME ConsultInv, req.tool = "plan_gate", InOrder, req' = req, at' = at,
         \A q \in DOMAIN req.cmds : q # at => proc'[q].state = proc[q].state
  PROVE  InOrder'
<1>1. DOMAIN req.cmds = 1..Len(req.cmds) /\ Len(req.cmds) \in Nat /\ at \in Nat
  BY Numbers DEF ConsultInv, ConsultType
<1> QED BY <1>1 DEF InOrder

\* plan_gate: no step disturbs the order of the commands or the verdict.
LEMMA GatePreserved ==
  ASSUME ConsultInv, [ConsultNext]_consultVars
  PROVE  GateInv'
<1>t. ConsultType /\ req' = req
  BY StepsOfPrograms DEF ConsultInv
<1> SUFFICES ASSUME req.tool = "plan_gate" PROVE GateInv'
  BY <1>t DEF GateInv
<1>g. GateInv
  BY DEF ConsultInv
<1>i. /\ stage \in {"validate", "verify", "judge", "answered"}
      /\ at >= 1 /\ InOrder
      /\ stage \in {"validate", "verify"} => passed /\ proc[Lead].state = "none"
      /\ stage = "judge" => Decided
      /\ stage = "answered" =>
           /\ Idle(Lead)
           /\ Verdict \/ (answer = "error" /\ proc[Lead].state = "none")
  BY <1>g DEF GateInv
<1>n. /\ Lead \in Run
      /\ DOMAIN req.cmds = 1..Len(req.cmds) /\ Len(req.cmds) \in Nat
      /\ DOMAIN req.cmds \subseteq Run /\ Lead \notin DOMAIN req.cmds
      /\ at \in Nat
  BY <1>t, Numbers DEF ConsultType
<1>j. Judged(None) = "go on"
  BY NoneIsNoText DEF Judged
<1>1. CASE Validate
  <2>1. UNCHANGED <<proc, at, passed>> /\ stage = "validate"
    BY <1>1 DEF Validate
  <2>2. InOrder'
    BY <2>1, <1>t, <1>i, InOrderKept
  <2>3. stage' = "verify" \/ (stage' = "answered" /\ answer' = "error")
    BY <1>1 DEF Validate, Answer
  <2> QED BY <2>1, <2>2, <2>3, <1>i, <1>t DEF GateInv, Idle
<1>2. CASE RunCommand
  <2>1. /\ stage = "verify" /\ UNCHANGED <<stage, at, passed>> /\ at \in DOMAIN req.cmds
        /\ Start(at)
    BY <1>2 DEF RunCommand
  <2>2. StartOnly(at)
    BY <2>1, <1>n, <1>t, Starts
  <2>3. \A q \in Run : q # at => proc'[q] = proc[q]
    BY <2>2 DEF StartOnly
  <2>4. InOrder'
    BY <2>1, <2>3, <1>n, <1>t, <1>i, InOrderKept
  <2>5. proc'[Lead].state = "none"
    BY <2>1, <2>3, <1>n, <1>i
  <2> QED BY <2>1, <2>4, <2>5, <1>i, <1>t DEF GateInv
<1>3. CASE CommandReturns
  <2>1. /\ stage = "verify" /\ at \in DOMAIN req.cmds /\ UNCHANGED proc
        /\ proc[at].state \in {"exited", "failed"} /\ passed
    BY <1>3, <1>i DEF CommandReturns, Returned
  <2>2. CASE Succeeded(at)
    <3>1. at' = at + 1 /\ UNCHANGED <<stage, passed>>
      BY <1>3, <2>2, Zenon DEF CommandReturns
    <3>2. InOrder'
      BY <1>t, <1>n, <1>i, <2>1, <2>2, <3>1 DEF InOrder, Succeeded
    <3> QED BY <1>t, <1>n, <1>i, <2>1, <3>1, <3>2 DEF GateInv
  <2>3. CASE ~Succeeded(at)
    <3>1. at' = at /\ passed' = FALSE /\ stage' = "judge"
      BY <1>3, <2>3, Zenon DEF CommandReturns
    <3>2. InOrder'
      BY <2>1, <3>1, <1>t, <1>i, InOrderKept
    <3>3. Decided'
      BY <1>t, <2>1, <2>3, <3>1 DEF Decided, Succeeded
    <3> QED BY <1>t, <1>i, <3>1, <3>2, <3>3 DEF GateInv
  <2> QED BY <2>2, <2>3
<1>4. CASE Verified
  <2>1. /\ stage = "verify" /\ stage' = "judge" /\ at \notin DOMAIN req.cmds
        /\ UNCHANGED <<proc, at, passed>> /\ passed
    BY <1>4, <1>i DEF Verified
  <2>2. InOrder'
    BY <2>1, <1>t, <1>i, InOrderKept
  <2>3. Decided'
    BY <2>1, <1>t DEF Decided
  <2> QED BY <2>1, <2>2, <2>3, <1>i, <1>t DEF GateInv
<1>5. CASE JudgeUnavailable
  <2>1. /\ stage = "judge" /\ stage' = "answered" /\ answer' = "go on"
        /\ UNCHANGED <<proc, at, passed>> /\ proc[Lead].state = "none"
    BY <1>5, <1>j DEF JudgeUnavailable, Answer
  <2>2. InOrder' /\ Decided'
    BY <2>1, <1>t, <1>i, InOrderKept DEF Decided
  <2>3. Printed(Lead)' = None
    BY <2>1 DEF Printed, Succeeded
  <2>4. Verdict'
    BY <2>1, <2>2, <2>3, NoneIsNoText DEF Verdict
  <2> QED BY <2>1, <2>2, <2>4, <1>i, <1>t DEF GateInv, Idle
<1>6. CASE Judge
  <2>1. stage = "judge" /\ UNCHANGED <<stage, at, passed>> /\ StartOnly(Lead)
    BY <1>6, <1>n, <1>t, Starts DEF Judge
  <2>2. \A q \in DOMAIN req.cmds : proc'[q] = proc[q]
    BY <2>1, <1>n DEF StartOnly
  <2>3. InOrder' /\ Decided'
    BY <2>1, <2>2, <1>t, <1>i, InOrderKept DEF Decided
  <2> QED BY <2>1, <2>3, <1>i, <1>t DEF GateInv
<1>7. CASE JudgeReturns
  <2>1. /\ stage = "judge" /\ stage' = "answered" /\ Idle(Lead)
        /\ answer' = Judged(Printed(Lead)) /\ UNCHANGED <<proc, at, passed>>
    BY <1>7 DEF JudgeReturns, Answer, Printed, Returned, Idle
  <2>2. InOrder' /\ Decided'
    BY <2>1, <1>t, <1>i, InOrderKept DEF Decided
  <2>3. Printed(Lead)' = Printed(Lead) /\ Idle(Lead)'
    BY <2>1 DEF Printed, Succeeded, Idle
  <2>4. answer' = IF req.remaining = 0 /\ passed /\ Printed(Lead) \in GoalMet
                    THEN "stop" ELSE "go on"
    BY <2>1 DEF Judged
  <2>5. Verdict'
    BY <2>1, <2>2, <2>3, <2>4, <1>t DEF Verdict
  <2> QED BY <2>1, <2>2, <2>3, <2>5, <1>i, <1>t DEF GateInv
<1>8. CASE \E r \in Run : External(ProcStep(r, Prints))
  <2>1. PICK r \in Run : /\ ProcStep(r, Prints)
                         /\ UNCHANGED <<stage, at, passed, answer>>
    BY <1>8 DEF External
  <2>2. StepOnly(r)
    BY <2>1, <1>t, Steps
  <2>3. ASSUME NEW q \in Run, Idle(q)
        PROVE  proc'[q].state = proc[q].state /\ proc'[q].out = proc[q].out
    BY <2>2, <2>3, StepsElsewhere DEF Idle
  <2>4. InOrder'
    <3>1. ASSUME NEW q \in DOMAIN req.cmds
          PROVE  (q < at => proc'[q].state = "exited") /\ (at < q => proc'[q].state = "none")
      BY <2>3, <1>i, <1>n DEF InOrder, Idle
    <3> QED BY <2>1, <3>1, <1>t DEF InOrder
  <2>5. Decided => Decided'
    BY <2>1, <2>3, <1>n, <1>t DEF Decided, Idle
  <2>6. Idle(Lead) => Idle(Lead)' /\ Printed(Lead)' = Printed(Lead)
    BY <2>3, <1>n DEF Idle, Printed, Succeeded
  <2>7. proc[Lead].state = "none" => proc'[Lead].state = "none"
    BY <2>3, <1>n DEF Idle
  <2>8. Idle(Lead) /\ Verdict => Verdict'
    BY <2>1, <2>5, <2>6, <1>t DEF Verdict
  <2> QED BY <2>1, <2>4, <2>5, <2>6, <2>7, <2>8, <1>i, <1>t DEF GateInv
<1>9. CASE UNCHANGED consultVars
  <2>1. UNCHANGED <<proc, stage, at, passed, answer>>
    BY <1>9 DEF consultVars
  <2>2. InOrder' /\ (Decided => Decided')
    BY <2>1, <1>t, <1>i, InOrderKept DEF Decided
  <2>3. Idle(Lead)' = Idle(Lead) /\ Printed(Lead)' = Printed(Lead)
    BY <2>1 DEF Idle, Printed, Succeeded
  <2>4. Verdict => Verdict'
    BY <2>1, <2>2, <2>3, <1>t DEF Verdict
  <2> QED BY <2>1, <2>2, <2>3, <2>4, <1>i, <1>t DEF GateInv
<1> QED
  BY <1>1, <1>2, <1>3, <1>4, <1>5, <1>6, <1>7, <1>8, <1>9, <1>i
  DEF ConsultNext, Orchestrator, Slots, NotRouted, Propose, Proposed, Proposing, Join,
      PlannerUnknown, Planner, PlannerReturns, AllocKey, Upsert

\* plan: no step disturbs the plan or its key.
LEMMA PlanPreserved ==
  ASSUME ConsultInv, [ConsultNext]_consultVars
  PROVE  PlanInv'
<1>t. ConsultType /\ req' = req
  BY StepsOfPrograms DEF ConsultInv
<1> SUFFICES ASSUME req.tool = "plan" PROVE PlanInv'
  BY <1>t DEF PlanInv
<1>p. PlanInv
  BY DEF ConsultInv
<1>i. /\ stage \in {"plan", "alloc", "upsert", "answered"}
      /\ stage \in {"plan", "alloc"} => stored = "none"
      /\ stage = "upsert" => stored = "reserved"
      /\ stage # "plan" => Idle(Lead)
      /\ stage \in {"alloc", "upsert"} => Printed(Lead) \in Plans
      /\ stage = "answered" =>
           /\ answer = "plan and key" <=> stored = "plan"
           /\ answer # "error" <=> Printed(Lead) \in Plans
  BY <1>p DEF PlanInv
<1>n. Lead \in Run
  BY Numbers
<1>k. ASSUME UNCHANGED proc PROVE Idle(Lead)' = Idle(Lead) /\ Printed(Lead)' = Printed(Lead)
  BY <1>k DEF Idle, Printed, Succeeded
<1>1. CASE PlannerUnknown
  <2>1. /\ UNCHANGED <<proc, stored>> /\ stage = "plan" /\ stage' = "answered"
        /\ answer' = "error" /\ proc[Lead].state = "none"
    BY <1>1 DEF PlannerUnknown, Answer
  <2>2. Idle(Lead) /\ Printed(Lead) = None
    BY <2>1 DEF Idle, Printed, Succeeded
  <2> QED BY <2>1, <2>2, <1>k, <1>i, <1>t, NoneIsNoText DEF PlanInv
<1>2. CASE Planner
  <2>1. stage = "plan" /\ UNCHANGED <<stage, stored>>
    BY <1>2 DEF Planner
  <2> QED BY <2>1, <1>i, <1>t DEF PlanInv
<1>3. CASE PlannerReturns
  <2>1. UNCHANGED <<proc, stored>> /\ stage = "plan" /\ Idle(Lead)
    BY <1>3 DEF PlannerReturns, Returned, Idle
  <2>2. CASE Succeeded(Lead) /\ proc[Lead].out \in Plans
    <3>1. stage' = "alloc" /\ Printed(Lead) \in Plans
      BY <1>3, <2>2 DEF PlannerReturns, Printed
    <3> QED BY <2>1, <3>1, <1>k, <1>i, <1>t DEF PlanInv
  <2>3. CASE ~(Succeeded(Lead) /\ proc[Lead].out \in Plans)
    <3>1. stage' = "answered" /\ answer' = "error" /\ Printed(Lead) \notin Plans
      BY <1>3, <2>3, NoneIsNoText DEF PlannerReturns, Answer, Printed
    <3> QED BY <2>1, <3>1, <1>k, <1>i, <1>t DEF PlanInv
  <2> QED BY <2>2, <2>3
<1>4. CASE AllocKey \/ Upsert
  <2>1. UNCHANGED proc /\ stage \in {"alloc", "upsert"}
    BY <1>4 DEF AllocKey, Upsert
  <2>2. \/ stage' = "upsert" /\ stored' = "reserved"
        \/ stage' = "answered" /\ answer' = "plan" /\ stored' = stored
        \/ stage' = "answered" /\ answer' = "plan and key" /\ stored' = "plan"
    BY <1>4 DEF AllocKey, Upsert, Answer
  <2> QED BY <2>1, <2>2, <1>k, <1>i, <1>t DEF PlanInv
<1>5. CASE \E r \in Run : External(ProcStep(r, Prints))
  <2>1. PICK r \in Run : ProcStep(r, Prints) /\ UNCHANGED <<stage, stored, answer>>
    BY <1>5 DEF External
  <2>2. StepOnly(r)
    BY <2>1, <1>t, Steps
  <2>3. Idle(Lead) => Idle(Lead)' /\ Printed(Lead)' = Printed(Lead)
    BY <2>2, <1>n, StepsElsewhere DEF Idle, Printed, Succeeded
  <2> QED BY <2>1, <2>3, <1>i, <1>t DEF PlanInv
<1>6. CASE UNCHANGED consultVars
  BY <1>6, <1>k, <1>i, <1>t DEF PlanInv, consultVars
<1> QED
  BY <1>1, <1>2, <1>3, <1>4, <1>5, <1>6, <1>i
  DEF ConsultNext, Orchestrator, Slots, NotRouted, Propose, Proposed, Proposing, Join,
      Validate, RunCommand, CommandReturns, Verified, JudgeUnavailable, Judge, JudgeReturns

\* In every reachable state the candidates, the verdict and the plan are what
\* the programs that have ended printed.
THEOREM ConsultInvariant == ConsultSpec => []ConsultInv
<1>1. ConsultInv /\ [ConsultNext]_consultVars => ConsultInv'
  BY ConsultTypePreserved, MultiPreserved, GatePreserved, PlanPreserved DEF ConsultInv
<1> QED BY ConsultStarts, <1>1, PTL DEF ConsultSpec

\* Every answer of dispatch_multi has candidate i from model i, and the judge
\* saw the candidates under their numbers.
THEOREM CandidatesAligned == ConsultSpec => []Aligned
<1>1. ConsultInv => Aligned
  <2> SUFFICES ASSUME ConsultInv, Answered("dispatch_multi") PROVE Aligned
    BY DEF Aligned
  <2>1. req.tool = "dispatch_multi" /\ stage = "answered" /\ MultiInv
    BY DEF Answered, ConsultInv
  <2>2. \A i \in Slot : Agrees(i)
    BY <2>1 DEF MultiInv
  <2>3. proc[Lead].state # "none" => solutions = [i \in Slot |-> candidates[i].result]
    BY <2>1 DEF MultiInv
  <2> QED BY <2>2, <2>3 DEF Aligned, Agrees
<1> QED BY ConsultInvariant, <1>1, PTL

\* plan_gate says stop exactly when everything it checks came out well.
THEOREM StopIsEarned == ConsultSpec => []StopEarned
<1>1. ConsultInv => StopEarned
  <2> SUFFICES ASSUME ConsultInv, Answered("plan_gate") PROVE StopEarned
    BY DEF StopEarned
  <2>1. req.tool = "plan_gate" /\ stage = "answered" /\ GateInv /\ ConsultType
    BY DEF Answered, ConsultInv
  <2>2. /\ at >= 1 /\ InOrder
        /\ Verdict \/ (answer = "error" /\ proc[Lead].state = "none")
    BY <2>1 DEF GateInv
  <2>3. /\ DOMAIN req.cmds = 1..Len(req.cmds) /\ Len(req.cmds) \in Nat
        /\ DOMAIN req.cmds \subseteq Run /\ at \in Nat
    BY <2>1, Numbers DEF ConsultType
  <2>4. \A i \in DOMAIN req.cmds : Printed(i) # None <=> proc[i].state = "exited"
    BY <2>1, <2>3, PrintedText
  <2>5. ASSUME NEW i \in DOMAIN req.cmds, NEW j \in DOMAIN req.cmds, i < j,
               proc[j].state # "none"
        PROVE  Printed(i) # None
    BY <2>2, <2>3, <2>4, <2>5 DEF InOrder
  <2>6. CASE Verdict
    <3>1. passed <=> \A i \in DOMAIN req.cmds : Printed(i) # None
      <4>1. CASE passed
        <5>1. at \notin DOMAIN req.cmds
          BY <2>6, <4>1, Zenon DEF Verdict, Decided
        <5>2. \A i \in DOMAIN req.cmds : i < at
          BY <2>2, <2>3, <5>1
        <5> QED BY <2>2, <2>4, <4>1, <5>2 DEF InOrder
      <4>2. CASE ~passed
        <5>1. at \in DOMAIN req.cmds /\ proc[at].state = "failed"
          BY <2>6, <4>2 DEF Verdict, Decided
        <5> QED BY <2>4, <4>2, <5>1
      <4> QED BY <4>1, <4>2
    <3>2. answer = "stop" <=> req.remaining = 0 /\ passed /\ Printed(Lead) \in GoalMet
      BY <2>6 DEF Verdict
    <3> QED BY <2>5, <3>1, <3>2 DEF StopEarned
  <2>7. CASE answer = "error" /\ proc[Lead].state = "none"
    <3>1. Printed(Lead) \notin GoalMet
      BY <2>7, NoneIsNoText DEF Printed, Succeeded
    <3> QED BY <2>5, <2>7, <3>1 DEF StopEarned
  <2> QED BY <2>2, <2>6, <2>7
<1> QED BY ConsultInvariant, <1>1, PTL

\* Whatever a program prints, the scanner finds the top-level objects of it.
THEOREM ScannerIsExact == ConsultSpec => []ScanExact
<1>1. ConsultInv => ScanExact
  <2> SUFFICES ASSUME ConsultInv, NEW text \in {Printed(r) : r \in Run} \ {None}
               PROVE  \A spans \in {topLevelObjectSpans(text)} :
                        /\ ToSet(spans) = TopLevel(text)
                        /\ \A k \in 2..Len(spans) : spans[k - 1][2] < spans[k][1]
    BY DEF ScanExact
  <2>1. text \in Seq(STRING)
    BY PrintedText, NoneIsNoText DEF ConsultInv
  <2> QED BY <2>1, ScannerIsGrammar
<1> QED BY ConsultInvariant, <1>1, PTL

\* A text is a plan when an object of its top level has steps.
LEMMA PlanIsSteps ==
  ASSUME NEW s \in Seq(STRING)
  PROVE  ParsePlanResponse(s) # None <=> \E o \in TopLevel(s) : Fits(s, o, {"steps"})
<1> DEFINE text == LastOf(s, {"steps"})
<1>1. ParsePlanResponse(s) = IF text = <<>> THEN None ELSE json[text]
  BY DEF ParsePlanResponse, Said
<1>2. \/ text = <<>> /\ \A o \in TopLevel(s) : ~Fits(s, o, {"steps"})
      \/ \E o \in TopLevel(s) : Fits(s, o, {"steps"}) /\ text = SubSeq(s, o[1], o[2]) /\ text # <<>>
  BY LastIsRightmost
<1>3. ASSUME NEW o \in TopLevel(s), Fits(s, o, {"steps"}), text = SubSeq(s, o[1], o[2])
      PROVE  json[text] # None
  BY <1>3, OutputAssumption DEF Fits
<1> QED BY <1>1, <1>2, <1>3

\* plan tells a key exactly when the plan is stored under it, and an error
\* exactly when the planner printed no plan.
THEOREM KeyIsStored == ConsultSpec => []KeyMeansStored
<1>1. ConsultInv => KeyMeansStored
  <2> SUFFICES ASSUME ConsultInv, Answered("plan") PROVE KeyMeansStored
    BY DEF KeyMeansStored
  <2>1. req.tool = "plan" /\ stage = "answered" /\ PlanInv /\ ConsultType
    BY DEF Answered, ConsultInv
  <2>2. /\ answer = "plan and key" <=> stored = "plan"
        /\ answer # "error" <=> Printed(Lead) \in Plans
    BY <2>1 DEF PlanInv
  <2>3. Prints = Stdout \cup PlannerStdout
    BY <2>1 DEF Prints
  <2>4. Printed(Lead) # None => Printed(Lead) \in Prints /\ Printed(Lead) \in Seq(STRING)
    BY <2>1, Numbers, PrintedText, NoneIsNoText
  <2>5. ASSUME NEW out, NEW o
        PROVE  Fits(out, o, {"steps"}) <=>
                 LET text == SubSeq(out, o[1], o[2]) IN text \in DOMAIN json /\ json[text] = "steps"
    BY DEF Fits
  <2>6. Printed(Lead) \in Plans <=>
          \E out \in {Printed(Lead)} \ {None} : \E o \in TopLevel(out) : Fits(out, o, {"steps"})
    BY <2>3, <2>4, NoneIsNoText, PlanIsSteps DEF Plans
  <2> QED BY <2>2, <2>5, <2>6 DEF KeyMeansStored
<1> QED BY ConsultInvariant, <1>1, PTL
=============================================================================
