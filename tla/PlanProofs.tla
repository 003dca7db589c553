----------------------------- MODULE PlanProofs -----------------------------
(***************************************************************************)
(* What the plan loop promises on one server, for any hosts, plans and     *)
(* revisions.  The mutex makes what a writer read what it overwrites, so   *)
(* that a record or a revision changes the plan as it is; from there,      *)
(* attempts are the failures recorded, and they are bounded by an          *)
(* allowance: a step that can be offered has room for one failure of every *)
(* host, and one that cannot has room for the hosts that hold it.          *)
(***************************************************************************)
EXTENDS Plan, FiniteSetTheorems, SequenceTheorems, WellFoundedInduction, TLAPS

TypeInv ==
  /\ plan \in {None} \cup Seq(Step)
  /\ via \in [Actor -> Server]
  /\ mu \in [Server -> {None} \cup Actor]
  /\ snap \in [Actor -> {None} \cup Seq(Step)]
  /\ pc \in [Actor -> {"idle", "dispatch", "report", "write"}]
  /\ held \in [Host -> {None} \cup Id]
  /\ verdict \in [Host -> {None, "done", "failed"}]
  /\ revision \in {None} \cup Revisions
  /\ fails \in [Id -> Nat]
  /\ revisions \in Nat /\ plans \in Nat

\* What an actor that is not idle has in hand.
HandInv ==
  /\ \A h \in Host :
       /\ pc[h] # "idle" => plan \in Seq(Step) /\ held[h] \in Id
       /\ pc[h] \in {"report", "write"} => verdict[h] \in {"done", "failed"}
       /\ pc[h] = "write" =>
            snap[h] \in Seq(Step) /\ Indexes(snap[h], held[h]) # {}
  /\ pc[Editor] \in {"idle", "write"}
  /\ pc[Editor] = "write" =>
       /\ plan \in Seq(Step) /\ snap[Editor] \in Seq(Step)
       /\ revision \in Revisions /\ revisions > 0

\* Who is about to write holds the mutex of its server, ...
MutexInv == \A a \in Actor : pc[a] = "write" => mu[via[a]] = a

\* ... and on one server overwrites what it read.
SnapInv == OneServer => \A a \in Actor : pc[a] = "write" => snap[a] = plan

\* Failures are counted of the steps that are in the plan, as their attempts.
CountInv ==
  /\ AttemptsCounted
  /\ OneServer => \A id \in Id :
       fails[id] > 0 => plan \in Seq(Step) /\ Indexes(plan, id) # {}

IInv == TypeInv /\ HandInv /\ MutexInv /\ SnapInv /\ CountInv

-----------------------------------------------------------------------------

\* A plan in which an id names one step.
DistinctIds ==
  plan # None => \A i, j \in DOMAIN plan : plan[i].id = plan[j].id => i = j

HoldersIn(f, id) == {h \in Host : f[h] = id}
Holders(id) == HoldersIn(held, id)

\* The revisions that have been written, or never will be.
Settled == IF pc[Editor] = "write" THEN revisions - 1 ELSE revisions

Allowance(e) == (MaxAttempts - 1) + Cardinality(Host) * e

\* Whatever is recorded by those who hold it, a step stays within the allowance
\* of the next revision; while it is runnable, within that of this one.
Room(p, f, e) ==
  \A i \in DOMAIN p :
    /\ p[i].attempts + Cardinality(HoldersIn(f, p[i].id)) <= Allowance(e + 1)
    /\ runnable(p[i]) => p[i].attempts <= Allowance(e)

BoundInv == OneServer /\ plan # None => Room(plan, held, Settled)

-----------------------------------------------------------------------------
(* The operators on plans.                                                 *)

\* Any set of natural numbers has a least element.
LEMMA Least ==
  ASSUME NEW S, S \subseteq Nat, S # {}
  PROVE  \E x \in S : \A y \in S : x <= y
<1> DEFINE R == {p \in Nat \X Nat : p[1] < p[2]}
<1>1. IsWellFoundedOn(R, Nat)
  BY NatLessThanWellFounded DEF OpToRel
<1> HIDE DEF R
<1>2. PICK x \in S : \A y \in S : ~(<<y, x>> \in R)
  BY <1>1, WFMin
<1>3. ASSUME NEW y \in S PROVE x <= y
  <2>1. x \in Nat /\ y \in Nat
    OBVIOUS
  <2>2. ~(y < x)
    BY <2>1, <1>2 DEF R
  <2> QED BY <2>1, <2>2
<1> QED
  BY <1>3

\* Max finds the largest of numbers that are bounded.
LEMMA MaxOfBounded ==
  ASSUME NEW b \in Nat, NEW S, S \subseteq 0..b, S # {}
  PROVE  Max(S) \in S /\ \A y \in S : y <= Max(S)
<1> DEFINE D == {b - x : x \in S}
<1>1. D \subseteq Nat /\ D # {}
  <2>1. \A x \in S : b - x \in Nat
    OBVIOUS
  <2> QED BY <2>1
<1> HIDE DEF D
<1>2. PICK d \in D : \A e \in D : d <= e
  BY <1>1, Least
<1>3. PICK x \in S : d = b - x
  BY DEF D
<1>4. \A y \in S : b - x <= b - y
  BY <1>2, <1>3 DEF D
<1>5. \A y \in S : x >= y
  BY <1>4
<1>6. Max(S) \in S /\ \A y \in S : Max(S) >= y
  BY <1>5 DEF Max
<1>7. \A y \in S : y \in Nat
  OBVIOUS
<1> QED
  BY <1>6, <1>7

\* Min finds the least.
LEMMA MinOfNonEmpty ==
  ASSUME NEW S, S \subseteq Nat, S # {}
  PROVE  Min(S) \in S /\ \A y \in S : Min(S) <= y
<1>1. PICK x \in S : \A y \in S : x <= y
  BY Least
<1> QED
  BY <1>1 DEF Min

\* A sequence is a function from 1..n.
LEMMA PlanIsFunction ==
  ASSUME NEW S, NEW p \in Seq(S)
  PROVE  /\ Len(p) \in Nat /\ DOMAIN p = 1..Len(p) /\ p \in [1..Len(p) -> S]
         /\ \A i \in DOMAIN p : i \in Nat \ {0} /\ p[i] \in S
  BY LenProperties, ElementOfSeq

\* Steps have ids.
LEMMA IdsType ==
  ASSUME NEW p \in Seq(Step), NEW i \in DOMAIN p
  PROVE  p[i].id \in Id /\ p[i].attempts \in Nat
<1>1. p[i] \in Step
  BY PlanIsFunction
<1> QED
  BY <1>1 DEF Step

\* The step a record or an update acts on.
LEMMA FirstIndex ==
  ASSUME NEW S, NEW p \in Seq(S), NEW id, Indexes(p, id) # {}
  PROVE  LET m == Min(Indexes(p, id)) IN
         /\ m \in DOMAIN p /\ p[m].id = id
         /\ \A k \in DOMAIN p : p[k].id = id => m <= k
<1>1. Indexes(p, id) \subseteq Nat
  BY PlanIsFunction DEF Indexes
<1>2. LET m == Min(Indexes(p, id)) IN
      m \in Indexes(p, id) /\ \A k \in Indexes(p, id) : m <= k
  BY <1>1, MinOfNonEmpty
<1> QED
  BY <1>2 DEF Indexes

\* A step is the first of its id when no step before it has the id.
LEMMA FirstIs ==
  ASSUME NEW S, NEW p \in Seq(S), NEW i \in DOMAIN p
  PROVE  IsFirst(p, i) <=> \A k \in DOMAIN p : p[k].id = p[i].id => i <= k
<1> DEFINE m == Min(Indexes(p, p[i].id))
<1>1. m \in DOMAIN p /\ p[m].id = p[i].id /\ \A k \in DOMAIN p : p[k].id = p[i].id => m <= k
  <2>1. Indexes(p, p[i].id) # {}
    BY DEF Indexes
  <2> QED BY <2>1, FirstIndex
<1>2. m \in Nat /\ i \in Nat
  BY <1>1, PlanIsFunction
<1> HIDE DEF m
<1>3. IsFirst(p, i) <=> i = m
  BY DEF IsFirst, m
<1> QED
  BY <1>1, <1>2, <1>3

\* Record changes one step, and counts the failures of it.
LEMMA RecordedFacts ==
  ASSUME NEW p \in Seq(Step), NEW id \in Id, Indexes(p, id) # {},
         NEW v \in {"done", "failed"}
  PROVE  LET q == Recorded(p, id, v)
             m == Min(Indexes(p, id)) IN
         /\ q \in Seq(Step) /\ DOMAIN q = DOMAIN p
         /\ \A i \in DOMAIN p : q[i].id = p[i].id /\ (i # m => q[i] = p[i])
         /\ q[m].status = v
         /\ q[m].attempts = IF v = "failed" THEN p[m].attempts + 1 ELSE p[m].attempts
<1> DEFINE m == Min(Indexes(p, id))
           a == IF v = "failed" THEN p[m].attempts + 1 ELSE p[m].attempts
           new == [p[m] EXCEPT !.status = v, !.attempts = a]
<1>1. m \in DOMAIN p
  BY FirstIndex
<1> HIDE DEF m
<1>2. p[m] \in Step
  BY <1>1, PlanIsFunction
<1>3. new \in Step /\ new.id = p[m].id /\ new.status = v /\ new.attempts = a
  <2>1. a \in Nat
    BY <1>2 DEF Step
  <2> HIDE DEF a
  <2> QED BY <1>2, <2>1 DEF Step, Status
<1>4. Recorded(p, id, v) = [p EXCEPT ![m] = new]
  <2>1. Recorded(p, id, v) =
          [p EXCEPT ![m].status = v,
                    ![m].attempts = IF v = "failed" THEN @ + 1 ELSE @]
    BY DEF Recorded, m
  <2> QED
    BY <1>1, <1>2, <2>1, PlanIsFunction DEF Step, a
<1> HIDE DEF new
<1>5. Recorded(p, id, v) \in Seq(Step)
  BY <1>1, <1>3, <1>4, PlanIsFunction
<1> QED
  BY <1>1, <1>3, <1>4, <1>5, PlanIsFunction DEF m

\* Updates change neither the ids nor the attempts.
LEMMA UpdatedFacts ==
  ASSUME NEW p \in Seq(Step), NEW us \in Seq(Update)
  PROVE  LET q == Updated(p, us) IN
         /\ q \in Seq(Step) /\ DOMAIN q = DOMAIN p
         /\ \A i \in DOMAIN p : q[i].id = p[i].id /\ q[i].attempts = p[i].attempts
<1>1. ASSUME NEW s \in Step
      PROVE  Merged(s, us) \in Step /\ Merged(s, us).id = s.id
             /\ Merged(s, us).attempts = s.attempts
  <2> DEFINE Latest(f) == us[Max(Setting(us, s.id, f))][f]
             status == IF Setting(us, s.id, "status") = {} THEN s.status
                                                           ELSE Latest("status")
             deps == IF Setting(us, s.id, "deps") = {} THEN s.deps ELSE Latest("deps")
  <2>1. ASSUME NEW f, Setting(us, s.id, f) # {}
        PROVE  us[Max(Setting(us, s.id, f))] \in Update /\ Latest(f) # None
    <3>1. Setting(us, s.id, f) \subseteq 0..Len(us) /\ Len(us) \in Nat
      BY PlanIsFunction DEF Setting
    <3>2. Max(Setting(us, s.id, f)) \in Setting(us, s.id, f)
      BY <2>1, <3>1, MaxOfBounded
    <3> QED
      BY <3>2, PlanIsFunction DEF Setting
  <2>2. status \in Status
    <3>1. CASE Setting(us, s.id, "status") = {}
      BY <3>1 DEF Step
    <3>2. CASE Setting(us, s.id, "status") # {}
      BY <3>2, <2>1 DEF Update
    <3> QED BY <3>1, <3>2
  <2>3. deps \in SUBSET Id
    <3>1. CASE Setting(us, s.id, "deps") = {}
      BY <3>1 DEF Step
    <3>2. CASE Setting(us, s.id, "deps") # {}
      BY <3>2, <2>1 DEF Update
    <3> QED BY <3>1, <3>2
  <2>4. Merged(s, us) = [s EXCEPT !.status = status, !.deps = deps]
    BY DEF Merged, Step
  <2> HIDE DEF status, deps
  <2> QED
    BY <2>2, <2>3, <2>4 DEF Step
<1>2. /\ Len(p) \in Nat /\ DOMAIN p = 1..Len(p)
      /\ \A i \in DOMAIN p : p[i] \in Step
  BY PlanIsFunction
<1>3. \A i \in 1..Len(p) :
        (IF IsFirst(p, i) THEN Merged(p[i], us) ELSE p[i]) \in Step
  BY <1>1, <1>2
<1>4. Updated(p, us) \in [1..Len(p) -> Step]
  BY <1>2, <1>3 DEF Updated
<1>5. Updated(p, us) \in Seq(Step)
  BY <1>2, <1>4
<1> QED
  BY <1>1, <1>2, <1>5 DEF Updated

\* The places of the steps that stay are 1, 2, and so on, in their order.
LEMMA PlacesFilled ==
  ASSUME NEW S, NEW p \in Seq(S), NEW ids
  PROVE  LET kept == Kept(p, ids)
             n == Cardinality(kept) IN
         /\ n \in Nat
         /\ \A i \in kept : Place(p, ids, i) \in 1..n
         /\ \A i, k \in kept : i < k <=> Place(p, ids, i) < Place(p, ids, k)
         /\ \A j \in 1..n : \E i \in kept : Place(p, ids, i) = j
<1> DEFINE kept == Kept(p, ids)
           n == Cardinality(kept)
           Upto(i) == {k \in kept : k <= i}
           place == [i \in kept |-> Place(p, ids, i)]
<1>1. /\ kept \subseteq 1..Len(p) /\ Len(p) \in Nat
      /\ \A i \in kept : i \in Nat
  BY PlanIsFunction DEF Kept
<1>2. IsFiniteSet(kept) /\ n \in Nat
  <2>1. IsFiniteSet(1..Len(p))
    BY <1>1, FS_Interval
  <2> QED BY <1>1, <2>1, FS_Subset, FS_CardinalityType
<1>3. \A i \in kept : Place(p, ids, i) = Cardinality(Upto(i))
  BY DEF Place
<1>4. ASSUME NEW i \in kept
      PROVE  IsFiniteSet(Upto(i)) /\ Cardinality(Upto(i)) \in 1..n
  <2>1. Upto(i) \in SUBSET kept /\ i \in Upto(i)
    BY <1>1
  <2>2. IsFiniteSet(Upto(i)) /\ Cardinality(Upto(i)) <= n
    BY <1>2, <2>1, FS_Subset
  <2>3. Cardinality(Upto(i)) \in Nat /\ Cardinality(Upto(i)) # 0
    BY <2>1, <2>2, FS_CardinalityType, FS_EmptySet
  <2> QED BY <1>2, <2>2, <2>3
<1>5. ASSUME NEW i \in kept, NEW k \in kept, i < k
      PROVE  Cardinality(Upto(i)) < Cardinality(Upto(k))
  <2>1. Upto(i) \in SUBSET Upto(k) /\ k \in Upto(k) /\ k \notin Upto(i)
    BY <1>1, <1>5
  <2>2. IsFiniteSet(Upto(k)) /\ Cardinality(Upto(k)) \in Nat /\ Cardinality(Upto(i)) \in Nat
    <3> HIDE DEF Upto, n
    <3> QED BY <1>2, <1>4
  <2>3. Cardinality(Upto(i)) <= Cardinality(Upto(k)) /\ Cardinality(Upto(k)) # Cardinality(Upto(i))
    <3> HIDE DEF Upto
    <3>1. Upto(i) # Upto(k)
      BY <2>1
    <3> QED BY <2>1, <2>2, <3>1, FS_Subset
  <2> QED BY <2>2, <2>3
<1> HIDE DEF kept, n, Upto
<1>6. \A i \in kept : Place(p, ids, i) \in 1..n
  BY <1>3, <1>4
<1>7. ASSUME NEW i \in kept, NEW k \in kept
      PROVE  i < k <=> Place(p, ids, i) < Place(p, ids, k)
  <2>1. i \in Nat /\ k \in Nat /\ Place(p, ids, i) \in Nat /\ Place(p, ids, k) \in Nat
    BY <1>1, <1>2, <1>6
  <2>2. /\ i < k => Place(p, ids, i) < Place(p, ids, k)
        /\ k < i => Place(p, ids, k) < Place(p, ids, i)
    BY <1>3, <1>5
  <2> QED BY <2>1, <2>2
<1>8. place \in Injection(kept, 1..n)
  <2>1. \A i, k \in kept : place[i] = place[k] => i = k
    <3> SUFFICES ASSUME NEW i \in kept, NEW k \in kept, place[i] = place[k] PROVE i = k
      OBVIOUS
    <3>1. i \in Nat /\ k \in Nat /\ place[i] \in Nat /\ place[k] \in Nat
      BY <1>1, <1>2, <1>6
    <3>2. ~(place[i] < place[k]) /\ ~(place[k] < place[i])
      BY <3>1
    <3> QED BY <1>7, <3>1, <3>2
  <2>2. place \in [kept -> 1..n]
    BY <1>6
  <2> HIDE DEF place
  <2> QED BY <2>1, <2>2 DEF Injection, IsInjective
<1>9. place \in Surjection(kept, 1..n)
  <2>1. IsFiniteSet(1..n) /\ Cardinality(1..n) = n
    BY <1>2, FS_Interval
  <2>2. Cardinality(kept) = Cardinality(1..n)
    BY <2>1 DEF n
  <2> HIDE DEF place
  <2> QED BY <1>8, <2>1, <2>2, FS_Injection
<1>10. \A j \in 1..n : \E i \in kept : Place(p, ids, i) = j
  BY <1>9 DEF Surjection
<1> QED
  BY <1>2, <1>6, <1>7, <1>10 DEF kept, n

\* What is left of a plan is its other steps, once each and in their order.
LEMMA WithoutFacts ==
  ASSUME NEW p \in Seq(Step), NEW ids
  PROVE  LET q == Without(p, ids) IN
         /\ q \in Seq(Step)
         /\ \A j \in DOMAIN q : \E i \in DOMAIN p :
              /\ q[j] = p[i] /\ p[i].id \notin ids
              /\ IsFirst(q, j) => IsFirst(p, i)
         /\ \A i \in DOMAIN p : p[i].id \notin ids => Indexes(q, p[i].id) # {}
<1> DEFINE kept == Kept(p, ids)
           n == Cardinality(kept)
           place(i) == Place(p, ids, i)
           from(j) == CHOOSE i \in kept : place(i) = j
           q == Without(p, ids)
<1>1. /\ n \in Nat
      /\ \A i \in kept : place(i) \in 1..n
      /\ \A i, k \in kept : i < k <=> place(i) < place(k)
      /\ \A j \in 1..n : \E i \in kept : place(i) = j
  BY PlacesFilled
<1>2. \A i \in kept : i \in DOMAIN p /\ i \in Nat /\ p[i] \in Step /\ p[i].id \notin ids
  BY PlanIsFunction DEF Kept
<1>3. \A j \in 1..n : from(j) \in kept /\ place(from(j)) = j
  BY <1>1
<1>4. q = [j \in 1..n |-> p[from(j)]]
  BY DEF Without
<1> HIDE DEF from, place, n, q, kept
<1>5. q \in Seq(Step) /\ DOMAIN q = 1..n
  <2>1. q \in [1..n -> Step]
    BY <1>2, <1>3, <1>4
  <2> QED BY <1>1, <1>4, <2>1
<1>6. \A i \in kept : place(i) \in 1..n /\ q[place(i)] = p[i]
  <2> SUFFICES ASSUME NEW i \in kept PROVE place(i) \in 1..n /\ q[place(i)] = p[i]
    OBVIOUS
  <2>1. place(i) \in 1..n
    BY <1>1
  <2>2. from(place(i)) \in kept /\ place(from(place(i))) = place(i)
    BY <1>3, <2>1
  <2>3. from(place(i)) = i
    <3> DEFINE k == from(place(i))
    <3>1. k \in Nat /\ i \in Nat /\ place(k) \in Nat
      BY <1>1, <1>2, <2>1, <2>2
    <3>2. ~(k < i) /\ ~(i < k)
      BY <1>1, <2>1, <2>2
    <3> HIDE DEF k
    <3>3. k = i
      BY <3>1, <3>2
    <3> QED BY <3>3 DEF k
  <2> QED BY <1>4, <2>1, <2>3
<1>7. ASSUME NEW j \in DOMAIN q
      PROVE  \E i \in DOMAIN p :
               /\ q[j] = p[i] /\ p[i].id \notin ids
               /\ IsFirst(q, j) => IsFirst(p, i)
  <2> DEFINE i == from(j)
  <2>1. i \in kept /\ place(i) = j /\ j \in 1..n
    BY <1>3, <1>5
  <2> HIDE DEF i
  <2>2. q[j] = p[i]
    BY <1>6, <2>1
  <2>3. i \in DOMAIN p /\ i \in Nat /\ p[i].id \notin ids
    BY <1>2, <2>1
  <2>4. ASSUME IsFirst(q, j), NEW k \in DOMAIN p, p[k].id = p[i].id
        PROVE  i <= k
    <3>1. k \in kept
      BY <2>3, <2>4 DEF kept, Kept
    <3>2. place(k) \in DOMAIN q /\ q[place(k)] = p[k]
      BY <1>5, <1>6, <3>1
    <3>3. j <= place(k)
      BY <1>5, <2>2, <2>4, <3>2, FirstIs
    <3>4. ~(place(k) < place(i)) /\ k \in Nat
      BY <1>1, <1>2, <2>1, <3>1, <3>3
    <3>5. ~(k < i)
      BY <1>1, <2>1, <3>1, <3>4
    <3> QED BY <2>3, <3>4, <3>5
  <2>5. IsFirst(q, j) => IsFirst(p, i)
    BY <2>3, <2>4, FirstIs
  <2> QED BY <2>2, <2>3, <2>5
<1>8. ASSUME NEW i \in DOMAIN p, p[i].id \notin ids
      PROVE  Indexes(q, p[i].id) # {}
  <2>1. i \in kept
    BY <1>8 DEF kept, Kept
  <2> QED BY <1>5, <1>6, <2>1 DEF Indexes
<1> QED
  BY <1>5, <1>7, <1>8 DEF q

\* What a revision leaves: steps it did not remove, with the attempts they had,
\* and steps it added, with none; the first of an id stays the first.
Stays(p, r, q, j) ==
  \E i \in DOMAIN p :
    /\ q[j].id = p[i].id /\ q[j].attempts = p[i].attempts
    /\ p[i].id \notin r.remove
    /\ IsFirst(q, j) => IsFirst(p, i)

IsAdded(p, r, q, j) ==
  \E k \in DOMAIN r.add :
    /\ q[j].id = r.add[k].id /\ q[j].attempts = 0
    /\ IsFirst(q, j) => q[j].id \in r.remove \/ Indexes(p, q[j].id) = {}

IsRevision(p, r, q) ==
  /\ q \in Seq(Step)
  /\ \A j \in DOMAIN q : Stays(p, r, q, j) \/ IsAdded(p, r, q, j)
  /\ \A i \in DOMAIN p : p[i].id \notin r.remove => Indexes(q, p[i].id) # {}

\* A revision is what IsRevision says.
LEMMA RevisedFacts ==
  ASSUME NEW p \in Seq(Step), NEW r \in Revisions
  PROVE  IsRevision(p, r, Revised(p, r))
<1> DEFINE u == Updated(p, r.update)
           w == Without(u, r.remove)
           a == [k \in DOMAIN r.add |-> Defaulted(r.add[k])]
           q == Revised(p, r)
<1>1. r.add \in Seq(Draft) /\ r.update \in Seq(Update)
  BY PlanAssumption
<1>2. /\ u \in Seq(Step) /\ DOMAIN u = DOMAIN p
      /\ \A i \in DOMAIN p : u[i].id = p[i].id /\ u[i].attempts = p[i].attempts
  BY <1>1, UpdatedFacts
<1>3. q = w \o a
  BY DEF Revised
<1> HIDE DEF u
<1>4. /\ w \in Seq(Step)
      /\ \A j \in DOMAIN w : \E i \in DOMAIN u :
           /\ w[j] = u[i] /\ u[i].id \notin r.remove
           /\ IsFirst(w, j) => IsFirst(u, i)
      /\ \A i \in DOMAIN u : u[i].id \notin r.remove => Indexes(w, u[i].id) # {}
  BY <1>2, WithoutFacts
<1> HIDE DEF w
<1>5. /\ a \in Seq(Step) /\ DOMAIN a = DOMAIN r.add
      /\ \A k \in DOMAIN a : a[k].id = r.add[k].id /\ a[k].attempts = 0
  <2>1. Len(r.add) \in Nat /\ DOMAIN r.add = 1..Len(r.add)
        /\ \A k \in DOMAIN r.add : r.add[k] \in Draft
    BY <1>1, PlanIsFunction
  <2>2. ASSUME NEW d \in Draft
        PROVE  Defaulted(d) \in Step /\ Defaulted(d).id = d.id /\ Defaulted(d).attempts = 0
    BY PlanAssumption DEF Defaulted, Draft, Step, Status
  <2>3. a \in [1..Len(r.add) -> Step]
    BY <2>1, <2>2
  <2> QED BY <2>1, <2>2, <2>3
<1> HIDE DEF a
<1>6. /\ q \in Seq(Step)
      /\ Len(q) = Len(w) + Len(a)
      /\ \A j \in 1..Len(q) : q[j] = IF j <= Len(w) THEN w[j] ELSE a[j - Len(w)]
  BY <1>3, <1>4, <1>5, ConcatProperties
<1> HIDE DEF q
<1>7. /\ Len(w) \in Nat /\ DOMAIN w = 1..Len(w)
      /\ Len(a) \in Nat /\ DOMAIN a = 1..Len(a)
      /\ Len(q) \in Nat /\ DOMAIN q = 1..Len(q)
  BY <1>4, <1>5, <1>6, PlanIsFunction
<1>8. \A j \in DOMAIN w : j \in DOMAIN q /\ q[j] = w[j]
  BY <1>6, <1>7
<1>9. ASSUME NEW k \in DOMAIN u, IsFirst(u, k)
      PROVE  IsFirst(p, k)
  BY <1>2, <1>9, FirstIs
<1>10. ASSUME NEW i \in DOMAIN p, p[i].id \notin r.remove
       PROVE  \E j \in DOMAIN w : w[j].id = p[i].id
  <2>1. Indexes(w, u[i].id) # {} /\ u[i].id = p[i].id
    BY <1>2, <1>4, <1>10
  <2> QED BY <2>1 DEF Indexes
<1>11. ASSUME NEW j \in DOMAIN q, j <= Len(w)
       PROVE  Stays(p, r, q, j)
  <2>1. j \in DOMAIN w /\ q[j] = w[j]
    BY <1>7, <1>8, <1>11
  <2>2. PICK i \in DOMAIN u :
          /\ w[j] = u[i] /\ u[i].id \notin r.remove
          /\ IsFirst(w, j) => IsFirst(u, i)
    BY <1>4, <2>1
  <2>3. IsFirst(q, j) => IsFirst(w, j)
    <3> SUFFICES ASSUME IsFirst(q, j), NEW k \in DOMAIN w, w[k].id = w[j].id
                 PROVE  j <= k
      BY <1>4, <2>1, FirstIs
    <3> QED BY <1>6, <1>8, <2>1, FirstIs
  <2>4. i \in DOMAIN p
    BY <1>2
  <2> QED BY <1>2, <1>9, <2>1, <2>2, <2>3, <2>4 DEF Stays
<1>12. ASSUME NEW j \in DOMAIN q, ~(j <= Len(w))
       PROVE  IsAdded(p, r, q, j)
  <2> DEFINE k == j - Len(w)
  <2>1. k \in DOMAIN a /\ q[j] = a[k]
    BY <1>6, <1>7, <1>12
  <2> HIDE DEF k
  <2>2. ASSUME IsFirst(q, j), NEW i \in DOMAIN p, p[i].id = q[j].id, q[j].id \notin r.remove
        PROVE  FALSE
    <3>1. PICK l \in DOMAIN w : w[l].id = q[j].id
      BY <1>10, <2>2
    <3>2. j <= l
      BY <1>6, <1>8, <2>2, <3>1, FirstIs
    <3> QED BY <1>7, <1>12, <3>1, <3>2
  <2>3. IsFirst(q, j) => q[j].id \in r.remove \/ Indexes(p, q[j].id) = {}
    BY <2>2 DEF Indexes
  <2> QED BY <1>5, <2>1, <2>3 DEF IsAdded
<1>13. ASSUME NEW i \in DOMAIN p, p[i].id \notin r.remove
       PROVE  Indexes(q, p[i].id) # {}
  <2>1. PICK j \in DOMAIN w : w[j].id = p[i].id
    BY <1>10, <1>13
  <2> QED BY <1>8, <2>1 DEF Indexes
<1> QED
  BY <1>6, <1>11, <1>12, <1>13 DEF q, IsRevision

-----------------------------------------------------------------------------
(* The invariant.                                                          *)

\* No plan is stored at first, and nobody is at work.
LEMMA InitIInv ==
  Init => IInv
<1> SUFFICES ASSUME Init PROVE IInv
  OBVIOUS
<1>1. TypeInv
  BY PlanAssumption DEF Init, TypeInv
<1> QED
  BY <1>1 DEF Init, IInv, HandInv, MutexInv, SnapInv, CountInv, AttemptsCounted,
              Actor

\* A writer writes a plan, whoever it is.
LEMMA WrittenType ==
  ASSUME TypeInv, HandInv
  PROVE  /\ \A h \in Host : pc[h] = "write" =>
              Recorded(snap[h], held[h], verdict[h]) \in Seq(Step)
         /\ pc[Editor] = "write" => Revised(snap[Editor], revision) \in Seq(Step)
<1>1. ASSUME NEW h \in Host, pc[h] = "write"
      PROVE  Recorded(snap[h], held[h], verdict[h]) \in Seq(Step)
  <2>1. /\ snap[h] \in Seq(Step) /\ held[h] \in Id
        /\ verdict[h] \in {"done", "failed"} /\ Indexes(snap[h], held[h]) # {}
    BY <1>1 DEF TypeInv, HandInv, Actor
  <2> QED BY <2>1, RecordedFacts
<1>2. ASSUME pc[Editor] = "write"
      PROVE  Revised(snap[Editor], revision) \in Seq(Step)
  <2>1. snap[Editor] \in Seq(Step) /\ revision \in Revisions
    BY <1>2 DEF TypeInv, HandInv, Actor
  <2> QED BY <2>1, RevisedFacts DEF IsRevision
<1> QED
  BY <1>1, <1>2

\* What the planner returns is a plan no step of which has been tried.
LEMMA EstablishedFacts ==
  ASSUME NEW p \in Plans
  PROVE  LET q == [i \in DOMAIN p |-> Defaulted(p[i])] IN
         /\ q \in Seq(Step)
         /\ \A i \in DOMAIN q : q[i].attempts = 0
<1> DEFINE q == [i \in DOMAIN p |-> Defaulted(p[i])]
<1>1. /\ Len(p) \in Nat /\ DOMAIN p = 1..Len(p)
      /\ \A i \in DOMAIN p : p[i] \in Draft
  <2>1. p \in Seq(Draft)
    BY PlanAssumption
  <2> QED BY <2>1, PlanIsFunction
<1>2. ASSUME NEW d \in Draft
      PROVE  Defaulted(d) \in Step /\ Defaulted(d).attempts = 0
  BY PlanAssumption DEF Defaulted, Draft, Step, Status
<1>3. q \in [1..Len(p) -> Step]
  BY <1>1, <1>2
<1> QED
  BY <1>1, <1>2, <1>3

\* The next offer is the id of a step that is runnable.
LEMMA OfferFacts ==
  ASSUME NEW p \in Seq(Step), Offer(p) # None
  PROVE  \E i \in DOMAIN p : runnable(p[i]) /\ Offer(p) = p[i].id /\ Offer(p) \in Id
<1>1. Offerable(p) # {} /\ Offer(p) = p[Min(Offerable(p))].id
  BY DEF Offer
<1>2. Offerable(p) \subseteq Nat
  BY PlanIsFunction DEF Offerable
<1>3. Min(Offerable(p)) \in Offerable(p)
  BY <1>1, <1>2, MinOfNonEmpty
<1>4. Min(Offerable(p)) \in DOMAIN p /\ runnable(p[Min(Offerable(p))])
  BY <1>3 DEF Offerable
<1>5. p[Min(Offerable(p))].id \in Id
  <2>1. p[Min(Offerable(p))] \in Step
    BY <1>4, PlanIsFunction
  <2> QED BY <2>1 DEF Step
<1> QED
  BY <1>1, <1>4, <1>5

\* Every step keeps the types.
LEMMA TypePreserved ==
  ASSUME TypeInv, HandInv, [Next]_vars
  PROVE  TypeInv'
<1>1. CASE UNCHANGED vars
  BY <1>1 DEF vars, TypeInv
<1>2. ASSUME NEW p \in Plans, Establish(p) PROVE TypeInv'
  <2>1. [i \in DOMAIN p |-> Defaulted(p[i])] \in Seq(Step)
    BY EstablishedFacts
  <2> QED BY <1>2, <2>1 DEF Establish, TypeInv
<1>3. ASSUME NEW h \in Host, PlanNext(h) PROVE TypeInv'
  <2>1. Offer(plan) \in Id
    BY <1>3, OfferFacts DEF PlanNext, TypeInv
  <2> QED BY <1>3, <2>1 DEF PlanNext, Goto, TypeInv, Actor
<1>4. ASSUME NEW h \in Host, NEW v \in {"done", "failed"}, Dispatched(h, v)
      PROVE  TypeInv'
  BY <1>4 DEF Dispatched, Goto, TypeInv, Actor
<1>5. ASSUME NEW h \in Host, RecordRead(h) PROVE TypeInv'
  <2>1. /\ UNCHANGED <<via, plan, revision, fails, revisions, plans>>
        /\ \E place \in {"idle", "write"} : pc' = [pc EXCEPT ![h] = place]
        /\ h \in Actor
    BY <1>5 DEF RecordRead, Goto, Actor
  <2>2. CASE /\ held' = [held EXCEPT ![h] = None] /\ verdict' = [verdict EXCEPT ![h] = None]
             /\ UNCHANGED <<mu, snap>>
    BY <2>1, <2>2 DEF TypeInv
  <2>3. CASE /\ mu' = [mu EXCEPT ![via[h]] = h] /\ snap' = [snap EXCEPT ![h] = plan]
             /\ UNCHANGED <<held, verdict>>
    BY <2>1, <2>3 DEF TypeInv
  <2> QED BY <1>5, <2>2, <2>3 DEF RecordRead, Lock
<1>6. ASSUME NEW h \in Host, RecordWrite(h) PROVE TypeInv'
  <2>1. plan' \in Seq(Step)
    BY <1>6, WrittenType DEF RecordWrite, Goto
  <2>2. fails' \in [Id -> Nat]
    <3>1. \/ fails' = [fails EXCEPT ![held[h]] = @ + 1]
          \/ fails' = [fails EXCEPT ![held[h]] = @]
      BY <1>6, Zenon DEF RecordWrite
    <3> QED BY <3>1 DEF TypeInv
  <2> QED BY <1>6, <2>1, <2>2 DEF RecordWrite, Release, Goto, TypeInv, Actor
<1>7. ASSUME NEW h \in Host, RecordFails(h) PROVE TypeInv'
  BY <1>7 DEF RecordFails, Release, Goto, TypeInv, Actor
<1>8. ASSUME NEW r \in Revisions, ReviseRead(r) PROVE TypeInv'
  BY <1>8 DEF ReviseRead, Lock, Goto, TypeInv, Actor
<1>9. CASE ReviseWrite
  <2>1. plan' \in Seq(Step)
    BY <1>9, WrittenType DEF ReviseWrite, Goto
  <2>2. fails' \in [Id -> Nat]
    BY <1>9 DEF ReviseWrite, TypeInv
  <2> QED BY <1>9, <2>1, <2>2 DEF ReviseWrite, Release, Goto, TypeInv, Actor
<1>10. CASE ReviseFails
  BY <1>10 DEF ReviseFails, Release, Goto, TypeInv, Actor
<1>11. ASSUME NEW s \in Server, Crash(s) PROVE TypeInv'
  BY <1>11 DEF Crash, TypeInv, Actor
<1> QED
  BY <1>1, <1>2, <1>3, <1>4, <1>5, <1>6, <1>7, <1>8, <1>9, <1>10, <1>11
     DEF Next, HostStep

\* Every step leaves an actor with what it needs to go on.
LEMMA HandPreserved ==
  ASSUME TypeInv, HandInv, [Next]_vars
  PROVE  HandInv'
<1> USE DEF Actor
<1>1. CASE UNCHANGED vars
  BY <1>1 DEF vars, HandInv, Indexes
<1>2. ASSUME NEW p \in Plans, Establish(p) PROVE HandInv'
  <2>1. [i \in DOMAIN p |-> Defaulted(p[i])] \in Seq(Step)
    BY EstablishedFacts
  <2> QED BY <1>2, <2>1 DEF Establish, HandInv, Indexes
<1>3. ASSUME NEW h \in Host, PlanNext(h) PROVE HandInv'
  <2>1. plan \in Seq(Step) /\ Offer(plan) \in Id
    BY <1>3, OfferFacts DEF PlanNext, TypeInv
  <2> QED BY <1>3, <2>1, PlanAssumption DEF PlanNext, Goto, TypeInv, HandInv, Indexes
<1>4. ASSUME NEW h \in Host, NEW v \in {"done", "failed"}, Dispatched(h, v)
      PROVE  HandInv'
  BY <1>4, PlanAssumption DEF Dispatched, Goto, TypeInv, HandInv, Indexes
<1>5. ASSUME NEW h \in Host, RecordRead(h) PROVE HandInv'
  <2>1. CASE Indexes(plan, held[h]) = {}
    <3>1. /\ pc' = [pc EXCEPT ![h] = "idle"] /\ held' = [held EXCEPT ![h] = None]
          /\ verdict' = [verdict EXCEPT ![h] = None]
          /\ UNCHANGED <<plan, snap, revision, revisions>>
      BY <1>5, <2>1 DEF RecordRead, Goto
    <3>2. /\ pc'[h] = "idle" /\ pc'[Editor] = pc[Editor]
          /\ \A x \in Host \ {h} : pc'[x] = pc[x] /\ held'[x] = held[x] /\ verdict'[x] = verdict[x]
      BY <3>1, PlanAssumption DEF TypeInv
    <3> QED BY <3>1, <3>2 DEF HandInv, Indexes
  <2>2. CASE Indexes(plan, held[h]) # {}
    <3>1. /\ pc[h] = "report" /\ pc' = [pc EXCEPT ![h] = "write"]
          /\ snap' = [snap EXCEPT ![h] = plan]
          /\ UNCHANGED <<plan, held, verdict, revision, revisions>>
      BY <1>5, <2>2 DEF RecordRead, Goto
    <3>2. ASSUME NEW g \in Host
          PROVE  /\ pc'[g] # "idle" => plan' \in Seq(Step) /\ held'[g] \in Id
                 /\ pc'[g] \in {"report", "write"} => verdict'[g] \in {"done", "failed"}
                 /\ pc'[g] = "write" =>
                      snap'[g] \in Seq(Step) /\ Indexes(snap'[g], held'[g]) # {}
      <4>1. CASE g = h
        BY <2>2, <3>1, <4>1 DEF TypeInv, HandInv
      <4>2. CASE g # h
        BY <3>1, <4>2 DEF TypeInv, HandInv
      <4> QED BY <4>1, <4>2
    <3>3. /\ pc'[Editor] = pc[Editor] /\ snap'[Editor] = snap[Editor]
      BY <3>1, PlanAssumption DEF TypeInv
    <3> QED BY <3>1, <3>2, <3>3 DEF HandInv
  <2> QED BY <2>1, <2>2
<1>6. ASSUME NEW h \in Host, RecordWrite(h) PROVE HandInv'
  <2>1. plan' \in Seq(Step)
    BY <1>6, WrittenType DEF RecordWrite, Goto
  <2> QED
    BY <1>6, <2>1, PlanAssumption DEF RecordWrite, Release, Goto, TypeInv, HandInv,
       Indexes
<1>7. ASSUME NEW h \in Host, RecordFails(h) PROVE HandInv'
  BY <1>7, PlanAssumption DEF RecordFails, Release, Goto, TypeInv, HandInv, Indexes
<1>8. ASSUME NEW r \in Revisions, ReviseRead(r) PROVE HandInv'
  BY <1>8, PlanAssumption DEF ReviseRead, Lock, Goto, TypeInv, HandInv, Indexes
<1>9. CASE ReviseWrite
  <2>1. plan' \in Seq(Step)
    BY <1>9, WrittenType DEF ReviseWrite, Goto
  <2> QED
    BY <1>9, <2>1, PlanAssumption DEF ReviseWrite, Release, Goto, TypeInv, HandInv,
       Indexes
<1>10. CASE ReviseFails
  BY <1>10, PlanAssumption DEF ReviseFails, Release, Goto, TypeInv, HandInv, Indexes
<1>11. ASSUME NEW s \in Server, Crash(s) PROVE HandInv'
  BY <1>11 DEF Crash, TypeInv, HandInv, Indexes
<1> QED
  BY <1>1, <1>2, <1>3, <1>4, <1>5, <1>6, <1>7, <1>8, <1>9, <1>10, <1>11
     DEF Next, HostStep

\* The mutex is taken by whoever is to write, given back by nobody else, and
\* void when its server dies.
LEMMA MutexPreserved ==
  ASSUME TypeInv, HandInv, MutexInv, [Next]_vars
  PROVE  MutexInv'
<1> USE PlanAssumption DEF Actor, Free, Lock, Release, Goto, TypeInv, MutexInv
<1>1. CASE UNCHANGED vars
  BY <1>1 DEF vars
<1>2. ASSUME NEW p \in Plans, Establish(p) PROVE MutexInv'
  BY <1>2 DEF Establish
<1>3. ASSUME NEW h \in Host, PlanNext(h) PROVE MutexInv'
  BY <1>3 DEF PlanNext
<1>4. ASSUME NEW h \in Host, NEW v \in {"done", "failed"}, Dispatched(h, v)
      PROVE  MutexInv'
  BY <1>4 DEF Dispatched
<1>5. ASSUME NEW h \in Host, RecordRead(h) PROVE MutexInv'
  BY <1>5 DEF RecordRead
<1>6. ASSUME NEW h \in Host, RecordWrite(h) PROVE MutexInv'
  BY <1>6 DEF RecordWrite
<1>7. ASSUME NEW h \in Host, RecordFails(h) PROVE MutexInv'
  BY <1>7 DEF RecordFails
<1>8. ASSUME NEW r \in Revisions, ReviseRead(r) PROVE MutexInv'
  BY <1>8 DEF ReviseRead
<1>9. CASE ReviseWrite
  BY <1>9 DEF ReviseWrite
<1>10. CASE ReviseFails
  BY <1>10 DEF ReviseFails
<1>11. ASSUME NEW s \in Server, Crash(s) PROVE MutexInv'
  BY <1>11 DEF Crash
<1> QED
  BY <1>1, <1>2, <1>3, <1>4, <1>5, <1>6, <1>7, <1>8, <1>9, <1>10, <1>11
     DEF Next, HostStep

\* Nobody changes who is connected where.
LEMMA SameServer ==
  ASSUME [Next]_vars
  PROVE  via' = via /\ (OneServer' <=> OneServer)
<1>1. via' = via
  BY DEF Next, HostStep, vars, Establish, PlanNext, Dispatched, RecordRead,
         RecordWrite, RecordFails, ReviseRead, ReviseWrite, ReviseFails, Crash
<1> QED
  BY <1>1 DEF OneServer

\* On one server only one actor at a time is about to write, and nobody changes
\* the plan meanwhile.
LEMMA SnapPreserved ==
  ASSUME TypeInv, HandInv, MutexInv, SnapInv, [Next]_vars
  PROVE  SnapInv'
<1> SUFFICES ASSUME OneServer, NEW a \in Actor, pc'[a] = "write"
             PROVE  snap'[a] = plan'
  BY SameServer DEF SnapInv
<1>1. \A b, c \in Actor : via[b] = via[c]
  BY DEF OneServer
<1>2. \A b \in Actor : pc[b] = "write" => mu[via[b]] = b /\ snap[b] = plan
  BY DEF MutexInv, SnapInv
<1>3. \A b \in Actor : Free(b) => \A c \in Actor : pc[c] # "write"
  BY <1>1, <1>2, PlanAssumption DEF Free
<1>4. \A b, c \in Actor : pc[b] = "write" /\ pc[c] = "write" => b = c
  BY <1>1, <1>2
<1>5. Editor \in Actor /\ Host \subseteq Actor /\ Editor \notin Host
  BY PlanAssumption DEF Actor
<1> USE <1>2, <1>3, <1>4, <1>5 DEF TypeInv
<1>6. CASE UNCHANGED vars
  BY <1>6 DEF vars
<1>7. ASSUME NEW p \in Plans, Establish(p) PROVE snap'[a] = plan'
  BY <1>7 DEF Establish
<1>8. ASSUME NEW h \in Host, PlanNext(h) \/ (\E v \in {"done", "failed"} : Dispatched(h, v))
      PROVE  snap'[a] = plan'
  BY <1>8 DEF PlanNext, Dispatched, Goto
<1>9. ASSUME NEW h \in Host, RecordRead(h) PROVE snap'[a] = plan'
  BY <1>9 DEF RecordRead, Goto
<1>10. ASSUME NEW h \in Host, RecordWrite(h) \/ RecordFails(h) PROVE snap'[a] = plan'
  BY <1>10 DEF RecordWrite, RecordFails, Release, Goto
<1>11. ASSUME NEW r \in Revisions, ReviseRead(r) PROVE snap'[a] = plan'
  BY <1>11 DEF ReviseRead, Goto
<1>12. CASE ReviseWrite \/ ReviseFails
  BY <1>12 DEF ReviseWrite, ReviseFails, Release, Goto
<1>13. ASSUME NEW s \in Server, Crash(s) PROVE snap'[a] = plan'
  BY <1>13 DEF Crash
<1> QED
  BY <1>6, <1>7, <1>8, <1>9, <1>10, <1>11, <1>12, <1>13 DEF Next, HostStep

\* A failure that is recorded is counted in the plan and in the history alike,
\* a revision forgets both, and nothing else touches either.
LEMMA CountPreserved ==
  ASSUME TypeInv, HandInv, SnapInv, CountInv, [Next]_vars
  PROVE  CountInv'
<1> SUFFICES ASSUME OneServer
             PROVE  /\ plan' # None => \A i \in DOMAIN plan' :
                         IsFirst(plan', i) => plan'[i].attempts = fails'[plan'[i].id]
                    /\ \A id \in Id :
                         fails'[id] > 0 => plan' \in Seq(Step) /\ Indexes(plan', id) # {}
  BY SameServer DEF CountInv, AttemptsCounted
<1>0. /\ plan # None => \A i \in DOMAIN plan :
            IsFirst(plan, i) => plan[i].attempts = fails[plan[i].id]
      /\ \A id \in Id : fails[id] > 0 => plan \in Seq(Step) /\ Indexes(plan, id) # {}
  BY DEF CountInv, AttemptsCounted
<1>1. CASE UNCHANGED <<plan, fails>>
  BY <1>0, <1>1 DEF IsFirst, Indexes
<1>2. ASSUME NEW p \in Plans, Establish(p), ~UNCHANGED <<plan, fails>>
      PROVE  /\ plan' # None => \A i \in DOMAIN plan' :
                  IsFirst(plan', i) => plan'[i].attempts = fails'[plan'[i].id]
             /\ \A id \in Id : ~(fails'[id] > 0)
  <2>1. plan' = [i \in DOMAIN p |-> Defaulted(p[i])] /\ fails' = [id \in Id |-> 0]
    BY <1>2 DEF Establish
  <2>2. plan' \in Seq(Step) /\ \A i \in DOMAIN plan' : plan'[i].attempts = 0
    BY <2>1, EstablishedFacts
  <2>3. \A i \in DOMAIN plan' : plan'[i].id \in Id
    BY <2>2, IdsType
  <2> QED BY <2>1, <2>2, <2>3
<1>3. ASSUME NEW h \in Host, RecordWrite(h)
      PROVE  /\ \A i \in DOMAIN plan' :
                  IsFirst(plan', i) => plan'[i].attempts = fails'[plan'[i].id]
             /\ \A id \in Id :
                  fails'[id] > 0 => plan' \in Seq(Step) /\ Indexes(plan', id) # {}
  <2> DEFINE m == Min(Indexes(plan, held[h]))
             v == verdict[h]
  <2>1. /\ snap[h] = plan /\ plan \in Seq(Step) /\ held[h] \in Id
        /\ v \in {"done", "failed"} /\ Indexes(plan, held[h]) # {}
    BY <1>3 DEF RecordWrite, Goto, HandInv, SnapInv, Actor
  <2>2. /\ plan' = Recorded(plan, held[h], v)
        /\ fails' = [fails EXCEPT ![held[h]] = IF v = "failed" THEN @ + 1 ELSE @]
    BY <1>3, <2>1 DEF RecordWrite
  <2>3. /\ plan' \in Seq(Step) /\ DOMAIN plan' = DOMAIN plan
        /\ \A i \in DOMAIN plan : plan'[i].id = plan[i].id /\ (i # m => plan'[i] = plan[i])
        /\ plan'[m].attempts = IF v = "failed" THEN plan[m].attempts + 1 ELSE plan[m].attempts
    BY <2>1, <2>2, RecordedFacts
  <2>4. m \in DOMAIN plan /\ plan[m].id = held[h]
    BY <2>1, FirstIndex
  <2>5. \A id : Indexes(plan', id) = Indexes(plan, id)
    BY <2>3 DEF Indexes
  <2> HIDE DEF m, v
  <2>6. \A i \in DOMAIN plan : IsFirst(plan', i) => IsFirst(plan, i)
    BY <2>3, <2>5 DEF IsFirst
  <2>7. IsFirst(plan, m)
    BY <2>4 DEF IsFirst, m
  <2>8. plan # None
    BY <2>1, PlanAssumption
  <2>9. ASSUME NEW i \in DOMAIN plan', IsFirst(plan', i)
        PROVE  plan'[i].attempts = fails'[plan'[i].id]
    <3>1. plan[i].attempts = fails[plan[i].id] /\ plan'[i].id = plan[i].id
      BY <1>0, <2>3, <2>6, <2>8, <2>9
    <3>2. plan[i].id \in Id /\ i \in DOMAIN plan
      BY <2>1, <2>3, <2>9, IdsType
    <3>3. CASE i = m
      BY <2>1, <2>2, <2>3, <2>4, <3>1, <3>2, <3>3 DEF TypeInv
    <3>4. CASE i # m
      <4>1. plan[i].id # held[h]
        BY <2>4, <2>6, <2>9, <3>2, <3>4 DEF IsFirst, m
      <4> QED BY <2>2, <2>3, <3>1, <3>2, <3>4, <4>1 DEF TypeInv
    <3> QED BY <3>3, <3>4
  <2>10. ASSUME NEW id \in Id, fails'[id] > 0
         PROVE  plan' \in Seq(Step) /\ Indexes(plan', id) # {}
    <3>1. CASE id = held[h]
      BY <2>1, <2>3, <2>5, <3>1
    <3>2. CASE id # held[h]
      BY <1>0, <2>2, <2>3, <2>5, <2>10, <3>2 DEF TypeInv
    <3> QED BY <3>1, <3>2
  <2> QED BY <2>9, <2>10
<1>4. CASE ReviseWrite
  <2>1. /\ snap[Editor] = plan /\ plan \in Seq(Step) /\ revision \in Revisions
        /\ plan' = Revised(plan, revision)
        /\ fails' = [id \in Id |-> IF id \in revision.remove THEN 0 ELSE fails[id]]
    BY <1>4 DEF ReviseWrite, Goto, HandInv, SnapInv, Actor
  <2>2. IsRevision(plan, revision, plan')
    BY <2>1, RevisedFacts
  <2>3. \A j \in DOMAIN plan' : plan'[j].id \in Id
    BY <2>2, IdsType DEF IsRevision
  <2>4. plan # None
    BY <2>1, PlanAssumption
  <2>5. ASSUME NEW j \in DOMAIN plan', IsFirst(plan', j)
        PROVE  plan'[j].attempts = fails'[plan'[j].id]
    <3>1. CASE Stays(plan, revision, plan', j)
      BY <1>0, <2>1, <2>3, <2>4, <2>5, <3>1 DEF Stays
    <3>2. CASE IsAdded(plan, revision, plan', j)
      <4>1. ~(fails'[plan'[j].id] > 0) /\ plan'[j].attempts = 0
        BY <1>0, <2>1, <2>3, <2>5, <3>2 DEF IsAdded
      <4>2. fails'[plan'[j].id] \in Nat
        BY <2>1, <2>3 DEF TypeInv
      <4> QED BY <4>1, <4>2
    <3> QED BY <2>2, <3>1, <3>2 DEF IsRevision
  <2>6. ASSUME NEW id \in Id, fails'[id] > 0
        PROVE  plan' \in Seq(Step) /\ Indexes(plan', id) # {}
    <3>1. id \notin revision.remove /\ fails[id] > 0
      BY <2>1, <2>6
    <3>2. PICK i \in DOMAIN plan : plan[i].id = id
      BY <1>0, <3>1 DEF Indexes
    <3> QED BY <2>2, <3>1, <3>2 DEF IsRevision
  <2> QED BY <2>5, <2>6
<1>5. CASE \/ \E h \in Host : \/ PlanNext(h) \/ RecordRead(h) \/ RecordFails(h)
                              \/ \E v \in {"done", "failed"} : Dispatched(h, v)
           \/ \E r \in Revisions : ReviseRead(r)
           \/ ReviseFails
           \/ \E s \in Server : Crash(s)
           \/ UNCHANGED vars
  <2>1. UNCHANGED <<plan, fails>>
    BY <1>5 DEF PlanNext, RecordRead, RecordFails, Dispatched, ReviseRead,
                ReviseFails, Crash, vars
  <2> QED BY <1>1, <2>1
<1> QED
  BY <1>1, <1>2, <1>3, <1>4, <1>5 DEF Next, HostStep

\* Every step keeps the invariant.
LEMMA Inductive ==
  IInv /\ [Next]_vars => IInv'
<1> QED
  BY TypePreserved, HandPreserved, MutexPreserved, SnapPreserved, CountPreserved
     DEF IInv

\* The invariant holds throughout.
LEMMA Always == Spec => []IInv
<1> QED
  BY InitIInv, Inductive, PTL DEF Spec

\* plan.go:8-9, 195-197: on one server the attempts of a step are the failures
\* recorded of it, however records, revisions and crashes interleave.
THEOREM AttemptsExact == Spec => []AttemptsCounted
<1>1. IInv => AttemptsCounted
  BY DEF IInv, CountInv
<1> QED
  BY <1>1, Always, PTL

\* plan.go:225-231: on one server a step that was removed does not come back by
\* a record of it, but only with a revision or a plan that has its id.
THEOREM RemovedForGood == Spec => RemovedStaysRemoved
<1> DEFINE Back(id) ==
      OneServer /\ plan # None /\ Indexes(plan, id) = {} /\ Indexes(plan', id) # {} =>
        \/ plans' > plans
        \/ /\ revision # None
           /\ \E i \in DOMAIN revision.add : revision.add[i].id = id
<1>1. ASSUME IInv, [Next]_vars, NEW id \in Id PROVE Back(id)
  <2> SUFFICES ASSUME OneServer, plan # None, Indexes(plan, id) = {},
                      Indexes(plan', id) # {}
               PROVE  \/ plans' > plans
                      \/ /\ revision # None
                         /\ \E i \in DOMAIN revision.add : revision.add[i].id = id
    OBVIOUS
  <2>0. plan' # plan
    BY DEF Indexes
  <2>1. ASSUME NEW p \in Plans, Establish(p) PROVE plans' > plans
    BY <1>1, <2>1 DEF Establish, IInv, TypeInv
  <2>2. ASSUME NEW h \in Host, RecordWrite(h) PROVE FALSE
    <3>1. /\ snap[h] = plan /\ snap[h] \in Seq(Step) /\ held[h] \in Id
          /\ verdict[h] \in {"done", "failed"} /\ Indexes(snap[h], held[h]) # {}
      BY <1>1, <2>2 DEF RecordWrite, Goto, IInv, HandInv, SnapInv, Actor
    <3>2. DOMAIN plan' = DOMAIN plan /\ \A i \in DOMAIN plan : plan'[i].id = plan[i].id
      BY <2>2, <3>1, RecordedFacts DEF RecordWrite
    <3> QED BY <3>2 DEF Indexes
  <2>3. CASE ReviseWrite
    <3>1. snap[Editor] = plan /\ snap[Editor] \in Seq(Step) /\ revision \in Revisions
      BY <1>1, <2>3 DEF ReviseWrite, Goto, IInv, HandInv, SnapInv, Actor
    <3>2. IsRevision(plan, revision, plan')
      BY <2>3, <3>1, RevisedFacts DEF ReviseWrite
    <3>3. PICK j \in DOMAIN plan' : plan'[j].id = id
      BY DEF Indexes
    <3>4. IsAdded(plan, revision, plan', j)
      BY <3>2, <3>3 DEF IsRevision, Stays, Indexes
    <3>5. \E k \in DOMAIN revision.add : revision.add[k].id = id
      BY <3>3, <3>4 DEF IsAdded
    <3>6. revision # None
      BY <3>1, PlanAssumption
    <3> QED BY <3>5, <3>6
  <2> QED
    BY <1>1, <2>0, <2>1, <2>2, <2>3
       DEF Next, HostStep, vars, PlanNext, Dispatched, RecordRead, RecordFails,
           ReviseRead, ReviseFails, Crash
<1>2. IInv /\ [Next]_vars => [\A id \in Id : Back(id)]_vars
  BY <1>1
<1> QED
  BY <1>2, Always, PTL DEF Spec, RemovedStaysRemoved

\* plan.go:141-143: when there is nothing to offer although steps remain, a step
\* has failed for good, unless dependencies dangle or go in circles.
THEOREM BlockedHasFailed == Spec => []NullMeansBlocked
<1>1. ASSUME TypeInv PROVE NullMeansBlocked
  <2> SUFFICES ASSUME plan # None, Offer(plan) = None, Remaining(plan) > 0,
                      Closed(plan), Acyclic(plan)
               PROVE  \E i \in DOMAIN plan :
                        plan[i].status = "failed" /\ plan[i].attempts >= MaxAttempts
    BY DEF NullMeansBlocked
  <2> DEFINE S == {i \in DOMAIN plan : plan[i].status # "done"}
  <2>1. plan \in Seq(Step)
    BY <1>1 DEF TypeInv
  <2>2. S # {}
    BY FS_EmptySet DEF Remaining
  <2>3. PICK i \in S : \A d \in plan[i].deps : Indexes(plan, d) \cap S = {}
    BY <2>2 DEF Acyclic
  <2>4. i \in DOMAIN plan /\ plan[i] \in Step /\ plan[i].status # "done"
    BY <2>1, <2>3, PlanIsFunction
  <2>5. plan[i].deps \subseteq DoneIds(plan)
    <3> SUFFICES ASSUME NEW d \in plan[i].deps PROVE d \in DoneIds(plan)
      OBVIOUS
    <3>1. PICK k \in DOMAIN plan : plan[k].id = d /\ k \in Indexes(plan, d)
      BY <2>4 DEF Closed, Indexes
    <3>2. plan[k].status = "done"
      BY <2>3, <3>1
    <3> QED BY <3>1, <3>2 DEF DoneIds
  <2>6. Offerable(plan) = {}
    <3> SUFFICES ASSUME Offerable(plan) # {} PROVE FALSE
      OBVIOUS
    <3>1. Offerable(plan) \subseteq Nat
      BY <2>1, PlanIsFunction DEF Offerable
    <3>2. Min(Offerable(plan)) \in DOMAIN plan
      BY <3>1, MinOfNonEmpty DEF Offerable
    <3>3. plan[Min(Offerable(plan))].id \in Id
      BY <2>1, <3>2, IdsType
    <3> QED BY <3>3, PlanAssumption DEF Offer
  <2>7. ~runnable(plan[i])
    BY <2>4, <2>5, <2>6 DEF Offerable
  <2>8. plan[i].status = "failed" /\ ~(plan[i].attempts < MaxAttempts)
    BY <2>4, <2>7 DEF runnable, Step, Status
  <2>9. plan[i].attempts \in Nat /\ MaxAttempts \in Nat
    BY <2>4, PlanAssumption DEF Step
  <2> QED BY <2>4, <2>8, <2>9
<1>2. IInv => NullMeansBlocked
  BY <1>1 DEF IInv
<1> QED
  BY <1>2, Always, PTL
-----------------------------------------------------------------------------
(* The bound on attempts.                                                  *)

\* Hosts are finitely many, and so are the holders of a step; fewer hold it when
\* hosts only let go.
LEMMA HoldersFacts ==
  ASSUME NEW f, NEW g, NEW id, id # None, \A h \in Host : g[h] \in {f[h], None}
  PROVE  /\ Cardinality(Host) \in Nat
         /\ Cardinality(HoldersIn(f, id)) \in 0..Cardinality(Host)
         /\ Cardinality(HoldersIn(g, id)) \in 0..Cardinality(HoldersIn(f, id))
<1>1. /\ IsFiniteSet(HoldersIn(f, id))
      /\ Cardinality(HoldersIn(f, id)) <= Cardinality(Host)
  <2>1. HoldersIn(f, id) \in SUBSET Host
    BY DEF HoldersIn
  <2> QED BY <2>1, PlanAssumption, FS_Subset
<1>2. /\ IsFiniteSet(HoldersIn(g, id))
      /\ Cardinality(HoldersIn(g, id)) <= Cardinality(HoldersIn(f, id))
  <2>1. HoldersIn(g, id) \in SUBSET HoldersIn(f, id)
    BY DEF HoldersIn
  <2> QED BY <1>1, <2>1, FS_Subset
<1>3. /\ Cardinality(Host) \in Nat
      /\ Cardinality(HoldersIn(f, id)) \in Nat
      /\ Cardinality(HoldersIn(g, id)) \in Nat
  BY <1>1, <1>2, PlanAssumption, FS_CardinalityType
<1> QED
  BY <1>1, <1>2, <1>3

\* Of the holders of a step one is gone when it lets go.
LEMMA OneFewer ==
  ASSUME NEW f \in [Host -> {None} \cup Id], NEW h \in Host, NEW id \in Id, f[h] = id
  PROVE  Cardinality(HoldersIn([f EXCEPT ![h] = None], id)) + 1
           = Cardinality(HoldersIn(f, id))
<1> DEFINE g == [f EXCEPT ![h] = None]
<1>1. HoldersIn(g, id) = HoldersIn(f, id) \ {h}
  BY PlanAssumption DEF HoldersIn
<1>2. IsFiniteSet(HoldersIn(f, id)) /\ h \in HoldersIn(f, id)
  <2>1. HoldersIn(f, id) \in SUBSET Host /\ h \in HoldersIn(f, id)
    BY DEF HoldersIn
  <2> QED BY <2>1, PlanAssumption, FS_Subset
<1>3. Cardinality(HoldersIn(f, id)) \in Nat
  BY <1>2, FS_CardinalityType
<1>4. Cardinality(HoldersIn(g, id)) = Cardinality(HoldersIn(f, id)) - 1
  BY <1>1, <1>2, FS_RemoveElement
<1> QED
  BY <1>3, <1>4

\* An allowance is a number, and the next is larger by one failure of every host.
LEMMA AllowanceFacts ==
  ASSUME NEW e \in Nat
  PROVE  /\ Allowance(e) \in Nat /\ Allowance(e) >= MaxAttempts - 1
         /\ Allowance(e + 1) = Allowance(e) + Cardinality(Host)
<1> DEFINE c == Cardinality(Host)
<1>1. c \in Nat
  BY PlanAssumption, FS_CardinalityType
<1>2. MaxAttempts \in Nat \ {0}
  BY PlanAssumption
<1> HIDE DEF c
<1>3. c * e \in Nat /\ c * (e + 1) = c * e + c
  BY <1>1
<1> QED
  BY <1>1, <1>2, <1>3 DEF Allowance, c

\* Allowances grow with the revisions.
LEMMA AllowanceMonotone ==
  ASSUME NEW d \in Nat, NEW e \in Nat, d <= e
  PROVE  Allowance(d) <= Allowance(e)
<1> DEFINE c == Cardinality(Host)
<1>1. c \in Nat
  BY PlanAssumption, FS_CardinalityType
<1>2. PICK n \in Nat : e = d + n
  <2>1. e - d \in Nat /\ e = d + (e - d)
    OBVIOUS
  <2> QED BY <2>1
<1>3. MaxAttempts \in Nat \ {0}
  BY PlanAssumption
<1> HIDE DEF c
<1>4. c * d \in Nat /\ c * n \in Nat /\ c * e = c * d + c * n
  BY <1>1, <1>2
<1> QED
  BY <1>3, <1>4 DEF Allowance, c

\* There is still room when hosts let go and revisions pass.
LEMMA RoomStays ==
  ASSUME NEW p \in Seq(Step), NEW f, NEW g, NEW d \in Nat, NEW e \in Nat,
         Room(p, f, d), d <= e, \A h \in Host : g[h] \in {f[h], None}
  PROVE  Room(p, g, e)
<1> SUFFICES ASSUME NEW i \in DOMAIN p
             PROVE  /\ p[i].attempts + Cardinality(HoldersIn(g, p[i].id)) <= Allowance(e + 1)
                    /\ runnable(p[i]) => p[i].attempts <= Allowance(e)
  BY DEF Room
<1>1. p[i].attempts \in Nat /\ p[i].id # None
  <2>1. p[i] \in Step
    BY PlanIsFunction
  <2> QED BY <2>1, PlanAssumption DEF Step
<1>2. /\ Cardinality(HoldersIn(f, p[i].id)) \in Nat
      /\ Cardinality(HoldersIn(g, p[i].id)) \in 0..Cardinality(HoldersIn(f, p[i].id))
  BY <1>1, HoldersFacts
<1>3. /\ Allowance(d) \in Nat /\ Allowance(e) \in Nat /\ Allowance(d) <= Allowance(e)
      /\ Allowance(d + 1) \in Nat /\ Allowance(e + 1) \in Nat
      /\ Allowance(d + 1) <= Allowance(e + 1)
  <2>1. d + 1 \in Nat /\ e + 1 \in Nat /\ d + 1 <= e + 1
    OBVIOUS
  <2>2. Allowance(d) <= Allowance(e) /\ Allowance(d + 1) <= Allowance(e + 1)
    BY <2>1, AllowanceMonotone
  <2> QED BY <2>1, <2>2, AllowanceFacts
<1>4. /\ p[i].attempts + Cardinality(HoldersIn(f, p[i].id)) <= Allowance(d + 1)
      /\ runnable(p[i]) => p[i].attempts <= Allowance(d)
  BY DEF Room
<1>5. p[i].attempts + Cardinality(HoldersIn(g, p[i].id)) <= Allowance(e + 1)
  <2> DEFINE a == p[i].attempts
             m == Cardinality(HoldersIn(f, p[i].id))
             n == Cardinality(HoldersIn(g, p[i].id))
  <2>1. a \in Nat /\ m \in Nat /\ n \in 0..m
    BY <1>1, <1>2
  <2>2. a + m <= Allowance(d + 1)
    BY <1>4
  <2> HIDE DEF a, m, n
  <2>3. a + n <= Allowance(e + 1)
    BY <2>1, <2>2, <1>3
  <2> QED BY <2>3 DEF a, n
<1> QED BY <1>1, <1>3, <1>4, <1>5

\* A step with no more attempts than an allowance has room for one failure of
\* every host in the next.
LEMMA RoomForAll ==
  ASSUME NEW n \in Nat, NEW f, NEW id \in Id, NEW e \in Nat, n <= Allowance(e)
  PROVE  n + Cardinality(HoldersIn(f, id)) <= Allowance(e + 1)
<1>1. id # None
  BY PlanAssumption
<1>2. /\ Cardinality(Host) \in Nat
      /\ Cardinality(HoldersIn(f, id)) \in 0..Cardinality(Host)
  BY <1>1, HoldersFacts
<1> QED
  BY <1>2, AllowanceFacts

\* The settled revisions are a number that never falls, and no larger than all;
\* a revision that is written is one more.
LEMMA SettledFacts ==
  ASSUME IInv, [Next]_vars
  PROVE  /\ Settled \in Nat /\ Settled' \in Nat /\ Settled <= Settled'
         /\ Settled <= revisions
         /\ ReviseWrite => Settled' = Settled + 1
<1>1. IInv'
  BY Inductive
<1>2. revisions \in Nat /\ (pc[Editor] = "write" => revisions > 0)
      /\ revisions' \in Nat /\ (pc'[Editor] = "write" => revisions' > 0)
  BY <1>1 DEF IInv, TypeInv, HandInv, Actor
<1>3. /\ pc \in [Actor -> {"idle", "dispatch", "report", "write"}]
      /\ Editor \in Actor /\ Host \subseteq Actor /\ Editor \notin Host
  BY PlanAssumption DEF IInv, TypeInv, Actor
<1>4. \/ pc'[Editor] = pc[Editor] /\ revisions' = revisions
      \/ pc'[Editor] # "write" /\ revisions' = revisions
      \/ pc[Editor] # "write" /\ pc'[Editor] = "write" /\ revisions' = revisions + 1
  <2>1. ASSUME NEW h \in Host, HostStep(h)
        PROVE  pc'[Editor] = pc[Editor] /\ revisions' = revisions
    BY <1>3, <2>1 DEF HostStep, PlanNext, RecordRead, RecordWrite, RecordFails,
                      Dispatched, Goto
  <2>2. ASSUME NEW r \in Revisions, ReviseRead(r)
        PROVE  pc[Editor] # "write" /\ pc'[Editor] = "write" /\ revisions' = revisions + 1
    BY <1>3, <2>2 DEF ReviseRead, Goto
  <2>3. CASE ReviseWrite \/ ReviseFails
    BY <1>3, <2>3 DEF ReviseWrite, ReviseFails, Goto
  <2>4. ASSUME NEW s \in Server, Crash(s)
        PROVE  /\ pc'[Editor] = pc[Editor] \/ pc'[Editor] # "write"
               /\ revisions' = revisions
    BY <1>3, <2>4 DEF Crash
  <2>5. ASSUME NEW p \in Plans, Establish(p)
        PROVE  pc'[Editor] = pc[Editor] /\ revisions' = revisions
    BY <2>5 DEF Establish
  <2>6. CASE UNCHANGED vars
    BY <2>6 DEF vars
  <2> QED
    BY <2>1, <2>2, <2>3, <2>4, <2>5, <2>6 DEF Next
<1>5. ReviseWrite => /\ pc[Editor] = "write" /\ pc'[Editor] # "write"
                     /\ revisions' = revisions
  BY <1>3 DEF ReviseWrite, Goto
<1>6. /\ \/ pc[Editor] = "write" /\ Settled = revisions - 1
         \/ pc[Editor] # "write" /\ Settled = revisions
      /\ \/ pc'[Editor] = "write" /\ Settled' = revisions' - 1
         \/ pc'[Editor] # "write" /\ Settled' = revisions'
  BY Zenon DEF Settled
<1> QED
  BY <1>2, <1>4, <1>5, <1>6

\* A step uses up its room only when a host that holds it records a failure, and
\* gets holders only while it is runnable; a revision makes room again.
LEMMA BoundPreserved ==
  ASSUME IInv, BoundInv, DistinctIds, [Next]_vars
  PROVE  BoundInv'
<1> SUFFICES ASSUME OneServer, plan' # None
             PROVE  Room(plan', held', Settled')
  BY SameServer DEF BoundInv, Room, HoldersIn
<1>1. /\ Settled \in Nat /\ Settled' \in Nat /\ Settled <= Settled'
      /\ ReviseWrite => Settled' = Settled + 1
  BY SettledFacts
<1>2. plan' \in Seq(Step)
  BY Inductive DEF IInv, TypeInv
<1>3. held \in [Host -> {None} \cup Id]
  BY DEF IInv, TypeInv
<1>4. /\ Allowance(Settled + 1) \in Nat /\ Allowance(Settled' + 1) \in Nat
      /\ Allowance(Settled + 1) <= Allowance(Settled' + 1)
  <2>1. ASSUME NEW d \in Nat, NEW e \in Nat, d <= e
        PROVE  Allowance(d + 1) \in Nat /\ Allowance(d + 1) <= Allowance(e + 1)
    <3>1. d + 1 \in Nat /\ e + 1 \in Nat /\ d + 1 <= e + 1
      BY <2>1
    <3> QED BY <3>1, AllowanceFacts, AllowanceMonotone
  <2> QED BY <1>1, <2>1
<1>5. CASE plan' = plan /\ \A h \in Host : held'[h] \in {held[h], None}
  <2>1. Room(plan, held, Settled)
    BY <1>5 DEF BoundInv
  <2> QED BY <1>1, <1>2, <1>5, <2>1, RoomStays
<1>6. ASSUME NEW p \in Plans, Establish(p), plan' = [i \in DOMAIN p |-> Defaulted(p[i])]
      PROVE  Room(plan', held', Settled')
  <2> SUFFICES ASSUME NEW i \in DOMAIN plan'
               PROVE  /\ plan'[i].attempts + Cardinality(HoldersIn(held', plan'[i].id))
                           <= Allowance(Settled' + 1)
                      /\ plan'[i].attempts <= Allowance(Settled')
    BY DEF Room
  <2>1. plan'[i].attempts = 0 /\ plan'[i].id \in Id
    BY <1>2, <1>6, EstablishedFacts, IdsType
  <2>2. 0 <= Allowance(Settled') /\ 0 \in Nat
    BY <1>1, AllowanceFacts
  <2> QED BY <1>1, <2>1, <2>2, RoomForAll
<1>7. ASSUME NEW h \in Host, PlanNext(h)
      PROVE  Room(plan', held', Settled')
  <2>1. /\ plan' = plan /\ plan \in Seq(Step) /\ Offer(plan) # None
        /\ held' = [held EXCEPT ![h] = Offer(plan)]
    BY <1>2, <1>7 DEF PlanNext
  <2>2. Room(plan, held, Settled)
    BY <2>1 DEF BoundInv
  <2>3. PICK o \in DOMAIN plan :
          runnable(plan[o]) /\ Offer(plan) = plan[o].id
    BY <2>1, OfferFacts
  <2> SUFFICES ASSUME NEW i \in DOMAIN plan
               PROVE  /\ plan[i].attempts + Cardinality(HoldersIn(held', plan[i].id))
                           <= Allowance(Settled' + 1)
                      /\ runnable(plan[i]) => plan[i].attempts <= Allowance(Settled')
    BY <2>1 DEF Room
  <2>4. plan[i] \in Step /\ plan[i].attempts \in Nat /\ plan[i].id \in Id
    <3>1. plan[i] \in Step
      BY <2>1, PlanIsFunction
    <3> QED BY <3>1 DEF Step
  <2>5. /\ Allowance(Settled) \in Nat /\ Allowance(Settled') \in Nat
        /\ Allowance(Settled) <= Allowance(Settled')
    BY <1>1, AllowanceFacts, AllowanceMonotone
  <2>6. runnable(plan[i]) => plan[i].attempts <= Allowance(Settled)
    BY <2>2 DEF Room
  <2>7. CASE i = o
    <3>1. plan[i].attempts <= Allowance(Settled')
      BY <2>3, <2>4, <2>5, <2>6, <2>7
    <3> QED BY <1>1, <2>4, <3>1, RoomForAll
  <2>8. CASE i # o
    <3>1. plan[i].id # Offer(plan)
      BY <2>1, <2>3, <2>8 DEF DistinctIds
    <3>2. HoldersIn(held', plan[i].id) \subseteq HoldersIn(held, plan[i].id)
      BY <1>3, <2>1, <3>1 DEF HoldersIn
    <3>3. /\ Cardinality(HoldersIn(held, plan[i].id)) \in Nat
          /\ Cardinality(HoldersIn(held', plan[i].id)) \in Nat
          /\ Cardinality(HoldersIn(held', plan[i].id))
               <= Cardinality(HoldersIn(held, plan[i].id))
      <4>1. plan[i].id # None
        BY <2>4, PlanAssumption
      <4>2. IsFiniteSet(HoldersIn(held, plan[i].id))
        <5>1. HoldersIn(held, plan[i].id) \in SUBSET Host
          BY DEF HoldersIn
        <5> QED BY <5>1, PlanAssumption, FS_Subset
      <4>3. /\ IsFiniteSet(HoldersIn(held', plan[i].id))
            /\ Cardinality(HoldersIn(held', plan[i].id))
                 <= Cardinality(HoldersIn(held, plan[i].id))
        BY <3>2, <4>2, FS_Subset
      <4> QED BY <4>2, <4>3, FS_CardinalityType
    <3>4. plan[i].attempts + Cardinality(HoldersIn(held, plan[i].id))
            <= Allowance(Settled + 1)
      BY <2>2 DEF Room
    <3> QED BY <1>4, <2>4, <2>5, <2>6, <3>3, <3>4
  <2> QED BY <2>7, <2>8
<1>8. ASSUME NEW h \in Host, RecordWrite(h)
      PROVE  Room(plan', held', Settled')
  <2> DEFINE m == Min(Indexes(plan, held[h]))
             v == verdict[h]
  <2>1. /\ snap[h] = plan /\ plan \in Seq(Step) /\ held[h] \in Id
        /\ v \in {"done", "failed"} /\ Indexes(plan, held[h]) # {}
    BY <1>8 DEF RecordWrite, Goto, IInv, HandInv, SnapInv, Actor
  <2>2. /\ plan' = Recorded(plan, held[h], v)
        /\ held' = [held EXCEPT ![h] = None]
    BY <1>8, <2>1 DEF RecordWrite
  <2>3. /\ DOMAIN plan' = DOMAIN plan
        /\ \A i \in DOMAIN plan : plan'[i].id = plan[i].id /\ (i # m => plan'[i] = plan[i])
        /\ plan'[m].status = v
        /\ plan'[m].attempts = IF v = "failed" THEN plan[m].attempts + 1 ELSE plan[m].attempts
    BY <2>1, <2>2, RecordedFacts
  <2>4. m \in DOMAIN plan /\ plan[m].id = held[h]
    BY <2>1, FirstIndex
  <2> HIDE DEF m, v
  <2>5. Room(plan, held, Settled)
    BY <2>1, PlanAssumption DEF BoundInv
  <2>6. Room(plan, held', Settled')
    BY <1>1, <1>3, <2>1, <2>2, <2>5, RoomStays
  <2>7. ASSUME NEW i \in DOMAIN plan', i # m
        PROVE  /\ plan'[i].attempts + Cardinality(HoldersIn(held', plan'[i].id))
                    <= Allowance(Settled' + 1)
               /\ runnable(plan'[i]) => plan'[i].attempts <= Allowance(Settled')
    BY <2>3, <2>6, <2>7 DEF Room
  <2>8. plan[m] \in Step /\ plan[m].attempts \in Nat /\ plan'[m] \in Step
    <3>1. plan[m] \in Step /\ plan'[m] \in Step
      BY <1>2, <2>1, <2>3, <2>4, PlanIsFunction
    <3> QED BY <3>1 DEF Step
  <2>9. plan'[m].attempts + Cardinality(HoldersIn(held', plan'[m].id))
          <= Allowance(Settled' + 1)
    <3>1. plan[m].attempts + Cardinality(HoldersIn(held, held[h])) <= Allowance(Settled + 1)
      BY <2>4, <2>5 DEF Room
    <3>2. Cardinality(HoldersIn(held', held[h])) + 1 = Cardinality(HoldersIn(held, held[h]))
      BY <1>3, <2>1, <2>2, OneFewer
    <3>3. Cardinality(HoldersIn(held', held[h])) \in Nat
      BY <2>1, HoldersFacts, PlanAssumption
    <3>4. plan'[m].id = held[h] /\ plan'[m].attempts <= plan[m].attempts + 1
          /\ plan'[m].attempts \in Nat
      BY <2>3, <2>4, <2>8 DEF Step
    <3> QED BY <1>4, <2>8, <3>1, <3>2, <3>3, <3>4
  <2>10. runnable(plan'[m]) => plan'[m].attempts <= Allowance(Settled')
    <3>1. runnable(plan'[m]) => plan'[m].attempts < MaxAttempts
      BY <2>1, <2>3 DEF runnable
    <3>2. Allowance(Settled') >= MaxAttempts - 1 /\ Allowance(Settled') \in Nat
      BY <1>1, AllowanceFacts
    <3>3. MaxAttempts \in Nat /\ plan'[m].attempts \in Nat
      BY <2>8, PlanAssumption DEF Step
    <3> QED BY <3>1, <3>2, <3>3
  <2> QED BY <2>7, <2>9, <2>10 DEF Room
<1>9. CASE ReviseWrite
  <2>1. /\ snap[Editor] = plan /\ plan \in Seq(Step) /\ revision \in Revisions
        /\ plan' = Revised(plan, revision)
    BY <1>9 DEF ReviseWrite, Goto, IInv, HandInv, SnapInv, Actor
  <2>2. IsRevision(plan, revision, plan')
    BY <2>1, RevisedFacts
  <2>3. Room(plan, held, Settled)
    BY <2>1, PlanAssumption DEF BoundInv
  <2> SUFFICES ASSUME NEW j \in DOMAIN plan'
               PROVE  /\ plan'[j].attempts + Cardinality(HoldersIn(held', plan'[j].id))
                           <= Allowance(Settled' + 1)
                      /\ plan'[j].attempts <= Allowance(Settled')
    BY DEF Room
  <2>4. plan'[j].attempts \in Nat /\ plan'[j].id \in Id
    <3>1. plan'[j] \in Step
      BY <1>2, PlanIsFunction
    <3> QED BY <3>1 DEF Step
  <2>5. plan'[j].attempts <= Allowance(Settled')
    <3>1. CASE Stays(plan, revision, plan', j)
      <4>1. PICK i \in DOMAIN plan : plan'[j].attempts = plan[i].attempts
        BY <3>1 DEF Stays
      <4>2. plan[i].id # None
        BY <2>1, IdsType, PlanAssumption
      <4>3. Cardinality(HoldersIn(held, plan[i].id)) \in Nat
        BY <4>2, HoldersFacts
      <4>4. plan[i].attempts + Cardinality(HoldersIn(held, plan[i].id))
              <= Allowance(Settled + 1)
        BY <2>3 DEF Room
      <4>5. Allowance(Settled + 1) \in Nat
        BY <1>1, AllowanceFacts
      <4> QED BY <1>1, <1>9, <2>4, <4>1, <4>3, <4>4, <4>5
    <3>2. CASE IsAdded(plan, revision, plan', j)
      BY <1>1, <3>2, AllowanceFacts DEF IsAdded
    <3> QED BY <2>2, <3>1, <3>2 DEF IsRevision
  <2> QED BY <1>1, <2>4, <2>5, RoomForAll
<1> QED
  BY <1>3, <1>5, <1>6, <1>7, <1>8, <1>9
     DEF Next, HostStep, vars, Establish, Dispatched, RecordRead, RecordFails,
         ReviseRead, ReviseFails, Crash

\* plan.go:41-45: on one server, and in a plan whose ids are distinct, a failing
\* step is not tried for ever.
THEOREM AttemptsLimited == (Spec /\ []DistinctIds) => []AttemptsBounded
<1>1. ASSUME Init PROVE BoundInv
  BY <1>1 DEF Init, BoundInv
<1>2. IInv /\ BoundInv /\ DistinctIds /\ [Next]_vars => BoundInv'
  BY BoundPreserved
<1>3. ASSUME IInv, BoundInv PROVE AttemptsBounded
  <2> SUFFICES ASSUME OneServer, plan # None, NEW i \in DOMAIN plan
               PROVE  plan[i].attempts < MaxAttempts + Cardinality(Host) * (revisions + 1)
    BY DEF AttemptsBounded
  <2>1. plan \in Seq(Step)
    BY <1>3 DEF IInv, TypeInv
  <2>2. plan[i].attempts \in Nat /\ plan[i].id # None
    <3>1. plan[i] \in Step
      BY <2>1, PlanIsFunction
    <3> QED BY <3>1, PlanAssumption DEF Step
  <2>3. plan[i].attempts + Cardinality(HoldersIn(held, plan[i].id))
          <= Allowance(Settled + 1)
    BY <1>3 DEF BoundInv, Room
  <2>4. Cardinality(HoldersIn(held, plan[i].id)) \in Nat
    BY <2>2, HoldersFacts
  <2>5. /\ Settled + 1 \in Nat /\ revisions + 1 \in Nat /\ Settled + 1 <= revisions + 1
    BY <1>3 DEF IInv, TypeInv, HandInv, Settled, Actor
  <2>6. /\ Allowance(Settled + 1) \in Nat /\ Allowance(revisions + 1) \in Nat
        /\ Allowance(Settled + 1) <= Allowance(revisions + 1)
    BY <2>5, AllowanceFacts, AllowanceMonotone
  <2>7. plan[i].attempts <= Allowance(revisions + 1)
    BY <2>2, <2>3, <2>4, <2>6
  <2>8. /\ Cardinality(Host) * (revisions + 1) \in Nat /\ MaxAttempts \in Nat
    <3>1. Cardinality(Host) \in Nat
      BY PlanAssumption, FS_CardinalityType
    <3> QED BY <2>5, <3>1, PlanAssumption
  <2> QED
    BY <2>2, <2>6, <2>7, <2>8 DEF Allowance
<1> QED
  BY <1>1, <1>2, <1>3, InitIInv, Inductive, PTL DEF Spec
=============================================================================
