-------------------------- MODULE TaskStoreProofs --------------------------
(***************************************************************************)
(* Proofs about TaskStore, for any number of dispatches, agents and calls  *)
(* of compact.  As long as no key is issued twice no record is lost,       *)
(* whatever the caps, unless another dispatch's update names its key.  And *)
(* no key is issued twice provided that the caps leave room for the keys   *)
(* the dispatches have in hand and for the entries written in any one      *)
(* second, and that the agents name no keys but their own.                 *)
(***************************************************************************)
EXTENDS TaskStore, FiniteSetTheorems, WellFoundedInduction, TLAPS

\* What a dispatch can have in hand: its own key, and the key of an update.
Hands == (Slot \X {"key"}) \cup ({s \in Slot : MaxUpdates[s] > 0} \X {"target"})

\* The entries of the second of k, which its key orders, and not its age.
SameSecond(k) == {j \in Reals : entries[j].ts = entries[k].ts}

\* Of an entry's second there are so few that no cap falls short of them and of
\* what is in hand, the entry itself counted once.
CapCovers ==
  \A max \in HostMaxEntries \cup {MaxEntries}, k \in Reals :
    max > 0 => Cardinality(SameSecond(k)) + Cardinality(Hands) <= max + 1

-----------------------------------------------------------------------------

Owned == {key[s] : s \in {x \in Slot : pc[x] # "idle"}}
InHand == Owned \cup {target[s] : s \in {x \in Slot : pc[x] = "write"}}

TypeInv ==
  /\ Keys \subseteq Key
  /\ \A k \in Keys : entries[k].kind \in Kinds /\ entries[k].ts \in Nat
  /\ clock \in Nat
  /\ pc \in [Slot -> Steps]
  /\ key \in [Slot -> Key \cup {NoKey}]
  /\ target \in [Slot -> Key \cup {NoKey}]
  /\ updates \in [Slot -> Nat]
  /\ issued \in [Key -> Nat]
  /\ finished \subseteq Key
  /\ named \subseteq Key
  /\ \A s \in Slot : /\ pc[s] # "idle" => key[s] \in Key
                     /\ pc[s] = "write" =>
                          target[s] \in Key /\ MaxUpdates[s] > 0 /\ updates[s] > 0

\* The entries are of the past, and the keys were issued, or named by an agent
\* that had none of them.
IssuedInv ==
  /\ \A k \in Keys : entries[k].ts <= clock
  /\ \A k \in Owned \cup finished : issued[k] > 0
  /\ \A k \in (Keys \cup InHand) \ named : issued[k] > 0

\* No dispatch writes under the key of another, nor over its own record, but by
\* naming it.
HandInv ==
  \A s \in Slot :
    /\ pc[s] \in {"intent", "run", "write"} => key[s] \notin finished
    /\ pc[s] = "write" => target[s] \notin finished \ named
    /\ \A t \in Slot \ {s} : pc[s] # "idle" =>
         /\ pc[t] # "idle" => key[t] # key[s]
         /\ pc[t] = "write" => target[t] # key[s] \/ target[t] \in named

\* The latest key issued is live.  What is of a later second than its entry was
\* in hand when it was issued, and so is less than any cap.
Latest(k, H) ==
  /\ \A j \in Key : issued[j] > 0 => j.n <= k.n
  /\ k \in H /\ InHand \subseteq H
  /\ IsFiniteSet(H) /\ Cardinality(H) <= Cardinality(Hands)
  /\ k \in Reals => \A j \in Reals : entries[j].ts > entries[k].ts => j \in H

LatestInv ==
  (\E j \in Key : issued[j] > 0) => \E k \in Keys, H \in SUBSET Key : Latest(k, H)

\* The decision of an agent that runs is in its place, or folded, or named.
DecisionInv ==
  \A s \in Slot : pc[s] = "run" /\ updates[s] = 0 =>
    \/ key[s] \in Keys /\ entries[key[s]].kind = "intent"
    \/ [key |-> key[s], kind |-> "intent"] \in digest
    \/ key[s] \in named

\* What holds as long as no key is issued twice, ...
RecordsInv == TypeInv /\ IssuedInv /\ HandInv /\ NoResultLost /\ DecisionInv

\* ... and what keeps it so.
IInv == RecordsInv /\ KeysFresh /\ LatestInv /\ named = {}

-----------------------------------------------------------------------------

\* Any set of natural numbers has a least element.
LEMMA Least ==
  ASSUME NEW S, S \subseteq Nat, S # {}
  PROVE  \E x \in S : \A y \in S : x <= y
<1> DEFINE R == {p \in Nat \X Nat : p[1] < p[2]}
<1>1. IsWellFoundedOn(R, Nat)
  BY NatLessThanWellFounded DEF OpToRel
<1> HIDE DEF R
<1>2. PICK x \in S : \A y \in S : ~(<<y, x>> \in R)
  BY <1>1, WFMin
<1>3. ASSUME NEW y \in S PROVE x <= y
  <2>1. x \in Nat /\ y \in Nat
    OBVIOUS
  <2>2. ~(y < x)
    BY <2>1, <1>2 DEF R
  <2> QED BY <2>1, <2>2
<1> QED
  BY <1>3

\* Max finds the largest of numbers that are bounded.
LEMMA MaxOfBounded ==
  ASSUME NEW b \in Nat, NEW S, S \subseteq 0..b, S # {}
  PROVE  Max(S) \in S /\ \A y \in S : y <= Max(S)
<1> DEFINE D == {b - x : x \in S}
<1>1. D \subseteq Nat /\ D # {}
  <2>1. \A x \in S : b - x \in Nat
    OBVIOUS
  <2> QED BY <2>1
<1> HIDE DEF D
<1>2. PICK d \in D : \A e \in D : d <= e
  BY <1>1, Least
<1>3. PICK x \in S : d = b - x
  BY DEF D
<1>4. \A y \in S : b - x <= b - y
  BY <1>2, <1>3 DEF D
<1>5. \A y \in S : x >= y
  BY <1>4
<1>6. Max(S) \in S /\ \A y \in S : Max(S) >= y
  BY <1>5 DEF Max
<1>7. \A y \in S : y \in Nat
  OBVIOUS
<1> QED
  BY <1>6, <1>7

\* AllocKey hands out a key with an index above all there are.
LEMMA NextIsAbove ==
  ASSUME TypeInv, NextIndex <= MaxIndex, NEW a \in Agent
  PROVE  /\ NextKey(a) \in Key
         /\ \A k \in Keys : k.n < NextKey(a).n
<1> DEFINE S == {k.n : k \in Keys} \cup {0}
<1>0. MaxIndex \in Nat /\ \A k \in Key : k.n \in 1..MaxIndex
  BY BoundAssumption DEF Key
<1>1. S \subseteq 0..MaxIndex /\ 0 \in S
  BY <1>0 DEF TypeInv
<1>2. /\ Max(S) \in 0..MaxIndex
      /\ \A k \in Keys : k.n <= Max(S)
  BY <1>0, <1>1, MaxOfBounded
<1>3. NextIndex = 1 + Max(S)
  BY DEF NextIndex
<1> HIDE DEF S
<1>4. NextIndex \in 1..MaxIndex /\ \A k \in Keys : k.n < NextIndex
  BY <1>0, <1>2, <1>3 DEF TypeInv
<1>5. NextKey(a) \in Key /\ NextKey(a).n = NextIndex
  BY <1>4 DEF NextKey, Key
<1> QED
  BY <1>4, <1>5

\* If it is no second issue, nobody has it and nothing was recorded under it.
LEMMA NextIsFresh ==
  ASSUME TypeInv, IssuedInv, KeysFresh', NEW a \in Agent, AllocKey(a)
  PROVE  /\ NextKey(a) \in Key
         /\ NextKey(a) \notin Owned \cup finished \cup (InHand \ named)
<1>1. NextKey(a) \in Key /\ issued' = [issued EXCEPT ![NextKey(a)] = @ + 1]
  BY NextIsAbove DEF AllocKey
<1>2. issued[NextKey(a)] \in Nat /\ issued'[NextKey(a)] = issued[NextKey(a)] + 1
  BY <1>1 DEF TypeInv
<1>3. ~(issued[NextKey(a)] > 0)
  BY <1>1, <1>2 DEF KeysFresh
<1> QED
  BY <1>1, <1>3 DEF IssuedInv

\* A write is of one entry, and not before any other.
LEMMA WriteEffect ==
  ASSUME TypeInv, IssuedInv, NEW k \in Key, NEW kind \in Kinds,
         Write(k, kind)
  PROVE  /\ Keys' = Keys \cup {k} /\ Keys' \subseteq Key
         /\ entries'[k] = [kind |-> kind, ts |-> clock']
         /\ \A j \in Keys : j # k => entries'[j] = entries[j]
         /\ clock' \in Nat /\ clock <= clock'
         /\ \A j \in Keys' : /\ entries'[j].kind \in Kinds
                             /\ entries'[j].ts \in Nat /\ entries'[j].ts <= clock'
<1>1. clock' \in Nat /\ clock <= clock'
  <2>1. PICK d \in Ticks : clock' = clock + d
    BY DEF Write
  <2>2. d \in Nat /\ clock \in Nat
    BY BoundAssumption DEF TypeInv
  <2> QED BY <2>1, <2>2
<1>2. entries' = [j \in Keys \cup {k} |->
                    IF j = k THEN [kind |-> kind, ts |-> clock'] ELSE entries[j]]
  BY DEF Write
<1>3. Keys' = Keys \cup {k} /\ Keys' \subseteq Key
  BY <1>2 DEF Keys, TypeInv
<1>4. entries'[k] = [kind |-> kind, ts |-> clock'] /\ \A j \in Keys : j # k => entries'[j] = entries[j]
  BY <1>2
<1>5. \A j \in Keys' : /\ entries'[j].kind \in Kinds
                       /\ entries'[j].ts \in Nat /\ entries'[j].ts <= clock'
  <2> SUFFICES ASSUME NEW j \in Keys'
               PROVE  /\ entries'[j].kind \in Kinds
                      /\ entries'[j].ts \in Nat /\ entries'[j].ts <= clock'
    OBVIOUS
  <2>1. CASE j = k
    BY <2>1, <1>1, <1>4
  <2>2. CASE j # k
    <3>1. j \in Keys /\ entries'[j] = entries[j]
      BY <2>2, <1>3, <1>4
    <3>2. /\ entries[j].kind \in Kinds
          /\ entries[j].ts \in Nat /\ entries[j].ts <= clock /\ clock \in Nat
      BY <3>1 DEF TypeInv, IssuedInv
    <3> QED BY <3>1, <3>2, <1>1
  <2> QED BY <2>1, <2>2
<1> QED
  BY <1>1, <1>3, <1>4, <1>5

\* A compaction drops entries and changes none; what it drops is in the digest
\* with what it held, or is a reservation.
LEMMA CompactEffect ==
  ASSUME NEW max, CompactStore(max)
  PROVE  /\ Keys' \subseteq Keys
         /\ \A j \in Keys' : entries'[j] = entries[j]
         /\ Reals' \subseteq Reals
         /\ digest \subseteq digest'
         /\ \A j \in Keys \ Keys' :
              \/ [key |-> j, kind |-> entries[j].kind] \in digest'
              \/ entries[j].kind = "reserved"
         /\ Kept(max) \cup Frontier(max) \subseteq Keys'
<1>1. Kept(max) \cup Frontier(max) \subseteq Keys
  BY DEF Kept, Frontier, Reals
<1>2. entries' = [j \in Kept(max) \cup Frontier(max) |-> entries[j]]
  BY DEF CompactStore, Restrict
<1>3. Keys' = Kept(max) \cup Frontier(max) /\ \A j \in Keys' : entries'[j] = entries[j]
  BY <1>2 DEF Keys
<1>4. Reals' \subseteq Reals
  BY <1>1, <1>3 DEF Reals
<1>5. digest' = digest \cup Folded(max)
  BY DEF CompactStore
<1>6. ASSUME NEW j \in Keys \ Keys'
      PROVE  \/ [key |-> j, kind |-> entries[j].kind] \in digest'
             \/ entries[j].kind = "reserved"
  <2>1. CASE j \in Reals
    <3>1. j \in Cold(max)
      BY <2>1, <1>3, <1>6 DEF Kept
    <3> QED BY <3>1, <1>5 DEF Folded
  <2>2. CASE j \notin Reals
    BY <2>2 DEF Reals
  <2> QED BY <2>1, <2>2
<1> QED
  BY <1>1, <1>3, <1>4, <1>5, <1>6

\* The store and its history are empty.
LEMMA InitIInv == Init => IInv
<1> SUFFICES ASSUME Init PROVE IInv
  OBVIOUS
<1>1. Keys = {}
  BY DEF Init, Keys
<1>2. Owned = {} /\ InHand = {}
  BY DEF Init, Owned, InHand
<1>3. TypeInv
  BY <1>1 DEF Init, TypeInv, Steps
<1>4. IssuedInv /\ HandInv /\ NoResultLost /\ DecisionInv
  BY <1>1, <1>2 DEF Init, IssuedInv, HandInv, NoResultLost, DecisionInv
<1>5. LatestInv /\ KeysFresh /\ named = {}
  BY DEF Init, LatestInv, KeysFresh
<1> QED
  BY <1>3, <1>4, <1>5 DEF IInv, RecordsInv

\* A step of one dispatch moves no other.
LEMMA StepIsLocal ==
  ASSUME TypeInv, NEW s \in Slot, DispatchStep(s)
  PROVE  /\ \A t \in Slot \ {s} : /\ pc'[t] = pc[t] /\ key'[t] = key[t]
                                  /\ target'[t] = target[t] /\ updates'[t] = updates[t]
         /\ pc' \in [Slot -> Steps]
         /\ DOMAIN key' = Slot /\ DOMAIN target' = Slot /\ DOMAIN updates' = Slot
<1>0. /\ pc \in [Slot -> Steps] /\ DOMAIN key = Slot /\ DOMAIN target = Slot
      /\ DOMAIN updates = Slot
      /\ key = [t \in Slot |-> key[t]] /\ target = [t \in Slot |-> target[t]]
      /\ updates = [t \in Slot |-> updates[t]]
  BY DEF TypeInv
<1> USE DEF Goto, Leave, AuthorDone, Steps
<1>1. CASE \E a \in Agent : Begin(s, a)
  BY <1>0, <1>1 DEF Begin
<1>2. CASE Intent(s)
  BY <1>0, <1>2 DEF Intent
<1>3. CASE \E k \in Key : UpdateNamed(s, k)
  BY <1>0, <1>3 DEF UpdateNamed
<1>4. CASE UpdateRelabelled(s)
  BY <1>0, <1>4 DEF UpdateRelabelled
<1>5. CASE WriteUpdate(s)
  BY <1>0, <1>5 DEF WriteUpdate
<1>6. CASE Final(s)
  BY <1>0, <1>6 DEF Final
<1>7. CASE Check(s)
  BY <1>0, <1>7 DEF Check
<1>8. CASE Compact(s)
  BY <1>0, <1>8 DEF Compact
<1>9. CASE Review(s)
  BY <1>0, <1>9 DEF Review
<1>10. CASE Abort(s)
  BY <1>0, <1>10 DEF Abort
<1> QED
  BY <1>1, <1>2, <1>3, <1>4, <1>5, <1>6, <1>7, <1>8, <1>9, <1>10 DEF DispatchStep

\* What a step does to the store: it allocates a key and takes it in hand; it
\* writes under a key in hand that no running agent has for its own and that no
\* dispatch is done with, if it was not named; or it folds and drops entries, or
\* leaves them.
Allocates(k) ==
  /\ Write(k, "reserved")
  /\ issued' = [issued EXCEPT ![k] = @ + 1]
  /\ \A j \in Keys : j.n < k.n
  /\ Owned' \subseteq Owned \cup {k}
  /\ InHand' \subseteq InHand \cup {k} /\ k \in InHand'
  /\ UNCHANGED <<digest, finished, named>>

WritesUnder(k, kind) ==
  /\ Write(k, kind)
  /\ Owned' \subseteq Owned /\ InHand' \subseteq InHand
  /\ \A s \in Slot : pc[s] = "run" /\ pc'[s] = "run" => k # key[s] \/ k \in named
  /\ \/ k \notin finished \ named /\ finished' = finished
     \/ /\ kind \in Authoritative /\ k \in Owned
        /\ finished \subseteq finished' /\ finished' \subseteq finished \cup {k}
  /\ UNCHANGED <<digest, issued, named>>

Folds ==
  /\ \/ \E max \in HostMaxEntries \cup {MaxEntries} : CompactStore(max)
     \/ UNCHANGED <<entries, digest>>
  /\ Owned' \subseteq Owned /\ InHand' \subseteq InHand \cup named'
  /\ named \subseteq named' /\ named' \subseteq Key
  /\ UNCHANGED <<clock, issued, finished>>

\* Every step is of one of these shapes.
LEMMA StepShape ==
  ASSUME TypeInv, HandInv, [Next]_vars
  PROVE  \/ \E k \in Key : Allocates(k)
         \/ \E k \in InHand, kind \in Kinds \ {"reserved"} : WritesUnder(k, kind)
         \/ Folds
<1> DEFINE P == \/ \E k \in Key : Allocates(k)
                \/ \E k \in InHand, kind \in Kinds \ {"reserved"} : WritesUnder(k, kind)
                \/ Folds
<1>a. ASSUME NEW s \in Slot, DispatchStep(s) PROVE P
  <2>0. /\ \A t \in Slot \ {s} : pc'[t] = pc[t] /\ key'[t] = key[t] /\ target'[t] = target[t]
        /\ pc' \in [Slot -> Steps]
    BY <1>a, StepIsLocal
  <2>h. ASSUME pc'[s] # "idle" => pc[s] # "idle" /\ key'[s] = key[s],
               pc'[s] = "write" => target'[s] = key[s]
        PROVE  Owned' \subseteq Owned /\ InHand' \subseteq InHand
    BY <2>0, <2>h DEF InHand, Owned
  <2>f. ASSUME UNCHANGED <<entries, digest, clock, issued, finished, named>>,
               Owned' \subseteq Owned, InHand' \subseteq InHand
        PROVE  P
    BY <2>f DEF Folds, TypeInv
  <2>1. ASSUME NEW a \in Agent, Begin(s, a) PROVE P
    <3> DEFINE k == NextKey(a)
    <3>1. /\ pc[s] = "idle" /\ pc' = [pc EXCEPT ![s] = "intent"]
          /\ key' = [key EXCEPT ![s] = k] /\ target' = target
          /\ NextIndex <= MaxIndex /\ Write(k, "reserved")
          /\ issued' = [issued EXCEPT ![k] = @ + 1]
          /\ UNCHANGED <<digest, finished, named>>
      BY <2>1 DEF Begin, AllocKey, Goto
    <3>2. k \in Key /\ \A j \in Keys : j.n < k.n
      BY <3>1, NextIsAbove
    <3> HIDE DEF k
    <3>3. pc'[s] = "intent" /\ key'[s] = k
      BY <3>1 DEF TypeInv
    <3>4. /\ Owned' \subseteq Owned \cup {k}
          /\ InHand' \subseteq InHand \cup {k} /\ k \in InHand'
      BY <2>0, <3>3 DEF InHand, Owned
    <3> QED BY <3>1, <3>2, <3>4 DEF Allocates
  <2>2. CASE Intent(s)
    <3>1. /\ pc[s] = "intent" /\ pc' = [pc EXCEPT ![s] = "run"] /\ key' = key
          /\ Write(key[s], "intent") /\ UNCHANGED <<digest, issued, finished, named>>
      BY <2>2 DEF Intent, Goto, history
    <3>2. Owned' \subseteq Owned /\ InHand' \subseteq InHand
      BY <3>1, <2>h DEF TypeInv
    <3>x. \A x \in Slot : pc[x] = "run" /\ pc'[x] = "run" => key[s] # key[x]
      BY <2>0, <3>1 DEF TypeInv, HandInv
    <3>3. key[s] \in InHand /\ key[s] \notin finished
      BY <3>1 DEF InHand, Owned, HandInv
    <3>4. WritesUnder(key[s], "intent")
      BY <3>x, <3>1, <3>2, <3>3 DEF WritesUnder
    <3> QED BY <3>3, <3>4 DEF Kinds
  <2>3. ASSUME NEW k \in Key, UpdateNamed(s, k) PROVE P
    <3>1. /\ pc[s] = "run" /\ pc' = [pc EXCEPT ![s] = "write"] /\ key' = key
          /\ target' = [target EXCEPT ![s] = k]
          /\ named' = named \cup ({k} \ {key[s]})
          /\ UNCHANGED <<entries, digest, clock, issued, finished>>
      BY <2>3 DEF UpdateNamed, Goto
    <3>2. pc'[s] = "write" /\ target'[s] = k /\ key'[s] = key[s]
      BY <3>1 DEF TypeInv
    <3>3. Owned' \subseteq Owned
      BY <2>0, <3>1, <3>2 DEF Owned
    <3>4. k \in named' \cup Owned
      BY <3>1 DEF Owned
    <3>5. InHand' \subseteq InHand \cup named'
      BY <2>0, <3>2, <3>3, <3>4 DEF InHand
    <3>6. named \subseteq named' /\ named' \subseteq Key
      BY <3>1 DEF TypeInv
    <3> QED BY <3>1, <3>3, <3>5, <3>6 DEF Folds
  <2>4. CASE UpdateRelabelled(s)
    <3> DEFINE k == NextKey(key[s].agent)
    <3>0. key[s] \in Key /\ key[s].agent \in Agent
      BY <2>4 DEF UpdateRelabelled, Goto, TypeInv, Key
    <3>1. /\ pc[s] = "run" /\ pc' = [pc EXCEPT ![s] = "write"]
          /\ target' = [target EXCEPT ![s] = k] /\ key' = key
          /\ NextIndex <= MaxIndex /\ Write(k, "reserved")
          /\ issued' = [issued EXCEPT ![k] = @ + 1]
          /\ UNCHANGED <<digest, finished, named>>
      BY <2>4 DEF UpdateRelabelled, AllocKey, Goto
    <3>2. k \in Key /\ \A j \in Keys : j.n < k.n
      BY <3>0, <3>1, NextIsAbove
    <3> HIDE DEF k
    <3>3. pc'[s] = "write" /\ target'[s] = k
      BY <3>1 DEF TypeInv
    <3>4. /\ Owned' \subseteq Owned \cup {k}
          /\ InHand' \subseteq InHand \cup {k} /\ k \in InHand'
      BY <2>0, <3>1, <3>3 DEF InHand, Owned
    <3> QED BY <3>1, <3>2, <3>4 DEF Allocates
  <2>5. CASE WriteUpdate(s)
    <3>1. /\ pc[s] = "write" /\ pc' = [pc EXCEPT ![s] = "run"] /\ key' = key
          /\ Write(target[s], "update") /\ UNCHANGED <<digest, issued, finished, named>>
      BY <2>5 DEF WriteUpdate, Goto, history
    <3>2. Owned' \subseteq Owned /\ InHand' \subseteq InHand
      BY <3>1, <2>h DEF TypeInv
    <3>x. \A x \in Slot : pc[x] = "run" /\ pc'[x] = "run" =>
            target[s] # key[x] \/ target[s] \in named
      BY <2>0, <3>1 DEF TypeInv, HandInv
    <3>3. target[s] \in InHand /\ target[s] \notin finished \ named
      BY <3>1 DEF InHand, HandInv
    <3>4. WritesUnder(target[s], "update")
      BY <3>x, <3>1, <3>2, <3>3 DEF WritesUnder
    <3> QED BY <3>3, <3>4 DEF Kinds
  <2>6. CASE Final(s)
    <3>1. /\ pc[s] = "run" /\ pc' = [pc EXCEPT ![s] = "check"] /\ key' = key
          /\ Write(key[s], authRecord(s)) /\ UNCHANGED <<digest, issued, named>>
          /\ finished' = finished \cup {key[s]}
      BY <2>6 DEF Final, Goto
    <3>2. Owned' \subseteq Owned /\ InHand' \subseteq InHand
      BY <3>1, <2>h DEF TypeInv
    <3>x. \A x \in Slot : pc[x] = "run" /\ pc'[x] = "run" => key[s] # key[x]
      BY <2>0, <3>1 DEF TypeInv, HandInv
    <3>3. key[s] \in InHand /\ key[s] \in Owned /\ authRecord(s) \in Authoritative
      BY <3>1 DEF InHand, Owned, authRecord, Authoritative
    <3>4. WritesUnder(key[s], authRecord(s))
      BY <3>x, <3>1, <3>2, <3>3 DEF WritesUnder
    <3> QED BY <3>3, <3>4 DEF Kinds, Authoritative
  <2>7. CASE Check(s)
    <3>1. /\ pc[s] = "check" /\ UNCHANGED <<entries, digest, clock, issued, finished, named>>
          /\ \/ pc' = [pc EXCEPT ![s] = "compact"] /\ key' = key
             \/ AuthorDone(s)
      BY <2>7 DEF Check, Goto, history
    <3>2. Owned' \subseteq Owned /\ InHand' \subseteq InHand
      BY <3>1, <2>h DEF TypeInv, AuthorDone, Leave
    <3> QED BY <3>1, <3>2, <2>f
  <2>8. CASE Compact(s)
    <3>1. /\ pc[s] = "compact" /\ UNCHANGED <<clock, issued, finished, named>> /\ AuthorDone(s)
          /\ CompactStore(MaxEntries) \/ UNCHANGED <<entries, digest>>
      BY <2>8 DEF Compact, history
    <3>2. Owned' \subseteq Owned /\ InHand' \subseteq InHand
      BY <3>1, <2>h DEF TypeInv, AuthorDone, Leave
    <3> QED BY <3>1, <3>2 DEF Folds, TypeInv
  <2>9. CASE Review(s)
    <3>1. /\ pc[s] = "review" /\ pc' = [pc EXCEPT ![s] = "idle"]
          /\ UNCHANGED <<digest, issued, finished, named>>
          /\ Write(key[s], authRecord(s)) \/ UNCHANGED <<entries, clock>>
      BY <2>9 DEF Review, Leave, history
    <3>2. Owned' \subseteq Owned /\ InHand' \subseteq InHand
      BY <3>1, <2>h DEF TypeInv
    <3>x. \A x \in Slot : pc[x] = "run" /\ pc'[x] = "run" => key[s] # key[x]
      BY <2>0, <3>1 DEF TypeInv, HandInv
    <3>3. key[s] \in InHand /\ key[s] \in Owned /\ authRecord(s) \in Authoritative
      BY <3>1 DEF InHand, Owned, authRecord, Authoritative
    <3>4. CASE Write(key[s], authRecord(s))
      <4>1. WritesUnder(key[s], authRecord(s))
        BY <3>x, <3>1, <3>2, <3>3, <3>4 DEF WritesUnder
      <4> QED BY <3>3, <4>1 DEF Kinds, Authoritative
    <3>5. CASE UNCHANGED <<entries, clock>>
      BY <3>1, <3>2, <3>5, <2>f
    <3> QED BY <3>1, <3>4, <3>5
  <2>10. CASE Abort(s)
    <3>1. /\ pc[s] # "idle" /\ pc' = [pc EXCEPT ![s] = "idle"]
          /\ UNCHANGED <<entries, digest, clock, issued, finished, named>>
      BY <2>10 DEF Abort, Leave, history
    <3>2. Owned' \subseteq Owned /\ InHand' \subseteq InHand
      BY <3>1, <2>h DEF TypeInv
    <3> QED BY <3>1, <3>2, <2>f
  <2> QED
    BY <1>a, <2>1, <2>2, <2>3, <2>4, <2>5, <2>6, <2>7, <2>8, <2>9, <2>10 DEF DispatchStep
<1>b. ASSUME NEW max \in HostMaxEntries, HostCompact(max) PROVE P
  <2>1. /\ CompactStore(max) /\ Owned' = Owned /\ InHand' = InHand
        /\ UNCHANGED <<clock, issued, finished, named>>
    BY <1>b DEF HostCompact, InHand, Owned, history
  <2> QED BY <2>1 DEF Folds, TypeInv
<1>c. CASE UNCHANGED vars
  BY <1>c DEF vars, history, Folds, InHand, Owned, TypeInv
<1> QED
  BY <1>a, <1>b, <1>c DEF Next

\* The store and its history keep their types.
StoreTypes ==
  /\ Keys \subseteq Key
  /\ \A k \in Keys : entries[k].kind \in Kinds /\ entries[k].ts \in Nat
  /\ clock \in Nat
  /\ issued \in [Key -> Nat]
  /\ finished \subseteq Key
  /\ named \subseteq Key

\* Nothing is in the store or in hand that was not issued or named, and no
\* record is lost.
LEMMA StorePreserved ==
  ASSUME RecordsInv, [Next]_vars
  PROVE  StoreTypes' /\ IssuedInv' /\ NoResultLost'
<1>0. /\ TypeInv /\ IssuedInv /\ HandInv /\ NoResultLost
      /\ Owned \subseteq InHand /\ InHand \subseteq Key
  BY DEF RecordsInv, TypeInv, InHand, Owned
<1>1. ASSUME NEW k \in Key, Allocates(k)
      PROVE  StoreTypes' /\ IssuedInv' /\ NoResultLost'
  <2>1. /\ Keys' = Keys \cup {k} /\ Keys' \subseteq Key
        /\ \A j \in Keys : j # k => entries'[j] = entries[j]
        /\ clock' \in Nat
        /\ \A j \in Keys' : /\ entries'[j].kind \in Kinds
                            /\ entries'[j].ts \in Nat /\ entries'[j].ts <= clock'
    BY <1>0, <1>1, WriteEffect DEF Allocates, Kinds
  <2>2. /\ issued' = [issued EXCEPT ![k] = @ + 1]
        /\ Owned' \subseteq Owned \cup {k} /\ InHand' \subseteq InHand \cup {k}
        /\ UNCHANGED <<digest, finished, named>>
    BY <1>1 DEF Allocates
  <2>3. /\ issued' \in [Key -> Nat] /\ issued'[k] > 0
        /\ \A j \in Key : issued[j] > 0 => issued'[j] > 0
    BY <1>0, <2>2 DEF TypeInv
  <2>4. k \notin Keys
    <3>1. k \in Keys => k.n < k.n /\ k.n \in Nat
      BY <1>1, BoundAssumption DEF Allocates, Key
    <3> QED BY <3>1
  <2>5. IssuedInv'
    <3>1. /\ Owned' \cup finished' \subseteq Owned \cup finished \cup {k}
          /\ (Keys' \cup InHand') \ named' \subseteq ((Keys \cup InHand) \ named) \cup {k}
      BY <2>1, <2>2
    <3>2. /\ \A j \in Owned \cup finished : j \in Key /\ issued[j] > 0
          /\ \A j \in (Keys \cup InHand) \ named : j \in Key /\ issued[j] > 0
      BY <1>0 DEF IssuedInv, TypeInv
    <3>3. /\ \A j \in Owned' \cup finished' : issued'[j] > 0
          /\ \A j \in (Keys' \cup InHand') \ named' : issued'[j] > 0
      BY <2>3, <3>1, <3>2
    <3> QED BY <2>1, <3>3 DEF IssuedInv
  <2>7. NoResultLost'
    BY <1>0, <2>1, <2>2, <2>4 DEF NoResultLost
  <2>8. StoreTypes'
    BY <1>0, <2>1, <2>2, <2>3 DEF StoreTypes, TypeInv
  <2> QED BY <2>5, <2>7, <2>8
<1>2. ASSUME NEW k \in InHand, NEW kind \in Kinds \ {"reserved"}, WritesUnder(k, kind)
      PROVE  StoreTypes' /\ IssuedInv' /\ NoResultLost'
  <2>0. k \in Key
    BY <1>0
  <2>1. /\ Keys' = Keys \cup {k} /\ Keys' \subseteq Key
        /\ entries'[k] = [kind |-> kind, ts |-> clock']
        /\ \A j \in Keys : j # k => entries'[j] = entries[j]
        /\ clock' \in Nat
        /\ \A j \in Keys' : /\ entries'[j].kind \in Kinds
                            /\ entries'[j].ts \in Nat /\ entries'[j].ts <= clock'
    BY <1>0, <1>2, <2>0, WriteEffect DEF WritesUnder
  <2>2. /\ Owned' \subseteq Owned /\ InHand' \subseteq InHand
        /\ UNCHANGED <<digest, issued, named>>
        /\ \/ k \notin finished \ named /\ finished' = finished
           \/ /\ kind \in Authoritative /\ k \in Owned
              /\ finished \subseteq finished' /\ finished' \subseteq finished \cup {k}
    BY <1>2 DEF WritesUnder
  <2>3. IssuedInv'
    <3>1. /\ Owned' \cup finished' \subseteq Owned \cup finished
          /\ (Keys' \cup InHand') \ named' \subseteq (Keys \cup InHand) \ named
      BY <2>1, <2>2
    <3> QED BY <1>0, <2>1, <2>2, <3>1 DEF IssuedInv
  <2>4. NoResultLost'
    <3> SUFFICES ASSUME NEW j \in finished' \ named'
                 PROVE  \/ j \in Keys' /\ entries'[j].kind \in Authoritative
                        \/ \E kd \in Authoritative : [key |-> j, kind |-> kd] \in digest'
      BY DEF NoResultLost
    <3>1. CASE j = k
      BY <3>1, <2>1, <2>2
    <3>2. CASE j # k
      BY <3>2, <1>0, <2>1, <2>2 DEF NoResultLost
    <3> QED BY <3>1, <3>2
  <2>5. StoreTypes'
    BY <1>0, <2>0, <2>1, <2>2 DEF StoreTypes, TypeInv
  <2> QED BY <2>3, <2>4, <2>5
<1>3. ASSUME Folds PROVE StoreTypes' /\ IssuedInv' /\ NoResultLost'
  <2> DEFINE dropped == /\ Keys' \subseteq Keys /\ \A j \in Keys' : entries'[j] = entries[j]
                        /\ digest \subseteq digest'
                        /\ \A j \in Keys \ Keys' :
                             \/ [key |-> j, kind |-> entries[j].kind] \in digest'
                             \/ entries[j].kind = "reserved"
  <2>1. dropped
    <3>1. CASE UNCHANGED <<entries, digest>>
      BY <3>1 DEF Keys
    <3>2. ASSUME NEW max \in HostMaxEntries \cup {MaxEntries}, CompactStore(max)
          PROVE  dropped
      BY <3>2, CompactEffect
    <3> QED BY <1>3, <3>1, <3>2 DEF Folds
  <2>2. /\ Owned' \subseteq Owned /\ InHand' \subseteq InHand \cup named'
        /\ named \subseteq named' /\ named' \subseteq Key
        /\ UNCHANGED <<clock, issued, finished>>
    BY <1>3 DEF Folds
  <2>3. IssuedInv'
    <3>1. /\ Owned' \cup finished' \subseteq Owned \cup finished
          /\ (Keys' \cup InHand') \ named' \subseteq (Keys \cup InHand) \ named
      BY <2>1, <2>2
    <3> QED BY <1>0, <2>1, <2>2, <3>1 DEF IssuedInv
  <2>4. NoResultLost'
    <3> SUFFICES ASSUME NEW j \in finished \ named
                 PROVE  \/ j \in Keys' /\ entries'[j].kind \in Authoritative
                        \/ \E kd \in Authoritative : [key |-> j, kind |-> kd] \in digest'
      BY <2>2 DEF NoResultLost
    <3>1. \/ j \in Keys /\ entries[j].kind \in Authoritative
          \/ \E kd \in Authoritative : [key |-> j, kind |-> kd] \in digest
      BY <1>0 DEF NoResultLost
    <3> QED BY <2>1, <3>1 DEF Authoritative
  <2>5. StoreTypes'
    BY <1>0, <2>1, <2>2 DEF StoreTypes, TypeInv
  <2> QED BY <2>3, <2>4, <2>5
<1> QED
  BY <1>0, <1>1, <1>2, <1>3, StepShape

\* An agent that names only the key of its dispatch adds nothing to the history.
LEMMA NamesNone == ASSUME ~NamesOthers, [Next]_vars PROVE named' = named
<1>1. ASSUME NEW s \in Slot, DispatchStep(s) PROVE named' = named
  BY <1>1 DEF DispatchStep, Begin, Intent, UpdateNamed, UpdateRelabelled, WriteUpdate,
     Final, Check, Compact, Review, Abort, history
<1> QED
  BY <1>1 DEF Next, HostCompact, vars, history

\* A dispatch has at most two keys in hand, and there are finitely many.
LEMMA HandsFinite == IsFiniteSet(Hands)
<1>1. IsFiniteSet(Slot) /\ IsFiniteSet({"key"}) /\ IsFiniteSet({"target"})
  BY BoundAssumption, FS_Singleton
<1>2. IsFiniteSet({s \in Slot : MaxUpdates[s] > 0})
  BY <1>1, FS_Subset
<1>3. IsFiniteSet(Slot \X {"key"})
  BY <1>1, FS_Product
<1>4. IsFiniteSet({s \in Slot : MaxUpdates[s] > 0} \X {"target"})
  BY <1>1, <1>2, FS_Product
<1> QED
  BY <1>3, <1>4, FS_Union DEF Hands

\* Three agents, say, and as many indexes: the keys are finitely many.
LEMMA KeysFinite == IsFiniteSet(Key)
<1> DEFINE f == [p \in Agent \X (1..MaxIndex) |-> [agent |-> p[1], n |-> p[2]]]
<1>1. IsFiniteSet(Agent \X (1..MaxIndex))
  <2>1. IsFiniteSet(Agent) /\ IsFiniteSet(1..MaxIndex)
    BY BoundAssumption, FS_Interval
  <2> QED BY <2>1, FS_Product
<1>2. f \in [Agent \X (1..MaxIndex) -> Key]
  BY DEF Key
<1>3. \A k \in Key : \E p \in Agent \X (1..MaxIndex) : f[p] = k
  <2> TAKE k \in Key
  <2>1. <<k.agent, k.n>> \in Agent \X (1..MaxIndex)
    BY DEF Key
  <2>2. f[<<k.agent, k.n>>] = k
    BY <2>1 DEF Key
  <2> QED BY <2>1, <2>2
<1> HIDE DEF f
<1>4. f \in Surjection(Agent \X (1..MaxIndex), Key)
  BY <1>2, <1>3 DEF Surjection
<1> QED
  BY <1>1, <1>4, FS_Surjection

\* The latest key stays live: what is of a later second than its entry was in
\* hand when it was issued, and no cap is as low as that and its own second.
LEMMA LatestPreserved ==
  ASSUME IInv, CapCovers, ~NamesOthers, [Next]_vars
  PROVE  LatestInv' /\ KeysFresh'
<1>0. /\ TypeInv /\ IssuedInv /\ HandInv /\ LatestInv /\ KeysFresh
      /\ CapCovers /\ named = {} /\ named' = {}
      /\ InHand \subseteq Key
  <2>1. named' = named
    BY NamesNone
  <2> QED BY <2>1 DEF IInv, RecordsInv, TypeInv, InHand, Owned
<1>h. IsFiniteSet(InHand') /\ Cardinality(InHand') <= Cardinality(Hands)
  <2> DEFINE f == [h \in Hands |-> IF h[2] = "key" THEN key'[h[1]] ELSE target'[h[1]]]
             img == {f[h] : h \in Hands}
  <2>1. IsFiniteSet(Hands)
    BY HandsFinite
  <2>2. IsFiniteSet(img) /\ Cardinality(img) <= Cardinality(Hands)
    <3>1. f \in Surjection(Hands, img)
      <4>1. f \in [Hands -> img] /\ \A y \in img : \E h \in Hands : f[h] = y
        OBVIOUS
      <4> HIDE DEF f, img
      <4> QED BY <4>1 DEF Surjection
    <3> QED BY <2>1, <3>1, FS_Surjection
  <2>3. \A s \in Slot : pc'[s] = "write" => MaxUpdates[s] > 0
    <3> SUFFICES ASSUME NEW s \in Slot, pc'[s] = "write" PROVE MaxUpdates[s] > 0
      OBVIOUS
    <3>1. CASE pc[s] = "write"
      BY <3>1, <1>0 DEF TypeInv
    <3>2. CASE pc[s] # "write"
      <4>1. pc' # pc /\ ~UNCHANGED vars
        BY <3>2 DEF vars
      <4>2. PICK t \in Slot : DispatchStep(t)
        BY <4>1 DEF Next, HostCompact
      <4>3. t = s
        BY <3>2, <4>2, <1>0, StepIsLocal
      <4>4. updates[s] < MaxUpdates[s] /\ updates[s] \in Nat /\ MaxUpdates[s] \in Nat
        <5>1. (\E k \in Key : UpdateNamed(s, k)) \/ UpdateRelabelled(s)
          BY <3>2, <4>2, <4>3, <1>0
          DEF DispatchStep, Begin, Intent, WriteUpdate, Final, Check, Compact, Review, Abort,
              Goto, Leave, AuthorDone, TypeInv
        <5> QED BY <5>1, <1>0, BoundAssumption DEF UpdateNamed, UpdateRelabelled, TypeInv
      <4> QED BY <4>4
    <3> QED BY <3>1, <3>2
  <2>4. \A s \in Slot : <<s, "key">> \in Hands /\ f[<<s, "key">>] = key'[s]
    BY DEF Hands
  <2>5. \A s \in Slot : pc'[s] = "write" =>
          <<s, "target">> \in Hands /\ f[<<s, "target">>] = target'[s]
    BY <2>3 DEF Hands
  <2> HIDE DEF f
  <2>6. InHand' \subseteq img
    <3>1. /\ \A s \in Slot : key'[s] \in img
          /\ \A s \in Slot : pc'[s] = "write" => target'[s] \in img
      BY <2>4, <2>5
    <3> HIDE DEF img
    <3> QED BY <3>1 DEF InHand, Owned
  <2>7. Cardinality(InHand') \in Nat /\ Cardinality(img) \in Nat /\ Cardinality(Hands) \in Nat
        /\ IsFiniteSet(InHand') /\ Cardinality(InHand') <= Cardinality(img)
    BY <2>1, <2>2, <2>6, FS_Subset, FS_CardinalityType
  <2> QED BY <2>2, <2>7
<1>1. ASSUME NEW k \in Key, Allocates(k) PROVE LatestInv' /\ KeysFresh'
  <2>1. /\ Keys' = Keys \cup {k} /\ entries'[k] = [kind |-> "reserved", ts |-> clock']
    BY <1>0, <1>1, WriteEffect DEF Allocates, Kinds
  <2>2. /\ issued' = [issued EXCEPT ![k] = @ + 1] /\ k \in InHand'
        /\ \A j \in Keys : j.n < k.n
        /\ InHand' \subseteq InHand \cup {k}
    BY <1>1 DEF Allocates
  <2>a. \A j \in Key : issued[j] > 0 => j.n < k.n
    <3> SUFFICES ASSUME NEW j \in Key, issued[j] > 0 PROVE j.n < k.n
      OBVIOUS
    <3>1. PICK i \in Keys, H \in SUBSET Key : Latest(i, H)
      BY <1>0 DEF LatestInv
    <3>2. j.n <= i.n /\ i.n < k.n /\ i \in Key
      BY <1>0, <2>2, <3>1 DEF Latest, TypeInv
    <3>3. j.n \in Nat /\ i.n \in Nat /\ k.n \in Nat
      BY <3>2, BoundAssumption DEF Key
    <3> QED BY <3>2, <3>3
  <2>b. k.n \in Nat /\ \A j \in Key : j.n \in Nat
    BY BoundAssumption DEF Key
  <2>c. ~(issued[k] > 0) /\ issued[k] \in Nat
    BY <1>0, <2>a, <2>b DEF TypeInv
  <2>d. issued'[k] = 1 /\ \A j \in Key : j # k => issued'[j] = issued[j]
    BY <1>0, <2>2, <2>c DEF TypeInv
  <2>e. KeysFresh'
    BY <1>0, <2>d DEF KeysFresh
  <2>3. \A j \in Key : issued'[j] > 0 => j.n <= k.n
    BY <2>a, <2>b, <2>d
  <2>4. k \in Keys' /\ k \notin Reals'
    BY <2>1 DEF Reals
  <2>5. Latest(k, InHand)'
    <3>1. InHand' \in SUBSET Key
      BY <2>2, <1>0
    <3> QED BY <2>2, <2>3, <2>4, <1>h DEF Latest
  <2>6. \E H \in SUBSET Key : Latest(k, H)'
    BY <2>2, <2>5, <1>0 DEF Latest
  <2> QED BY <2>4, <2>6, <2>e DEF LatestInv
<1>2. ASSUME NEW w \in InHand, NEW kind \in Kinds \ {"reserved"}, WritesUnder(w, kind)
      PROVE  LatestInv' /\ KeysFresh'
  <2>0. w \in Key /\ issued[w] > 0
    BY <1>0 DEF IssuedInv
  <2>1. /\ Keys' = Keys \cup {w} /\ entries'[w] = [kind |-> kind, ts |-> clock']
        /\ \A j \in Keys : j # w => entries'[j] = entries[j]
        /\ clock' \in Nat /\ clock <= clock'
    BY <1>0, <1>2, <2>0, WriteEffect DEF WritesUnder
  <2>2. InHand' \subseteq InHand /\ issued' = issued
    BY <1>2 DEF WritesUnder
  <2>3. PICK k \in Keys, H \in SUBSET Key : Latest(k, H)
    BY <2>0, <1>0 DEF LatestInv
  <2>4. k \in Reals' => \A j \in Reals' : entries'[j].ts > entries'[k].ts => j \in H
    <3> SUFFICES ASSUME k \in Reals', NEW j \in Reals', entries'[j].ts > entries'[k].ts
                 PROVE  j \in H
      OBVIOUS
    <3>1. CASE j = w
      BY <3>1, <2>3 DEF Latest
    <3>2. CASE j # w /\ k = w
      <4>1. /\ entries'[k].ts = clock' /\ entries'[j] = entries[j] /\ j \in Keys
        BY <3>2, <2>1 DEF Reals, Keys
      <4>2. /\ entries[j].ts <= clock /\ entries[j].ts \in Nat /\ clock \in Nat
        BY <4>1, <1>0 DEF IssuedInv, TypeInv
      <4> QED BY <4>1, <4>2, <2>1
    <3>3. CASE j # w /\ k # w
      <4>1. entries'[j] = entries[j] /\ entries'[k] = entries[k] /\ j \in Reals /\ k \in Reals
        BY <3>3, <2>1 DEF Reals, Keys
      <4> QED BY <4>1, <2>3 DEF Latest
    <3> QED BY <3>1, <3>2, <3>3
  <2>5. Latest(k, H)' /\ k \in Keys'
    BY <2>1, <2>2, <2>3, <2>4 DEF Latest
  <2> QED BY <1>0, <2>2, <2>5 DEF LatestInv, KeysFresh
<1>3. ASSUME Folds PROVE LatestInv' /\ KeysFresh'
  <2>0. KeysFresh'
    BY <1>0, <1>3 DEF Folds, KeysFresh
  <2> SUFFICES ASSUME \E j \in Key : issued'[j] > 0
               PROVE  \E k \in Keys', H \in SUBSET Key : Latest(k, H)'
    BY <2>0 DEF LatestInv
  <2>1. InHand' \subseteq InHand /\ issued' = issued
    BY <1>0, <1>3 DEF Folds
  <2>2. PICK k \in Keys, H \in SUBSET Key : Latest(k, H)
    BY <2>1, <1>0 DEF LatestInv
  <2>3. CASE UNCHANGED <<entries, digest>>
    BY <2>1, <2>2, <2>3 DEF Latest, Keys, Reals
  <2>4. ASSUME NEW max \in HostMaxEntries \cup {MaxEntries}, CompactStore(max)
        PROVE  \E kk \in Keys', HH \in SUBSET Key : Latest(kk, HH)'
    <3>1. /\ Reals' \subseteq Reals /\ \A j \in Keys' : entries'[j] = entries[j]
          /\ Kept(max) \cup Frontier(max) \subseteq Keys' /\ Keys' \subseteq Keys
      BY <2>4, CompactEffect
    <3>2. k \in Keys'
      <4>1. CASE k \in Reals
        <5> DEFINE N == {j \in Reals : Newer(j, k)}
                   S == SameSecond(k)
        <5>1. /\ \A j \in Reals : entries[j].ts \in Nat
              /\ k \in S /\ k \notin N
          <6>1. nameRank[k.agent] \in Nat /\ k.n \in Nat /\ entries[k].ts \in Nat
            BY <1>0, <2>2, BoundAssumption DEF TypeInv, Key
          <6>2. ~Newer(k, k)
            BY <6>1 DEF Newer
          <6>3. \A j \in Reals : entries[j].ts \in Nat
            BY <1>0 DEF TypeInv, Reals
          <6> QED BY <4>1, <6>2, <6>3 DEF SameSecond
        <5>2. N \subseteq (H \ {k}) \cup (S \ {k}) /\ k \in H
              /\ IsFiniteSet(H) /\ Cardinality(H) <= Cardinality(Hands)
          BY <4>1, <5>1, <2>2 DEF Latest, Newer, SameSecond
        <5>3. IsFiniteSet(S)
          <6>1. S \subseteq Key
            BY <1>0 DEF SameSecond, Reals, TypeInv
          <6> QED BY <6>1, KeysFinite, FS_Subset
        <5>4. max > 0 => Cardinality(S) + Cardinality(Hands) <= max + 1
          BY <4>1, <1>0 DEF CapCovers
        <5> HIDE DEF N, S
        <5>5. max > 0 => ~(Cardinality(N) >= max)
          <6>1. /\ Cardinality(H \ {k}) = Cardinality(H) - 1 /\ IsFiniteSet(H \ {k})
                /\ Cardinality(S \ {k}) = Cardinality(S) - 1 /\ IsFiniteSet(S \ {k})
            BY <5>1, <5>2, <5>3, FS_RemoveElement
          <6>2. IsFiniteSet((H \ {k}) \cup (S \ {k}))
            BY <6>1, FS_Union
          <6>3. Cardinality((H \ {k}) \cup (S \ {k})) =
                  Cardinality(H \ {k}) + Cardinality(S \ {k})
                    - Cardinality((H \ {k}) \cap (S \ {k}))
            BY <6>1, FS_Union
          <6>4. Cardinality(N) <= Cardinality((H \ {k}) \cup (S \ {k}))
            BY <5>2, <6>2, FS_Subset
          <6>5. IsFiniteSet((H \ {k}) \cap (S \ {k})) /\ IsFiniteSet(N)
            BY <5>2, <6>1, <6>2, FS_Subset
          <6>6. {Cardinality(N), Cardinality(H), Cardinality(S), Cardinality(Hands),
                 Cardinality((H \ {k}) \cap (S \ {k}))} \subseteq Nat
            BY <5>2, <5>3, <6>5, HandsFinite, FS_CardinalityType
          <6>7. max \in Nat
            BY BoundAssumption
          <6> QED BY <5>2, <5>4, <6>1, <6>3, <6>4, <6>6, <6>7
        <5>6. k \notin Cold(max)
          BY <5>5 DEF Cold, N
        <5>7. k \in Kept(max)
          BY <4>1, <5>6 DEF Kept
        <5> QED BY <5>7, <3>1
      <4>2. CASE k \notin Reals
        <5>1. ASSUME NEW j \in Kept(max), j.agent = k.agent PROVE j.n < k.n
          <6>1. j \in Reals /\ j \in Keys /\ j \in Key /\ k \in Key
            BY <1>0, <2>2 DEF Kept, Reals, TypeInv
          <6>2. j.n <= k.n /\ j.n \in Nat /\ k.n \in Nat
            BY <6>1, <2>2, <1>0, BoundAssumption DEF Latest, IssuedInv, Key
          <6>3. j.n # k.n
            BY <6>1, <5>1, <4>2 DEF Key
          <6> QED BY <6>2, <6>3
        <5>2. k \in Frontier(max)
          BY <4>2, <5>1, <2>2 DEF Frontier
        <5> QED BY <5>2, <3>1
      <4> QED BY <4>1, <4>2
    <3>3. \A j \in Reals' : k \in Reals' => entries'[j] = entries[j] /\ entries'[k] = entries[k]
                                            /\ j \in Reals /\ k \in Reals
      BY <3>1, <3>2 DEF Reals
    <3>4. Latest(k, H)'
      BY <2>1, <2>2, <3>3 DEF Latest
    <3> QED BY <3>2, <3>4
  <2> QED BY <1>3, <2>3, <2>4 DEF Folds
<1> QED
  BY <1>0, <1>1, <1>2, <1>3, StepShape

\* The dispatches keep their types, and their keys apart, unless a key is
\* issued twice.
LEMMA HandPreserved == ASSUME RecordsInv, KeysFresh', [Next]_vars PROVE TypeInv' /\ HandInv'
<1>0. /\ TypeInv /\ IssuedInv /\ HandInv /\ KeysFresh'
      /\ StoreTypes' /\ InHand \subseteq Key
  BY StorePreserved DEF RecordsInv, TypeInv, InHand, Owned
<1> DEFINE Hand(s) ==
      /\ key'[s] \in Key \cup {NoKey} /\ target'[s] \in Key \cup {NoKey} /\ updates'[s] \in Nat
      /\ pc'[s] # "idle" => key'[s] \in Key
      /\ pc'[s] = "write" => target'[s] \in Key /\ MaxUpdates[s] > 0 /\ updates'[s] > 0
           Own(s) ==
      /\ pc'[s] \in {"intent", "run", "write"} => key'[s] \notin finished'
      /\ pc'[s] = "write" => target'[s] \notin finished' \ named'
           Apart(s, t) ==
      pc'[s] # "idle" => /\ pc'[t] # "idle" => key'[t] # key'[s]
                         /\ pc'[t] = "write" => target'[t] # key'[s] \/ target'[t] \in named'
           Grows(s) ==
      /\ named \subseteq named'
      /\ \/ finished' = finished
         \/ pc[s] # "idle" /\ finished' = finished \cup {key[s]}
<1>a. ASSUME NEW s \in Slot, DispatchStep(s), Hand(s), Own(s), Grows(s),
             \A t \in Slot \ {s} : Apart(s, t) /\ Apart(t, s)
      PROVE  TypeInv' /\ HandInv'
  <2>1. /\ \A t \in Slot \ {s} : /\ pc'[t] = pc[t] /\ key'[t] = key[t]
                                 /\ target'[t] = target[t] /\ updates'[t] = updates[t]
        /\ pc' \in [Slot -> Steps]
        /\ DOMAIN key' = Slot /\ DOMAIN target' = Slot /\ DOMAIN updates' = Slot
    BY <1>0, <1>a, StepIsLocal
  <2>2. \A t \in Slot \ {s} : Hand(t)
    BY <1>0, <2>1 DEF TypeInv
  <2>3. \A t \in Slot \ {s} : Own(t)
    BY <1>0, <1>a, <2>1 DEF HandInv
  <2>4. \A t, u \in Slot \ {s} : t # u => Apart(t, u)
    BY <1>0, <1>a, <2>1 DEF HandInv
  <2>5. \A t \in Slot : Hand(t) /\ Own(t) /\ \A u \in Slot \ {t} : Apart(t, u)
    BY <1>a, <2>2, <2>3, <2>4
  <2>6. HandInv'
    BY <2>5 DEF HandInv
  <2>7. TypeInv'
    <3>1. DOMAIN key' = Slot /\ DOMAIN target' = Slot /\ DOMAIN updates' = Slot
      BY <2>1
    <3>2. /\ key' = [t \in Slot |-> key'[t]] /\ target' = [t \in Slot |-> target'[t]]
          /\ updates' = [t \in Slot |-> updates'[t]]
      BY <1>0, <1>a DEF TypeInv, DispatchStep, Begin, Intent, UpdateNamed, UpdateRelabelled,
           WriteUpdate, Final, Check, Compact, Review, Abort, Leave, AuthorDone
    <3>3. /\ key' \in [Slot -> Key \cup {NoKey}] /\ target' \in [Slot -> Key \cup {NoKey}]
          /\ updates' \in [Slot -> Nat]
      BY <2>5, <3>2
    <3> QED BY <1>0, <2>1, <2>5, <3>3 DEF TypeInv, StoreTypes
  <2> QED BY <2>6, <2>7
<1>b. ASSUME NEW s \in Slot, DispatchStep(s) PROVE TypeInv' /\ HandInv'
  <2>0. \A t \in Slot \ {s} : /\ pc'[t] = pc[t] /\ key'[t] = key[t] /\ target'[t] = target[t]
                              /\ pc[t] # "idle" => key[t] \in Owned
                              /\ pc[t] = "write" => target[t] \in InHand
    BY <1>0, <1>b, StepIsLocal DEF InHand, Owned
  <2>1. ASSUME NEW a \in Agent, Begin(s, a) PROVE TypeInv' /\ HandInv'
    <3> DEFINE k == NextKey(a)
    <3>1. k \in Key /\ k \notin Owned \cup finished \cup (InHand \ named)
      BY <1>0, <2>1, NextIsFresh DEF Begin
    <3>2. /\ pc' = [pc EXCEPT ![s] = "intent"] /\ key' = [key EXCEPT ![s] = k]
          /\ target' = target /\ updates' = updates /\ finished' = finished
          /\ named' = named
      BY <2>1 DEF Begin, Goto
    <3> HIDE DEF k
    <3>3. /\ pc'[s] = "intent" /\ key'[s] = k /\ target'[s] = target[s] /\ updates'[s] = updates[s]
      BY <1>0, <3>2 DEF TypeInv
    <3>4. Hand(s) /\ Own(s) /\ Grows(s)
      BY <1>0, <3>1, <3>2, <3>3 DEF TypeInv
    <3>5. \A t \in Slot \ {s} : Apart(s, t) /\ Apart(t, s)
      BY <2>0, <3>1, <3>2, <3>3
    <3> QED BY <1>a, <1>b, <3>4, <3>5
  <2>2. CASE UpdateRelabelled(s)
    <3> DEFINE k == NextKey(key[s].agent)
    <3>0. key[s] \in Key /\ key[s].agent \in Agent
      BY <1>0, <2>2 DEF UpdateRelabelled, Goto, TypeInv, Key
    <3>1. k \in Key /\ k \notin Owned \cup finished \cup (InHand \ named)
      BY <1>0, <2>2, <3>0, NextIsFresh DEF UpdateRelabelled
    <3>2. /\ pc[s] = "run" /\ pc' = [pc EXCEPT ![s] = "write"] /\ key' = key
          /\ target' = [target EXCEPT ![s] = k]
          /\ updates' = [updates EXCEPT ![s] = @ + 1] /\ finished' = finished
          /\ updates[s] < MaxUpdates[s] /\ named' = named
      BY <2>2 DEF UpdateRelabelled, Goto
    <3> HIDE DEF k
    <3>3. /\ pc'[s] = "write" /\ key'[s] = key[s] /\ target'[s] = k /\ updates'[s] = updates[s] + 1
          /\ updates[s] \in Nat
      BY <1>0, <3>2 DEF TypeInv
    <3>6. MaxUpdates[s] > 0
      BY <3>2, <3>3, BoundAssumption
    <3>4. Hand(s) /\ Own(s) /\ Grows(s)
      BY <1>0, <3>0, <3>1, <3>2, <3>3, <3>6 DEF TypeInv, HandInv
    <3>5. \A t \in Slot \ {s} : Apart(s, t) /\ Apart(t, s)
      BY <1>0, <2>0, <3>1, <3>2, <3>3 DEF HandInv
    <3> QED BY <1>a, <1>b, <3>4, <3>5
  <2>3. ASSUME NEW k \in Key, UpdateNamed(s, k) PROVE TypeInv' /\ HandInv'
    <3>1. /\ pc[s] = "run" /\ pc' = [pc EXCEPT ![s] = "write"] /\ key' = key
          /\ target' = [target EXCEPT ![s] = k]
          /\ updates' = [updates EXCEPT ![s] = @ + 1] /\ finished' = finished
          /\ updates[s] < MaxUpdates[s]
          /\ named' = named \cup ({k} \ {key[s]})
      BY <1>0, <2>3 DEF UpdateNamed, Goto, history
    <3>2. /\ pc'[s] = "write" /\ key'[s] = key[s] /\ target'[s] = k
          /\ updates'[s] = updates[s] + 1 /\ updates[s] \in Nat
          /\ key[s] \in Key
          /\ k = key[s] \/ k \in named'
      BY <1>0, <3>1 DEF TypeInv
    <3>5. MaxUpdates[s] > 0
      BY <3>1, <3>2, BoundAssumption
    <3>3. Hand(s) /\ Own(s) /\ Grows(s)
      BY <1>0, <3>1, <3>2, <3>5 DEF HandInv
    <3>4. \A t \in Slot \ {s} : Apart(s, t) /\ Apart(t, s)
      BY <1>0, <2>0, <3>1, <3>2 DEF HandInv
    <3> QED BY <1>a, <1>b, <3>3, <3>4
  <2>4. CASE Intent(s) \/ WriteUpdate(s)
    <3>1. /\ pc[s] \in {"intent", "write"} /\ pc' = [pc EXCEPT ![s] = "run"]
          /\ UNCHANGED <<key, updates, finished, named>>
          /\ target' = target \/ target' = [target EXCEPT ![s] = NoKey]
      BY <2>4 DEF Intent, WriteUpdate, Goto, history
    <3>2. /\ pc'[s] = "run" /\ key'[s] = key[s] /\ key[s] \in Key
          /\ updates'[s] = updates[s] /\ updates[s] \in Nat
          /\ target'[s] \in {target[s], NoKey}
      BY <1>0, <3>1 DEF TypeInv
    <3>3. Hand(s) /\ Own(s) /\ Grows(s)
      BY <1>0, <3>1, <3>2 DEF HandInv, TypeInv
    <3>4. \A t \in Slot \ {s} : Apart(s, t) /\ Apart(t, s)
      BY <1>0, <2>0, <3>1, <3>2 DEF HandInv
    <3> QED BY <1>a, <1>b, <3>3, <3>4
  <2>5. CASE Final(s)
    <3>1. /\ pc[s] = "run" /\ pc' = [pc EXCEPT ![s] = "check"]
          /\ UNCHANGED <<key, target, updates, named>> /\ finished' = finished \cup {key[s]}
      BY <2>5 DEF Final, Goto
    <3>2. /\ pc'[s] = "check" /\ key'[s] = key[s] /\ key[s] \in Key
          /\ updates'[s] = updates[s] /\ target'[s] = target[s]
      BY <1>0, <3>1 DEF TypeInv
    <3>3. Hand(s) /\ Own(s) /\ Grows(s)
      BY <1>0, <3>1, <3>2 DEF TypeInv
    <3>4. \A t \in Slot \ {s} : Apart(s, t) /\ Apart(t, s)
      BY <1>0, <2>0, <3>1, <3>2 DEF HandInv
    <3> QED BY <1>a, <1>b, <3>3, <3>4
  <2>6. ASSUME pc[s] \in {"check", "compact"}, finished' = finished, named' = named,
               pc'[s] \in {"compact", "review"},
               UNCHANGED <<key, target, updates>>
        PROVE  TypeInv' /\ HandInv'
    <3>1. Hand(s) /\ Own(s) /\ Grows(s)
      BY <1>0, <2>6 DEF TypeInv
    <3>2. \A t \in Slot \ {s} : Apart(s, t) /\ Apart(t, s)
      BY <1>0, <2>0, <2>6 DEF HandInv
    <3> QED BY <1>a, <1>b, <3>1, <3>2
  <2>7. ASSUME finished' = finished, named' = named, Leave(s) PROVE TypeInv' /\ HandInv'
    <3>1. pc'[s] = "idle" /\ key'[s] = NoKey /\ target'[s] = NoKey /\ updates'[s] = 0
      BY <1>0, <2>7 DEF Leave, TypeInv
    <3>2. Hand(s) /\ Own(s) /\ Grows(s) /\ \A t \in Slot \ {s} : Apart(s, t) /\ Apart(t, s)
      BY <2>7, <3>1
    <3> QED BY <1>a, <1>b, <3>2
  <2>8. CASE Check(s) \/ Compact(s)
    <3>1. /\ pc[s] \in {"check", "compact"} /\ finished' = finished /\ named' = named
          /\ \/ pc' = [pc EXCEPT ![s] = "compact"] /\ UNCHANGED <<key, updates, target>>
             \/ AuthorDone(s)
      BY <2>8 DEF Check, Compact, Goto, history
    <3>2. \/ pc' = [pc EXCEPT ![s] = "compact"] /\ UNCHANGED <<key, updates, target>>
          \/ pc' = [pc EXCEPT ![s] = "review"] /\ UNCHANGED <<key, updates, target>>
          \/ Leave(s)
      BY <3>1 DEF AuthorDone
    <3>3. \/ pc'[s] \in {"compact", "review"} /\ UNCHANGED <<key, updates, target>>
          \/ Leave(s)
      BY <1>0, <3>2 DEF TypeInv
    <3> QED BY <3>1, <3>3, <2>6, <2>7
  <2>9. CASE Review(s) \/ Abort(s)
    BY <2>9, <2>7 DEF Review, Abort, history
  <2> QED
    BY <1>b, <2>1, <2>2, <2>3, <2>4, <2>5, <2>8, <2>9 DEF DispatchStep
<1>c. ASSUME UNCHANGED <<pc, key, target, updates, finished, named>> PROVE TypeInv' /\ HandInv'
  BY <1>0, <1>c DEF TypeInv, HandInv, StoreTypes
<1> QED
  BY <1>b, <1>c DEF Next, HostCompact, vars, history

\* No compaction drops the decision, and no other dispatch's update writes over
\* it, unless it names its key, or a key is issued twice.
LEMMA DecisionPreserved == ASSUME RecordsInv, KeysFresh', [Next]_vars PROVE DecisionInv'
<1>0. TypeInv /\ IssuedInv /\ HandInv /\ DecisionInv
  BY DEF RecordsInv
<1> DEFINE Recorded(k) ==
      \/ k \in Keys /\ entries[k].kind = "intent"
      \/ [key |-> k, kind |-> "intent"] \in digest
      \/ k \in named
<1>1. ASSUME NEW s \in Slot, pc'[s] = "run", updates'[s] = 0
      PROVE  \/ Intent(s)
             \/ pc[s] = "run" /\ key'[s] = key[s] /\ updates[s] = 0
  <2>1. ASSUME NEW t \in Slot, DispatchStep(t), t # s
        PROVE  pc[s] = "run" /\ key'[s] = key[s] /\ updates[s] = 0
    BY <1>0, <1>1, <2>1, StepIsLocal
  <2>2. ASSUME DispatchStep(s) PROVE Intent(s)
    <3>1. Intent(s) \/ WriteUpdate(s)
      BY <1>0, <1>1, <2>2 DEF DispatchStep, Begin, UpdateNamed, UpdateRelabelled, Final,
         Check, Compact, Review, Abort, Goto, TypeInv, Leave, AuthorDone
    <3>2. ~WriteUpdate(s)
      BY <1>0, <1>1 DEF WriteUpdate, Goto, TypeInv
    <3> QED BY <3>1, <3>2
  <2>3. CASE UNCHANGED <<pc, key, updates>>
    BY <1>1, <2>3
  <2> QED
    BY <2>1, <2>2, <2>3 DEF Next, HostCompact, vars
<1>w. ASSUME NEW k \in Key, NEW kind \in Kinds, Write(k, kind), digest' = digest,
             named' = named
      PROVE  /\ kind = "intent" => Recorded(k)'
             /\ \A j \in Key : j # k /\ Recorded(j) => Recorded(j)'
  <2>1. /\ Keys' = Keys \cup {k} /\ entries'[k] = [kind |-> kind, ts |-> clock']
        /\ \A i \in Keys : i # k => entries'[i] = entries[i]
    BY <1>0, <1>w, WriteEffect
  <2> QED BY <1>w, <2>1
<1>2. ASSUME NEW s \in Slot, NEW j \in Key, j = key[s], Intent(s)
      PROVE  key'[s] = j /\ Recorded(j)'
  <2>1. key' = key /\ Write(j, "intent") /\ digest' = digest /\ named' = named
    BY <1>2 DEF Intent, history
  <2> QED BY <1>2, <2>1, <1>w DEF Kinds
<1>3. ASSUME NEW s \in Slot, NEW j \in Key, j = key[s],
             pc[s] = "run", pc'[s] = "run", updates[s] = 0
      PROVE  Recorded(j)'
  <2>1. Recorded(j)
    BY <1>0, <1>3 DEF DecisionInv
  <2>2. CASE Folds
    <3>0. named \subseteq named'
      BY <2>2 DEF Folds
    <3>1. CASE UNCHANGED <<entries, digest>>
      BY <2>1, <3>0, <3>1 DEF Keys
    <3>2. ASSUME NEW max, CompactStore(max) PROVE Recorded(j)'
      <4>1. /\ digest \subseteq digest' /\ \A i \in Keys' : entries'[i] = entries[i]
            /\ \A i \in Keys \ Keys' :
                 \/ [key |-> i, kind |-> entries[i].kind] \in digest'
                 \/ entries[i].kind = "reserved"
        BY <3>2, CompactEffect
      <4> QED BY <2>1, <3>0, <4>1
    <3> QED BY <2>2, <3>1, <3>2 DEF Folds
  <2>3. ASSUME NEW k \in Key, Allocates(k) PROVE Recorded(j)'
    <3>1. /\ Write(k, "reserved") /\ digest' = digest /\ named' = named
          /\ \A i \in Keys : i.n < k.n
      BY <2>3 DEF Allocates
    <3>2. CASE j = k
      <4>1. j \in Keys => k.n < k.n /\ k.n \in Nat
        BY <3>1, <3>2, BoundAssumption DEF Key
      <4>2. j \notin Keys
        BY <4>1
      <4> QED BY <2>1, <3>1, <4>2
    <3>3. CASE j # k
      BY <2>1, <3>1, <3>3, <1>w DEF Kinds
    <3> QED BY <3>2, <3>3
  <2>4. ASSUME NEW k \in InHand, NEW kind \in Kinds \ {"reserved"}, WritesUnder(k, kind)
        PROVE  Recorded(j)'
    <3>1. /\ j # k \/ j \in named
          /\ Write(k, kind) /\ digest' = digest /\ named' = named /\ k \in Key
      BY <1>0, <1>3, <2>4 DEF WritesUnder, InHand, Owned, TypeInv
    <3>2. CASE j \in named
      BY <3>1, <3>2
    <3>3. CASE j # k
      BY <2>1, <3>1, <3>3, <1>w
    <3> QED BY <3>1, <3>2, <3>3
  <2> QED BY <1>0, <2>2, <2>3, <2>4, StepShape
<1>4. ASSUME NEW s \in Slot, pc'[s] = "run", updates'[s] = 0
      PROVE  Recorded(key[s])'
  <2>1. key[s] \in Key
    BY <1>0, <1>1, <1>4 DEF Intent, Goto, TypeInv
  <2> QED BY <1>1, <1>2, <1>3, <1>4, <2>1
<1> QED
  BY <1>4 DEF DecisionInv

\* As long as no key is issued twice, what holds of the records is kept.
LEMMA RecordsPreserved == ASSUME RecordsInv, KeysFresh', [Next]_vars PROVE RecordsInv'
BY StorePreserved, HandPreserved, DecisionPreserved DEF RecordsInv

\* An allocation counts up, and nothing counts down: a second issue stays one.
IssuedTyped == issued \in [Key -> Nat]

LEMMA IssuedGrows ==
  ASSUME IssuedTyped, [Next]_vars
  PROVE  IssuedTyped' /\ (KeysFresh' => KeysFresh)
<1>1. issued' = issued \/ \E k : issued' = [issued EXCEPT ![k] = @ + 1]
  <2>1. ASSUME NEW s \in Slot, DispatchStep(s)
        PROVE  issued' = issued \/ \E k : issued' = [issued EXCEPT ![k] = @ + 1]
    <3>1. CASE (\E a \in Agent : Begin(s, a)) \/ UpdateRelabelled(s)
      BY <3>1 DEF Begin, UpdateRelabelled, AllocKey
    <3>2. CASE issued' = issued
      BY <3>2
    <3>3. \/ (\E a \in Agent : Begin(s, a)) \/ UpdateRelabelled(s)
          \/ issued' = issued
      BY <2>1 DEF DispatchStep, Intent, UpdateNamed, WriteUpdate, Final, Check, Compact,
         Review, Abort, history
    <3> QED BY <3>1, <3>2, <3>3
  <2> QED BY <2>1 DEF Next, HostCompact, vars, history
<1>2. CASE issued' = issued
  BY <1>2 DEF IssuedTyped, KeysFresh
<1>3. ASSUME NEW k, issued' = [issued EXCEPT ![k] = @ + 1]
      PROVE  IssuedTyped' /\ (KeysFresh' => KeysFresh)
  <2>1. issued' = [j \in Key |-> IF j = k THEN issued[j] + 1 ELSE issued[j]]
    BY <1>3 DEF IssuedTyped
  <2>2. \A j \in Key : issued[j] \in Nat /\ issued'[j] \in {issued[j], issued[j] + 1}
    BY <2>1 DEF IssuedTyped
  <2>3. IssuedTyped'
    BY <2>1, <2>2 DEF IssuedTyped
  <2>4. KeysFresh' => KeysFresh
    BY <2>2 DEF KeysFresh
  <2> QED BY <2>3, <2>4
<1> QED
  BY <1>1, <1>2, <1>3

\* So it holds until the first second issue, whatever agents name.
LEMMA RecordsKept == Spec => [](KeysFresh => RecordsInv)
<1>1. Init => IssuedTyped /\ RecordsInv
  BY InitIInv DEF IInv, RecordsInv, TypeInv, IssuedTyped
<1>2. IssuedTyped /\ (KeysFresh => RecordsInv) /\ [Next]_vars
        => IssuedTyped' /\ (KeysFresh' => RecordsInv')
  BY IssuedGrows, RecordsPreserved
<1> QED
  BY <1>1, <1>2, PTL DEF Spec

\* IInv is inductive.
LEMMA Inductive == ~NamesOthers => (Spec /\ []CapCovers => []IInv)
<1> SUFFICES ASSUME ~NamesOthers PROVE Spec /\ []CapCovers => []IInv
  OBVIOUS
<1>1. IInv /\ CapCovers /\ [Next]_vars => IInv'
  <2> SUFFICES ASSUME IInv, CapCovers, [Next]_vars PROVE IInv'
    OBVIOUS
  <2>1. LatestInv' /\ KeysFresh'
    BY LatestPreserved
  <2>2. RecordsInv'
    BY <2>1, RecordsPreserved DEF IInv
  <2>3. named' = {}
    BY NamesNone DEF IInv
  <2> QED BY <2>1, <2>2, <2>3 DEF IInv
<1> QED
  BY InitIInv, <1>1, PTL DEF Spec

\* Where agents name no keys but their own dispatch's, and the caps leave room
\* for the keys in hand and for what is written in one second, no key of a
\* dispatch or of an update is ever handed out a second time, however
\* allocations, writes and compactions interleave (AllocKey, memory.go:187, and
\* compactStoreLocked).
THEOREM KeysStayFresh == ~NamesOthers => (Spec /\ []CapCovers => []KeysFresh)
<1>1. IInv => KeysFresh
  BY DEF IInv
<1> QED
  BY Inductive, <1>1, PTL

\* Whatever agents name, and whatever the caps: as long as no key is handed out
\* twice, the only authoritative record that may be lost is one whose key
\* another dispatch's agent named; any other is live, or the digest has it
\* (runAuthor, Upsert and compactStoreLocked).
THEOREM ResultsStay == Spec => [](KeysFresh => NoResultLost)
<1>1. (KeysFresh => RecordsInv) => (KeysFresh => NoResultLost)
  BY DEF RecordsInv
<1> QED
  BY RecordsKept, <1>1, PTL

\* And the routing decision of an agent that runs is on record until the agent
\* itself writes over it, or another dispatch's agent names its key (runAuthor,
\* compactStoreLocked).
THEOREM DecisionsStay == Spec => [](KeysFresh => IntentOnRecord)
<1>1. (KeysFresh => RecordsInv) => (KeysFresh => IntentOnRecord)
  BY DEF RecordsInv, DecisionInv, IntentOnRecord, Reals
<1> QED
  BY RecordsKept, <1>1, PTL
=============================================================================
