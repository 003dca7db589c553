--------------------------- MODULE RoutingProofs ---------------------------
(***************************************************************************)
(* Proofs about Routing and its calibration, for any routing tables, tasks *)
(* and dispatchers, and any limit of dispatch.log.                         *)
(***************************************************************************)
EXTENDS Routing, TLAPS

States == {"idle", "run", "rotate", "append"}

\* What is due is a line; a threshold is a number; what the file holds, if it
\* was not torn, is about gated tiers.
TypeInv ==
  /\ installed \in SUBSET Agent
  /\ thresholds \in [gatedTiers -> Nat]
  /\ file # Torn => /\ DOMAIN file \subseteq gatedTiers
                    /\ \A t \in DOMAIN file : file[t] \in Nat
  /\ log \in [Line -> Nat] /\ kept \in [Line -> Nat] /\ logged \in [Line -> Nat]
  /\ pc \in [Dispatcher -> States]
  /\ sel \in [Dispatcher -> Line \cup {None}]
  /\ \A d \in Dispatcher : pc[d] # "idle" => sel[d] \in Line
  /\ raced \in BOOLEAN

\* What says so has been logged.
Evidence(t) ==
  LET bad == logged[[tier |-> t, ok |-> FALSE]] IN
  bad > 0 /\ bad + logged[[tier |-> t, ok |-> TRUE]] >= minSample

\* A rise that is in force, or will be after the next start, is evidenced.
EvidenceInv ==
  /\ \A l \in Line : log[l] <= logged[l]
  /\ file # Torn => \A t \in DOMAIN file : Evidence(t)
  /\ \A t \in gatedTiers : thresholds[t] > defaultThresholds[t] => Evidence(t)

\* Until two find the log full at once, only one rotates it, and it is full.
RotateInv ==
  ~raced =>
    /\ \A d, e \in Dispatcher : pc[d] = "rotate" /\ pc[e] = "rotate" => d = e
    /\ (\E d \in Dispatcher : pc[d] = "rotate") => Full
    /\ GenerationKept

IInv == TypeInv /\ EvidenceInv /\ OneNudge /\ RotateInv

\* The smaller of two numbers.
LEMMA MinOfTwo ==
  ASSUME NEW a \in Nat, NEW b \in Nat
  PROVE  Min({a, b}) = IF a <= b THEN a ELSE b
<1>1. CASE a <= b
  BY <1>1 DEF Min
<1>2. CASE ~(a <= b)
  BY <1>2 DEF Min
<1> QED
  BY <1>1, <1>2

\* A line appended makes the log longer by one.
LEMMA SizeUp ==
  ASSUME NEW lines \in [Line -> Nat], NEW l \in Line
  PROVE  /\ Size(lines) \in Nat
         /\ Size([lines EXCEPT ![l] = @ + 1]) = Size(lines) + 1
<1> DEFINE up == [lines EXCEPT ![l] = @ + 1]
<1>1. \A t \in Label, ok \in BOOLEAN :
        /\ [tier |-> t, ok |-> ok] \in Line
        /\ lines[[tier |-> t, ok |-> ok]] \in Nat
        /\ up[[tier |-> t, ok |-> ok]] = IF l = [tier |-> t, ok |-> ok]
                                         THEN lines[[tier |-> t, ok |-> ok]] + 1
                                         ELSE lines[[tier |-> t, ok |-> ok]]
  BY DEF Line
<1>2. PICK tier \in Label, ok \in BOOLEAN : l = [tier |-> tier, ok |-> ok]
  BY DEF Line
<1> HIDE DEF up
<1>3. \A t \in Label : /\ Of(t, lines) \in Nat
                       /\ Of(t, up) = IF t = tier THEN Of(t, lines) + 1 ELSE Of(t, lines)
  <2> SUFFICES ASSUME NEW t \in Label
               PROVE  /\ Of(t, lines) \in Nat
                      /\ Of(t, up) = IF t = tier THEN Of(t, lines) + 1 ELSE Of(t, lines)
    OBVIOUS
  <2>1. \A o \in BOOLEAN : (l = [tier |-> t, ok |-> o]) <=> (tier = t /\ ok = o)
    BY <1>2
  <2> DEFINE good == lines[[tier |-> t, ok |-> TRUE]]
             bad == lines[[tier |-> t, ok |-> FALSE]]
             nowGood == up[[tier |-> t, ok |-> TRUE]]
             nowBad == up[[tier |-> t, ok |-> FALSE]]
  <2>2. /\ good \in Nat /\ bad \in Nat
        /\ nowGood = IF t = tier /\ ok = TRUE THEN good + 1 ELSE good
        /\ nowBad = IF t = tier /\ ok = FALSE THEN bad + 1 ELSE bad
    BY <1>1, <2>1
  <2>3. Of(t, lines) = good + bad /\ Of(t, up) = nowGood + nowBad
    BY DEF Of
  <2> HIDE DEF good, bad, nowGood, nowBad
  <2>4. CASE ok
    <3>1. nowBad = bad /\ nowGood = IF t = tier THEN good + 1 ELSE good
      BY <2>2, <2>4
    <3> QED BY <2>2, <2>3, <3>1
  <2>5. CASE ~ok
    <3>1. nowGood = good /\ nowBad = IF t = tier THEN bad + 1 ELSE bad
      BY <2>2, <2>5
    <3> QED BY <2>2, <2>3, <3>1
  <2> QED BY <2>4, <2>5
<1>4. Label = {"trivial", "standard", "hard", "explicit"}
  BY DEF Label, Tier, gatedTiers
<1> QED
  BY <1>3, <1>4 DEF Size, up

\* The empty log has no lines.
LEMMA SizeOfNone == Size(NoLines) = 0 /\ NoLines \in [Line -> Nat]
<1>1. \A t \in Label : Of(t, NoLines) = 0
  <2> TAKE t \in Label
  <2>1. [tier |-> t, ok |-> TRUE] \in Line /\ [tier |-> t, ok |-> FALSE] \in Line
    BY DEF Line
  <2> QED BY <2>1 DEF Of, NoLines
<1>2. Label = {"trivial", "standard", "hard", "explicit"}
  BY DEF Label, Tier, gatedTiers
<1>3. Size(NoLines) = 0
  BY <1>1, <1>2 DEF Size
<1> QED
  BY <1>3 DEF NoLines

\* However a dispatch is routed, it is logged under a tier or as explicit.
LEMMA SelectModelLabels ==
  ASSUME installed \in SUBSET Agent, NEW r, NEW task, NEW tier \in Tier
  PROVE  SelectModel(r, task, tier).tier \in Label
<1>1. Refused.tier \in Label
  BY DEF Refused, Label
<1>2. Scored(r, task, tier).tier \in Label
  BY <1>1 DEF Scored, Label
<1>3. Pinned(r).tier \in Label
  <2> DEFINE owners == {a \in Agent : Lists(a, r.model) # {}}
             a == IF r.agent # None \/ owners = {} THEN r.agent
                  ELSE CHOOSE o \in owners : \A x \in owners : nameRank[o] <= nameRank[x]
  <2> HIDE DEF a
  <2>1. Pinned(r) = IF a \notin installed THEN Refused
                    ELSE [agent |-> a, model |-> r.model,
                          tier |-> IF Lists(a, r.model) = {} THEN "explicit"
                                   ELSE CHOOSE t \in Lists(a, r.model) : TRUE]
    BY DEF Pinned, a
  <2>2. CASE a \notin installed
    BY <2>1, <2>2, <1>1
  <2>3. CASE a \in installed
    <3>1. Lists(a, r.model) \subseteq Label
      BY <2>3, RoutingAssumption DEF Lists, Label, Tier, gatedTiers
    <3>2. CASE Lists(a, r.model) = {}
      BY <2>1, <2>3, <3>2 DEF Label
    <3>3. CASE Lists(a, r.model) # {}
      <4>1. (CHOOSE t \in Lists(a, r.model) : TRUE) \in Lists(a, r.model)
        BY <3>3
      <4> QED BY <2>1, <2>3, <3>1, <3>3, <4>1
    <3> QED BY <3>2, <3>3
  <2> QED BY <2>2, <2>3
<1> QED
  BY <1>2, <1>3 DEF SelectModel

\* The server starts with the default thresholds and an empty log.
LEMMA InitIInv == Init => IInv
<1> SUFFICES ASSUME Init PROVE IInv
  OBVIOUS
<1>1. DOMAIN file = {} /\ thresholds \in [gatedTiers -> Nat]
  BY RoutingAssumption DEF Init, NoFile, gatedTiers
<1>2. TypeInv
  BY <1>1, SizeOfNone, RoutingAssumption DEF Init, TypeInv, States
<1>3. EvidenceInv
  <2>1. \A l \in Line : NoLines[l] = 0
    BY DEF NoLines
  <2>2. \A t \in gatedTiers : thresholds[t] = defaultThresholds[t] /\ thresholds[t] \in Nat
    BY <1>1 DEF Init
  <2>3. \A t \in gatedTiers : ~(thresholds[t] > defaultThresholds[t])
    BY <2>2
  <2> QED BY <1>1, <2>1, <2>3 DEF Init, EvidenceInv
<1>4. OneNudge
  BY <1>1 DEF OneNudge
<1>5. RotateInv
  <2>1. Min({0, maxDispatchLogSize}) = 0
    <3>1. maxDispatchLogSize \in Nat /\ 0 <= maxDispatchLogSize
      BY RoutingAssumption
    <3> QED BY <3>1, MinOfTwo
  <2> QED BY <2>1, SizeOfNone DEF Init, RotateInv, GenerationKept
<1> QED
  BY <1>2, <1>3, <1>4, <1>5 DEF IInv

\* After a start the thresholds are what the file overlays on the defaults.
LEMMA OverlaidThresholds ==
  ASSUME TypeInv', thresholds' = ApplyOverrides'
  PROVE  \A t \in gatedTiers :
           thresholds'[t] = IF file' # Torn /\ t \in DOMAIN file'
                            THEN file'[t] ELSE defaultThresholds[t]
BY DEF ApplyOverrides

\* What calibrate derives is one nudge above the thresholds in force.
LEMMA DerivedIsNudged ==
  /\ DOMAIN DeriveOverrides \subseteq gatedTiers
  /\ \A t \in DOMAIN DeriveOverrides :
       Flagged(t) /\ DeriveOverrides[t] = thresholds[t] + thresholdNudge
BY DEF DeriveOverrides

\* The variables keep their types.
LEMMA TypePreserved == TypeInv /\ [Next]_vars => TypeInv'
<1> SUFFICES ASSUME TypeInv, [Next]_vars PROVE TypeInv'
  OBVIOUS
<1>1. ASSUME NEW d \in Dispatcher, NEW r \in Request, NEW task \in Task, NEW tier \in Tier,
             Route(d, r, task, tier)
      PROVE  TypeInv'
  <2> DEFINE line == [tier |-> SelectModel(r, task, tier).tier, ok |-> TRUE]
  <2>1. line \in Line
    BY SelectModelLabels DEF TypeInv, Line
  <2>2. sel' = [sel EXCEPT ![d] = line] /\ pc' = [pc EXCEPT ![d] = "run"]
    BY <1>1 DEF Route, Goto
  <2> HIDE DEF line
  <2>3. UNCHANGED <<installed, thresholds, file, log, kept, logged, raced>>
    BY <1>1 DEF Route
  <2> QED BY <2>1, <2>2, <2>3 DEF TypeInv, States
<1>2. ASSUME NEW d \in Dispatcher, NEW ok \in BOOLEAN, Finish(d, ok) PROVE TypeInv'
  <2>1. sel[d] \in Line /\ pc[d] = "run"
    BY <1>2 DEF Finish, Goto, TypeInv
  <2>2. [sel[d] EXCEPT !.ok = ok] \in Line
    BY <2>1 DEF Line
  <2>3. sel' = [sel EXCEPT ![d] = [sel[d] EXCEPT !.ok = ok]]
    BY <1>2, <2>1 DEF Finish, TypeInv
  <2>4. sel' \in [Dispatcher -> Line \cup {None}] /\ sel'[d] \in Line
        /\ \A e \in Dispatcher : e # d => sel'[e] = sel[e]
    BY <2>2, <2>3 DEF TypeInv
  <2>5. PICK to \in States : pc' = [pc EXCEPT ![d] = to]
    BY <1>2 DEF Finish, Goto, States
  <2>6. pc' \in [Dispatcher -> States] /\ \A e \in Dispatcher : e # d => pc'[e] = pc[e]
    BY <2>5 DEF TypeInv
  <2>7. \A e \in Dispatcher : pc'[e] # "idle" => sel'[e] \in Line
    BY <2>4, <2>6 DEF TypeInv
  <2>8. raced' \in BOOLEAN /\ UNCHANGED <<installed, thresholds, file, log, kept, logged>>
    BY <1>2 DEF Finish
  <2> QED BY <2>4, <2>6, <2>7, <2>8 DEF TypeInv
<1>3. ASSUME NEW d \in Dispatcher, Rotate(d) PROVE TypeInv'
  BY <1>3, SizeOfNone DEF Rotate, Goto, TypeInv, States
<1>4. ASSUME NEW d \in Dispatcher, AppendLine(d) PROVE TypeInv'
  <2>1. sel[d] \in Line
    BY <1>4 DEF AppendLine, Goto, TypeInv
  <2>2. log' \in [Line -> Nat] /\ logged' \in [Line -> Nat]
    <3>1. \/ /\ log' = [log EXCEPT ![sel[d]] = @ + 1]
             /\ logged' = [logged EXCEPT ![sel[d]] = @ + 1]
          \/ UNCHANGED <<log, logged>>
      BY <1>4, Zenon DEF AppendLine
    <3> QED BY <2>1, <3>1 DEF TypeInv
  <2>3. pc' = [pc EXCEPT ![d] = "idle"] /\ sel' = [sel EXCEPT ![d] = None]
        /\ UNCHANGED <<installed, thresholds, file, kept, raced>>
    BY <1>4 DEF AppendLine, Goto
  <2> QED BY <2>2, <2>3 DEF TypeInv, States
<1>5. CASE Calibrate
  <2>1. \A t \in gatedTiers : thresholds[t] + thresholdNudge \in Nat
    BY DEF TypeInv, thresholdNudge
  <2>2. /\ DOMAIN file' \subseteq gatedTiers
        /\ \A t \in DOMAIN file' : file'[t] \in Nat
    BY <1>5, <2>1, DerivedIsNudged DEF Calibrate
  <2> QED BY <1>5, <2>2 DEF Calibrate, TypeInv
<1>6. CASE Restart
  <2>1. file' # Torn => file' = file
    BY <1>6 DEF Restart
  <2>2. file' # Torn => /\ DOMAIN file' \subseteq gatedTiers
                        /\ \A t \in DOMAIN file' : file'[t] \in Nat
    BY <2>1 DEF TypeInv
  <2>3. thresholds' = [t \in gatedTiers |->
           IF file' # Torn /\ t \in DOMAIN file' THEN file'[t] ELSE defaultThresholds[t]]
    BY <1>6 DEF Restart, ApplyOverrides
  <2>4. thresholds' \in [gatedTiers -> Nat]
    BY <2>2, <2>3, RoutingAssumption DEF gatedTiers
  <2>5. /\ pc' = [d \in Dispatcher |-> "idle"] /\ sel' = [d \in Dispatcher |-> None]
        /\ UNCHANGED <<installed, log, kept, logged, raced>>
    BY <1>6 DEF Restart
  <2> QED BY <2>2, <2>4, <2>5 DEF TypeInv, States
<1>7. CASE Install
  BY <1>7, RoutingAssumption DEF Install, TypeInv
<1>8. CASE UNCHANGED vars
  BY <1>8 DEF vars, TypeInv
<1> QED
  BY <1>1, <1>2, <1>3, <1>4, <1>5, <1>6, <1>7, <1>8 DEF Next

\* What is in force, and what the file says, has been seen in the log.
LEMMA EvidencePreserved ==
  TypeInv /\ TypeInv' /\ EvidenceInv /\ [Next]_vars => EvidenceInv'
<1> SUFFICES ASSUME TypeInv, TypeInv', EvidenceInv, [Next]_vars PROVE EvidenceInv'
  OBVIOUS
<1>0. \A t \in gatedTiers, ok \in BOOLEAN :
        /\ [tier |-> t, ok |-> ok] \in Line
        /\ log[[tier |-> t, ok |-> ok]] \in Nat
        /\ logged[[tier |-> t, ok |-> ok]] \in Nat
  BY DEF Line, Label, Tier, TypeInv
<1>a. ASSUME UNCHANGED <<thresholds, file, log, logged>> PROVE EvidenceInv'
  BY <1>a DEF EvidenceInv, Evidence
<1>1. ASSUME NEW d \in Dispatcher, NEW r \in Request, NEW task \in Task, NEW tier \in Tier,
             Route(d, r, task, tier)
      PROVE  EvidenceInv'
  BY <1>1, <1>a DEF Route
<1>2. ASSUME NEW d \in Dispatcher, NEW ok \in BOOLEAN, Finish(d, ok) PROVE EvidenceInv'
  BY <1>2, <1>a DEF Finish
<1>3. ASSUME NEW d \in Dispatcher, Rotate(d) PROVE EvidenceInv'
  <2>1. \A l \in Line : log'[l] <= logged'[l]
    BY <1>3 DEF Rotate, NoLines, EvidenceInv, TypeInv
  <2>2. UNCHANGED <<thresholds, file, logged>>
    BY <1>3 DEF Rotate
  <2> QED BY <2>1, <2>2 DEF EvidenceInv, Evidence
<1>4. ASSUME NEW d \in Dispatcher, AppendLine(d) PROVE EvidenceInv'
  <2>1. CASE UNCHANGED <<log, logged>>
    BY <1>4, <2>1, <1>a DEF AppendLine
  <2>2. CASE /\ log' = [log EXCEPT ![sel[d]] = @ + 1]
             /\ logged' = [logged EXCEPT ![sel[d]] = @ + 1]
    <3>1. \A l \in Line : log'[l] <= logged'[l] /\ logged'[l] >= logged[l]
      BY <2>2 DEF TypeInv, EvidenceInv
    <3>2. \A t \in gatedTiers : Evidence(t) => Evidence(t)'
      <4> SUFFICES ASSUME NEW t \in gatedTiers, Evidence(t) PROVE Evidence(t)'
        OBVIOUS
      <4> DEFINE bad == [tier |-> t, ok |-> FALSE]
                 good == [tier |-> t, ok |-> TRUE]
      <4>1. bad \in Line /\ good \in Line
        BY <1>0
      <4>2. /\ logged[bad] > 0 /\ logged[bad] + logged[good] >= minSample
            /\ logged'[bad] >= logged[bad] /\ logged'[good] >= logged[good]
            /\ {logged[bad], logged[good], logged'[bad], logged'[good], minSample} \subseteq Nat
        BY <4>1, <3>1 DEF Evidence, TypeInv, minSample
      <4> HIDE DEF bad, good
      <4>3. logged'[bad] > 0 /\ logged'[bad] + logged'[good] >= minSample
        BY <4>2
      <4> QED BY <4>3 DEF Evidence, bad, good
    <3>3. UNCHANGED <<thresholds, file>>
      BY <1>4 DEF AppendLine
    <3> QED BY <3>1, <3>2, <3>3 DEF EvidenceInv, TypeInv
  <2> QED BY <1>4, <2>1, <2>2 DEF AppendLine
<1>5. CASE Calibrate
  <2>1. \A t \in gatedTiers : Flagged(t) => Evidence(t)
    <3> SUFFICES ASSUME NEW t \in gatedTiers, Flagged(t) PROVE Evidence(t)
      OBVIOUS
    <3> DEFINE bad == [tier |-> t, ok |-> FALSE]
               good == [tier |-> t, ok |-> TRUE]
    <3>1. /\ log[good] + log[bad] >= minSample /\ 5 * log[bad] > log[good] + log[bad]
          /\ log[bad] <= logged[bad] /\ log[good] <= logged[good]
          /\ log[bad] \in Nat /\ log[good] \in Nat
          /\ logged[bad] \in Nat /\ logged[good] \in Nat /\ minSample \in Nat
      BY <1>0 DEF Flagged, Of, EvidenceInv, minSample
    <3> HIDE DEF bad, good
    <3>2. logged[bad] > 0 /\ logged[bad] + logged[good] >= minSample
      BY <3>1
    <3> QED BY <3>2 DEF Evidence, bad, good
  <2>2. /\ file' = DeriveOverrides
        /\ UNCHANGED <<thresholds, log, logged>>
    BY <1>5 DEF Calibrate
  <2>3. \A t \in DOMAIN file' : Evidence(t)'
    BY <2>1, <2>2, DerivedIsNudged DEF Evidence
  <2> QED BY <2>2, <2>3 DEF EvidenceInv, Evidence
<1>6. CASE Restart
  <2>1. UNCHANGED <<log, logged>> /\ (file' # Torn => file' = file)
        /\ thresholds' = ApplyOverrides'
    BY <1>6 DEF Restart
  <2>2. file' # Torn => \A t \in DOMAIN file' : Evidence(t)'
    BY <2>1 DEF EvidenceInv, Evidence
  <2>3. ASSUME NEW t \in gatedTiers, thresholds'[t] > defaultThresholds[t]
        PROVE  Evidence(t)'
    <3>1. defaultThresholds[t] \in Nat
      BY RoutingAssumption DEF gatedTiers
    <3>2. ~(defaultThresholds[t] > defaultThresholds[t])
      BY <3>1
    <3> QED BY <2>1, <2>2, <2>3, <3>2, OverlaidThresholds
  <2> QED BY <2>1, <2>2, <2>3 DEF EvidenceInv
<1>7. CASE Install
  BY <1>7, <1>a DEF Install
<1>8. CASE UNCHANGED vars
  BY <1>8, <1>a DEF vars
<1> QED
  BY <1>1, <1>2, <1>3, <1>4, <1>5, <1>6, <1>7, <1>8 DEF Next

\* A start takes the thresholds from the file, an apply the file from them.
LEMMA NudgePreserved == TypeInv /\ TypeInv' /\ OneNudge /\ [Next]_vars => OneNudge'
<1> SUFFICES ASSUME TypeInv, TypeInv', OneNudge, [Next]_vars PROVE OneNudge'
  OBVIOUS
<1>1. CASE UNCHANGED <<file, thresholds>>
  BY <1>1 DEF OneNudge
<1>2. CASE Calibrate
  <2>1. file' = DeriveOverrides /\ thresholds' = thresholds
    BY <1>2 DEF Calibrate
  <2>2. \A t \in DOMAIN file' : file'[t] = thresholds'[t] + thresholdNudge
    BY <2>1, DerivedIsNudged
  <2> QED BY <2>2 DEF OneNudge
<1>3. CASE Restart
  <2>1. thresholds' = ApplyOverrides'
    BY <1>3 DEF Restart
  <2>2. file' # Torn => \A t \in DOMAIN file' : t \in gatedTiers /\ file'[t] = thresholds'[t]
    BY <2>1, OverlaidThresholds DEF TypeInv
  <2> QED BY <2>2 DEF OneNudge
<1>4. Next => UNCHANGED <<file, thresholds>> \/ Calibrate \/ Restart
  BY DEF Next, Route, Finish, Rotate, AppendLine, Install
<1> QED
  BY <1>1, <1>2, <1>3, <1>4 DEF vars

\* A rotation keeps a full log, an append makes what is held longer by one.
LEMMA RotatePreserved == TypeInv /\ RotateInv /\ [Next]_vars => RotateInv'
<1> SUFFICES ASSUME TypeInv, RotateInv, [Next]_vars PROVE RotateInv'
  OBVIOUS
<1>0. /\ maxDispatchLogSize \in Nat
      /\ Size(log) \in Nat /\ Size(kept) \in Nat /\ Size(logged) \in Nat
  <2>1. [tier |-> "explicit", ok |-> TRUE] \in Line
    BY DEF Line, Label
  <2>2. Size(log) \in Nat /\ Size(kept) \in Nat /\ Size(logged) \in Nat
    BY <2>1, SizeUp DEF TypeInv
  <2> QED BY <2>2, RoutingAssumption
<1>a. ASSUME UNCHANGED <<log, kept, logged, raced>>,
             \A d \in Dispatcher : pc'[d] = "rotate" => pc[d] = "rotate"
      PROVE  RotateInv'
  BY <1>a DEF RotateInv, GenerationKept, Full
<1>1. ASSUME NEW d \in Dispatcher, NEW r \in Request, NEW task \in Task, NEW tier \in Tier,
             Route(d, r, task, tier)
      PROVE  RotateInv'
  BY <1>1, <1>a DEF Route, Goto, TypeInv
<1>2. ASSUME NEW d \in Dispatcher, NEW ok \in BOOLEAN, Finish(d, ok) PROVE RotateInv'
  <2>1. UNCHANGED <<log, kept, logged>>
        /\ raced' = (raced \/ (Full /\ \E o \in Dispatcher : pc[o] = "rotate"))
    BY <1>2 DEF Finish
  <2>2. CASE Full
    <3>1. pc' = [pc EXCEPT ![d] = "rotate"]
      BY <1>2, <2>2 DEF Finish, Goto
    <3>2. ~raced' => /\ ~raced /\ \A o \in Dispatcher : pc[o] # "rotate"
      BY <2>1, <2>2
    <3>3. Full'
      BY <2>1, <2>2 DEF Full
    <3>4. \A o \in Dispatcher : o # d => pc'[o] = pc[o]
      BY <3>1 DEF TypeInv
    <3> QED BY <2>1, <3>2, <3>3, <3>4 DEF RotateInv, GenerationKept
  <2>3. CASE ~Full
    <3>1. pc' = [pc EXCEPT ![d] = "append"] /\ (raced' <=> raced)
      BY <1>2, <2>1, <2>3 DEF Finish, Goto
    <3>2. \A o \in Dispatcher : pc'[o] = "rotate" => pc[o] = "rotate"
      BY <3>1 DEF TypeInv
    <3> QED BY <2>1, <3>1, <3>2 DEF RotateInv, GenerationKept, Full
  <2> QED BY <2>2, <2>3
<1>3. ASSUME NEW d \in Dispatcher, Rotate(d) PROVE RotateInv'
  <2>1. /\ pc[d] = "rotate" /\ pc' = [pc EXCEPT ![d] = "append"]
        /\ UNCHANGED <<logged, raced>>
    BY <1>3 DEF Rotate, Goto
  <2>2. \A o \in Dispatcher : pc'[o] = "rotate" => o # d /\ pc[o] = "rotate"
    BY <2>1 DEF TypeInv
  <2>3. CASE UNCHANGED <<log, kept>>
    BY <2>1, <2>2, <2>3, <1>a
  <2>4. CASE log' = NoLines /\ kept' = log
    <3> SUFFICES ASSUME ~raced PROVE RotateInv'
      BY <2>1 DEF RotateInv
    <3>1. Full /\ \A o \in Dispatcher : pc'[o] # "rotate"
      BY <2>1, <2>2 DEF RotateInv
    <3>2. Size(log') = 0 /\ Size(kept') = Size(log)
      BY <2>4, SizeOfNone
    <3>3. Min({Size(logged'), maxDispatchLogSize}) <= maxDispatchLogSize
      BY <1>0, <2>1, MinOfTwo
    <3>4. Size(log') + Size(kept') >= Min({Size(logged'), maxDispatchLogSize})
      <4>1. Min({Size(logged'), maxDispatchLogSize}) \in Nat
        BY <1>0, <2>1, MinOfTwo
      <4> QED BY <4>1, <3>1, <3>2, <3>3, <1>0 DEF Full
    <3> QED BY <3>1, <3>4 DEF RotateInv, GenerationKept
  <2> QED BY <1>3, <2>3, <2>4 DEF Rotate
<1>4. ASSUME NEW d \in Dispatcher, AppendLine(d) PROVE RotateInv'
  <2>1. /\ pc[d] = "append" /\ pc' = [pc EXCEPT ![d] = "idle"]
        /\ UNCHANGED <<kept, raced>>
    BY <1>4 DEF AppendLine, Goto
  <2>2. \A o \in Dispatcher : pc'[o] = "rotate" => pc[o] = "rotate"
    BY <2>1 DEF TypeInv
  <2>3. CASE UNCHANGED <<log, logged>>
    BY <2>1, <2>2, <2>3, <1>a
  <2>4. CASE /\ log' = [log EXCEPT ![sel[d]] = @ + 1]
             /\ logged' = [logged EXCEPT ![sel[d]] = @ + 1]
    <3> SUFFICES ASSUME ~raced PROVE RotateInv'
      BY <2>1 DEF RotateInv
    <3>1. sel[d] \in Line
      BY <2>1 DEF TypeInv
    <3>2. Size(log') = Size(log) + 1 /\ Size(logged') = Size(logged) + 1
      BY <2>4, <3>1, SizeUp DEF TypeInv
    <3>3. Full => Full'
      BY <3>2, <1>0 DEF Full
    <3>4. GenerationKept'
      <4>1. Size(log) + Size(kept) >= Min({Size(logged), maxDispatchLogSize})
        BY DEF RotateInv, GenerationKept
      <4>2. Min({Size(logged), maxDispatchLogSize}) =
              IF Size(logged) <= maxDispatchLogSize THEN Size(logged) ELSE maxDispatchLogSize
        BY <1>0, MinOfTwo
      <4>3. Min({Size(logged) + 1, maxDispatchLogSize}) =
              IF Size(logged) + 1 <= maxDispatchLogSize THEN Size(logged) + 1
                                                        ELSE maxDispatchLogSize
        BY <1>0, MinOfTwo
      <4>4. Size(log) + 1 + Size(kept) >= Min({Size(logged) + 1, maxDispatchLogSize})
        BY <4>1, <4>2, <4>3, <1>0
      <4> QED BY <4>4, <3>2, <2>1 DEF GenerationKept
    <3> QED BY <3>3, <3>4, <2>1, <2>2 DEF RotateInv
  <2> QED BY <1>4, <2>3, <2>4 DEF AppendLine
<1>5. CASE Calibrate
  BY <1>5, <1>a DEF Calibrate
<1>6. CASE Restart
  BY <1>6, <1>a DEF Restart
<1>7. CASE Install
  BY <1>7, <1>a DEF Install
<1>8. CASE UNCHANGED vars
  BY <1>8, <1>a DEF vars
<1> QED
  BY <1>1, <1>2, <1>3, <1>4, <1>5, <1>6, <1>7, <1>8 DEF Next

\* IInv is inductive.
LEMMA Inductive == Spec => []IInv
<1>1. IInv /\ [Next]_vars => IInv'
  BY TypePreserved, EvidencePreserved, NudgePreserved, RotatePreserved DEF IInv
<1> QED
  BY InitIInv, <1>1, PTL DEF Spec

\* Applying calibration any number of times, with any restarts between, never
\* puts the file more than one nudge from the thresholds in force
\* (Report.DeriveOverrides and routing.ApplyOverrides).
THEOREM OneNudgeAtMost == Spec => []OneNudge
BY Inductive, PTL DEF IInv

\* No threshold rises without a sample of that very tier in the log, some of it
\* failed, whatever was rotated away since (Report.DeriveOverrides).
THEOREM RisesAreEvidenced == Spec => []RiseIsEvidenced
<1>1. IInv => RiseIsEvidenced
  BY DEF IInv, EvidenceInv, Evidence, RiseIsEvidenced
<1> QED
  BY Inductive, <1>1, PTL

\* As long as no two dispatches find the log full at once, the log and the one
\* generation kept hold the latest maxDispatchLogSize lines, for any limit and
\* any number of dispatches (rotateDispatchLogIfNeeded).
THEOREM RotationKeeps == Spec => []GenerationKept
<1>1. IInv => GenerationKept
  BY DEF IInv, RotateInv, GenerationKept
<1> QED
  BY Inductive, <1>1, PTL
=============================================================================
