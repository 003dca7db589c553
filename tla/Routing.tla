------------------------------ MODULE Routing ------------------------------
(***************************************************************************)
(* Routing and its calibration: a dispatch's task is scored and gets an    *)
(* agent and a model (internal/routing), its outcome becomes a line of     *)
(* dispatch.log (internal/orchestrator), the calibrate tool derives        *)
(* overrides from the log (internal/calibrate), and the next start of the  *)
(* server overlays them on the thresholds by which tasks are scored.       *)
(*                                                                         *)
(* Weights, scores and thresholds are counted in tenths, as are strengths. *)
(* A task is what ScoreTask sees of it: how many patterns of each signal   *)
(* occur in it.  A line of the log is its tier and whether it says ok.     *)
(***************************************************************************)
EXTENDS Integers, Sequences, FiniteSets, Functions, FiniteSetsExt, SequencesExt

CONSTANTS
  Agent, Signal,
  nameRank,          \* an agent's rank in the order of agent names
  agents,            \* models.json: agent -> tier -> model
  costRank,          \* models.json: profiled agent -> cost_rank
  strength,          \* models.json: profiled agent -> signal -> strength
  defaultAgent,      \* models.json: tier -> agent, used without profiles
  weight, bands,     \* routing_policy.json: per signal; the assess bands
  defaultThresholds, \* routing_policy.json: gated tier -> threshold
  Task,              \* the tasks dispatched, signal -> patterns that occur
  Request,           \* the hints: [agent, model, priority], each maybe None
  Installed,         \* what PATH may hold at different times: sets of agents
  Dispatcher,        \* concurrent dispatches
  maxDispatchLogSize,\* in lines
  MaxDispatches,     \* bound: dispatches
  MaxRestarts,       \* bound: restarts of the server
  None

ASSUME RoutingAssumption ==
  /\ None \notin Agent
  /\ \A a \in Agent : DOMAIN agents[a] \subseteq {"trivial", "standard", "hard"}
  /\ nameRank \in [Agent -> Nat]
  /\ costRank \in [DOMAIN costRank -> Nat] /\ DOMAIN costRank \subseteq Agent
  /\ strength \in [DOMAIN costRank -> [Signal -> Nat]]
  /\ weight \in [Signal -> Nat] /\ Task \subseteq [Signal -> Nat]
  /\ defaultThresholds \in [{"standard", "hard"} -> Nat]
  /\ Installed \subseteq SUBSET Agent
  /\ {MaxDispatches, MaxRestarts, maxDispatchLogSize} \subseteq Nat

perSignalCap == 2
minSample == 2
thresholdNudge == 5
gatedTiers == {"standard", "hard"}
Tier == gatedTiers \cup {"trivial"}

VARIABLES
  installed,       \* the agents whose CLI is on PATH
  thresholds,      \* routing.loadedPolicy.Thresholds
  file,            \* routing_overrides.json: gated tier -> threshold; or torn
  log, kept,       \* dispatch.log, dispatch.log.1: [tier, ok] -> such lines
  present,         \* is there a dispatch.log
  pc, sel,         \* per dispatcher: where it is, and how it was routed
  begun, restarts, \* dispatches and restarts so far
  logged,          \* history: [tier, ok] -> lines ever written
  raced            \* history: two have been about to rotate the log at once

vars == <<installed, thresholds, file, log, present, kept, pc, sel, begun,
          restarts, logged, raced>>

Label == Tier \cup {"explicit"}
Line == [tier : Label, ok : BOOLEAN]
NoLines == [l \in Line |-> 0]
Of(t, lines) == lines[[tier |-> t, ok |-> TRUE]] + lines[[tier |-> t, ok |-> FALSE]]
Size(lines) ==
  Of("trivial", lines) + Of("standard", lines) + Of("hard", lines) + Of("explicit", lines)
Torn == [torn |-> TRUE]
NoFile == <<>>
Refused == [agent |-> None, model |-> None, tier |-> "explicit"]

-----------------------------------------------------------------------------
(* Scoring and selection.                                                  *)

Contribution(task, s) ==
  weight[s] * (IF task[s] > perSignalCap THEN perSignalCap ELSE task[s])
Total == [task \in Task |->
            MapThenSumSet(LAMBDA s : Contribution(task, s), Signal)]

TierOf(total) ==
  IF total >= thresholds["hard"] THEN "hard"
  ELSE IF total >= thresholds["standard"] THEN "standard" ELSE "trivial"

\* Near a threshold an assessor, if it is enabled, may say any tier.
inAssessBand(total) == \E b \in bands : total \in b[1]..b[2]
Difficulty(task) ==
  {TierOf(Total[task])} \cup (IF inAssessBand(Total[task]) THEN Tier ELSE {})

\* An agent without a profile covers nothing, and is maximally expensive.
Coverage ==
  [a \in Agent, task \in Task |->
     IF a \in DOMAIN costRank
       THEN MapThenSumSet(LAMBDA s : Contribution(task, s) * strength[a][s], Signal)
       ELSE 0]
Cost(a) == IF a \in DOMAIN costRank THEN costRank[a] ELSE 2^31 - 1

betterCandidate(a, b, task, priority) ==
  LET byCost == Cost(a) < Cost(b)
      byCoverage == Coverage[a, task] > Coverage[b, task]
      costTie == Cost(a) = Cost(b)
      coverageTie == Coverage[a, task] = Coverage[b, task]
  IN
  \/ IF priority \in {"cost", "latency"}
       THEN byCost \/ (costTie /\ byCoverage)
       ELSE byCoverage \/ (coverageTie /\ byCost)
  \/ costTie /\ coverageTie /\ nameRank[a] < nameRank[b]

Candidates(tier) == {a \in installed : tier \in DOMAIN agents[a]}

\* The candidates are scanned in the order of their names for the best.
ByName == SetToSortSeq(Agent, LAMBDA a, b : nameRank[a] < nameRank[b])
chooseByProfile(tier, task, priority) ==
  FoldLeft(LAMBDA best, a :
             IF best = None \/ betterCandidate(a, best, task, priority)
               THEN a ELSE best,
           None,
           SelectSeq(ByName, LAMBDA a : a \in Candidates(tier)))

\* Without profiles the tier's default agent is taken, if it is installed.
AgentFor(tier, task, priority) ==
  IF DOMAIN costRank = {} /\ defaultAgent[tier] \in installed
    THEN defaultAgent[tier]
    ELSE chooseByProfile(tier, task, priority)

Lists(a, model) == {tier \in DOMAIN agents[a] : agents[a][tier] = model}

\* A pinned model runs verbatim, on the agent given or the one that lists it.
Pinned(r) ==
  LET owners == {a \in Agent : Lists(a, r.model) # {}}
      a == IF r.agent # None \/ owners = {} THEN r.agent
           ELSE CHOOSE o \in owners : \A x \in owners : nameRank[o] <= nameRank[x]
  IN
  IF a \notin installed THEN Refused
  ELSE [agent |-> a, model |-> r.model,
        tier |-> IF Lists(a, r.model) = {} THEN "explicit"
                 ELSE CHOOSE tier \in Lists(a, r.model) : TRUE]

Scored(r, task, tier) ==
  LET a == IF r.agent # None THEN r.agent ELSE AgentFor(tier, task, r.priority) IN
  IF a \notin installed \/ tier \notin DOMAIN agents[a] THEN Refused
  ELSE [agent |-> a, model |-> agents[a][tier], tier |-> tier]

SelectModel(r, task, tier) ==
  IF r.model # None THEN Pinned(r) ELSE Scored(r, task, tier)

-----------------------------------------------------------------------------
(* Calibration.                                                            *)

\* A tier is flagged if more than a fifth of its lines are not ok.
FlaggedBySingle(t) == 5 * log[[tier |-> t, ok |-> FALSE]] > Of(t, log)
Flagged(t) ==
  Of(t, log) >= minSample /\ 5 * log[[tier |-> t, ok |-> FALSE]] > Of(t, log)

\* Mutant of DeriveOverrides: the nudge starts from what the file says.
DeriveFromFile ==
  [t \in {x \in gatedTiers : Flagged(x)} |->
     thresholdNudge + IF t \in DOMAIN file THEN file[t] ELSE thresholds[t]]

DeriveOverrides ==
  [t \in {x \in gatedTiers : Flagged(x)} |-> thresholds[t] + thresholdNudge]

ApplyOverrides ==
  [t \in gatedTiers |->
     IF file # Torn /\ t \in DOMAIN file THEN file[t] ELSE defaultThresholds[t]]

-----------------------------------------------------------------------------

Init ==
  /\ installed \in Installed
  /\ thresholds = defaultThresholds
  /\ file = NoFile
  /\ log = NoLines /\ present = FALSE /\ kept = NoLines
  /\ pc = [d \in Dispatcher |-> "idle"]
  /\ sel = [d \in Dispatcher |-> None]
  /\ begun = 0 /\ restarts = 0
  /\ logged = NoLines /\ raced = FALSE

Goto(d, from, to) == pc[d] = from /\ pc' = [pc EXCEPT ![d] = to]

\* runAuthor routes the task by the thresholds and the agents of the moment;
\* a refused route is an error to the host and leaves no trace.
Route(d, r, task, tier) ==
  /\ Goto(d, "idle", "run") /\ begun < MaxDispatches
  /\ tier \in Difficulty(task)
  /\ LET s == SelectModel(r, task, tier) IN
       s # Refused /\ sel' = [sel EXCEPT ![d] = [tier |-> s.tier, ok |-> TRUE]]
  /\ begun' = begun + 1
  /\ UNCHANGED <<installed, thresholds, file, log, present, kept, restarts, logged, raced>>

\* Mutant of Full: a log is rotated as soon as there is one.
FullAtOnce == Size(log) > 0

\* rotateDispatchLogIfNeeded: at its limit dispatch.log is to be rotated.
Full == Size(log) >= maxDispatchLogSize

\* The dispatch ends.  Its line is due, and the log is looked at first.
Finish(d, ok) ==
  /\ Goto(d, "run", IF Full THEN "rotate" ELSE "append")
  /\ sel' = [sel EXCEPT ![d].ok = ok]
  /\ raced' = (raced \/ (Full /\ \E o \in Dispatcher : pc[o] = "rotate"))
  /\ UNCHANGED <<installed, thresholds, file, log, present, kept, begun, restarts, logged>>

\* What is dispatch.log by now becomes dispatch.log.1, in the place of what
\* that was; or the rename fails, as it does if another has renamed the log.
Rotate(d) ==
  /\ Goto(d, "rotate", "append")
  /\ \/ present /\ present' = FALSE /\ log' = NoLines /\ kept' = log
     \/ UNCHANGED <<log, present, kept>>
  /\ UNCHANGED <<installed, thresholds, file, sel, begun, restarts, logged, raced>>

\* The line is appended; a failure is noted and otherwise ignored, and may
\* leave a log without it; and a run that ended before its line was due leaves
\* none either.
AppendLine(d) ==
  /\ Goto(d, "append", "idle")
  /\ \/ /\ log' = [log EXCEPT ![sel[d]] = @ + 1]
        /\ present' = TRUE
        /\ logged' = [logged EXCEPT ![sel[d]] = @ + 1]
     \/ present' \in {present, TRUE} /\ UNCHANGED <<log, logged>>
  /\ sel' = [sel EXCEPT ![d] = None]
  /\ UNCHANGED <<installed, thresholds, file, kept, begun, restarts, raced>>

\* calibrate with apply=true writes what it derives, if that is anything.
Calibrate ==
  /\ DeriveOverrides # <<>>
  /\ file' = DeriveOverrides
  /\ UNCHANGED <<installed, thresholds, log, present, kept, pc, sel, begun, restarts, logged,
                 raced>>

\* The server starts again, and with it the dispatches in flight are gone; it
\* may have died while it wrote the overrides.
Restart ==
  /\ restarts < MaxRestarts
  /\ restarts' = restarts + 1
  /\ pc' = [d \in Dispatcher |-> "idle"]
  /\ sel' = [d \in Dispatcher |-> None]
  /\ \/ file' = file
     \/ DeriveOverrides # <<>> /\ file' = Torn
  /\ thresholds' = ApplyOverrides'
  /\ UNCHANGED <<installed, log, present, kept, begun, logged, raced>>

\* Agents' CLIs come and go.
Install ==
  /\ installed' \in Installed \ {installed}
  /\ UNCHANGED <<thresholds, file, log, present, kept, pc, sel, begun, restarts, logged, raced>>

Next ==
  \/ \E d \in Dispatcher :
       \/ \E r \in Request, task \in Task, tier \in Tier : Route(d, r, task, tier)
       \/ \E ok \in BOOLEAN : Finish(d, ok)
       \/ Rotate(d) \/ AppendLine(d)
  \/ Calibrate \/ Restart \/ Install

Spec == Init /\ [][Next]_vars

-----------------------------------------------------------------------------

\* Rotation loses no line that is among the latest maxDispatchLogSize, live or
\* in the one generation that is kept, whoever rotates and appends meanwhile,
\* unless two find the log full at once: the second then renames what has been
\* logged since over what the first has kept (orchestrator.go:1896-1903).
GenerationKept ==
  raced \/ Size(log) + Size(kept) >= Min({Size(logged), maxDispatchLogSize})

\* However often calibrate is applied, and whatever was applied before earlier
\* restarts, the file is never more than one nudge away from the thresholds in
\* force: one apply moves a boundary only slightly (calibrate.go:515-520).
OneNudge ==
  file # Torn => \A t \in DOMAIN file :
    file[t] \in {thresholds[t], thresholds[t] + thresholdNudge}

\* A threshold is above its default only on the evidence of a sample: at least
\* minSample dispatches logged in that very tier, some of which failed, however
\* the log was rotated and the server restarted since (calibrate.go:556-566).
RiseIsEvidenced ==
  \A t \in gatedTiers : thresholds[t] > defaultThresholds[t] =>
    LET bad == logged[[tier |-> t, ok |-> FALSE]] IN
    bad > 0 /\ bad + logged[[tier |-> t, ok |-> TRUE]] >= minSample
=============================================================================
