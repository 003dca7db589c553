------------------------------ MODULE Consult -------------------------------
(***************************************************************************)
(* The orchestrator's read-only consultations: calls that run agents, or   *)
(* verify commands, and apply nothing.                                     *)
(*                                                                         *)
(*   dispatch_multi  DispatchMulti: every model proposes a solution, all   *)
(*                   at the same time, and a judge may join them;          *)
(*   plan            Plan: a planner's steps, stored under a key of its    *)
(*                   own;                                                  *)
(*   plan_gate       PlanGate: the integration commands, one after the     *)
(*                   other, and a judge of the goal.                       *)
(*                                                                         *)
(* Everything any of them waits for is a run of an external program        *)
(* (AgentRun) and everything an agent tells them is parsed from its output *)
(* (Output).  Run i > 0 is the i-th proposal or the i-th command; Lead is  *)
(* the planner's or the judge's.                                           *)
(***************************************************************************)
EXTENDS AgentRun, Output

CONSTANTS
  models,          \* DispatchMulti's models, in the caller's order
  agentOf,         \* the models of the tier tables -> the agent that lists them
  judgeModel,      \* the model that judges
  CmdLists,        \* verify_cmds a plan may have
  Allowed,         \* the commands ValidateVerifyCmds lets pass
  PlannerStdout    \* bound: what a planner may print besides

Lead == 0
Slot == DOMAIN models

ASSUME ConsultAssumption ==
  /\ models # <<>> /\ Slot \subseteq Nat \ {Lead}
  /\ Run = {Lead} \cup Slot \cup UNION {DOMAIN c : c \in CmdLists}
  /\ None \notin DOMAIN agentOf
  /\ \A cmds \in CmdLists : cmds \in Seq(STRING)
  /\ \A s \in PlannerStdout : s \in Seq(STRING)

VARIABLES
  req,             \* the call
  stage,           \* where it stands
  candidates,      \* dispatch_multi: slot -> Candidate, or None
  solutions,       \* dispatch_multi: what the judge was given
  at,              \* plan_gate: the command that is running
  passed,          \* plan_gate: VerifyResult.Passed
  stored,          \* plan: "none", "reserved" or "plan" under its key
  answer           \* what the caller is told, or None

consultVars == <<proc, req, stage, candidates, solutions, at, passed, stored, answer>>

\* What the parsers make of every text a program may print: a response, a
\* plan, a goal that is met.
Response == [out \in Stdout |-> ParseResponse(out)]
Plans == {out \in Stdout \cup PlannerStdout : ParsePlanResponse(out) # None}
GoalMet == {out \in Stdout : ParseGoalCheckResponse(out) = "met"}

Requests ==
  [tool : {"dispatch_multi"}, synthesis : {"none", "judge"}]
  \cup [tool : {"plan"}]
  \cup [tool : {"plan_gate"}, remaining : {0, 1}, cmds : CmdLists]

ConsultInit ==
  /\ ProcInit
  /\ req \in Requests
  /\ stage = CASE req.tool = "dispatch_multi" -> "propose"
            [] req.tool = "plan" -> "plan"
            [] req.tool = "plan_gate" -> "validate"
  /\ candidates = [i \in Slot |-> None]
  /\ solutions = <<>>
  /\ at = 1 /\ passed = TRUE
  /\ stored = "none"
  /\ answer = None

\* A pinned model names its agent, if a table lists it and the agent's program
\* is there at this moment.
Routes(model) ==
  {None} \cup {agentOf[m] : m \in {model} \cap DOMAIN agentOf}

Answer(a) == stage' = "answered" /\ answer' = a

-----------------------------------------------------------------------------
(* dispatch_multi.                                                         *)

Failed(agent, model) ==
  [agent |-> agent, model |-> model, result |-> <<>>, status |-> "error"]
Candidate(agent, model, out) ==
  [agent |-> agent, model |-> model, result |-> Response[out].result,
   status |-> Response[out].status]

\* Mutant of Collect: results are collected as they come in.
CollectNext(i, c) ==
  LET free == {k \in Slot : candidates[k] = None} IN
  candidates' = [candidates EXCEPT ![CHOOSE k \in free : \A j \in free : k <= j] = c]

\* Each goroutine writes its own index.
Collect(i, c) == candidates' = [candidates EXCEPT ![i] = c]

Proposing(i) == stage = "propose" /\ candidates[i] = None

\* The model cannot be routed, ...
NotRouted(i) ==
  /\ Proposing(i) /\ proc[i].state = "none"
  /\ None \in Routes(models[i])
  /\ Collect(i, Failed(None, models[i]))
  /\ UNCHANGED <<proc, req, stage, solutions, at, passed, stored, answer>>

Propose(i) ==
  /\ Proposing(i) /\ proc[i].state = "none"
  /\ Routes(models[i]) # {None}
  /\ Start(i)
  /\ UNCHANGED <<req, stage, candidates, solutions, at, passed, stored, answer>>

\* ... and a run that fails is a candidate with status "error" too.
Proposed(i) ==
  /\ Proposing(i) /\ Returned(i)
  /\ Collect(i, IF Succeeded(i) THEN Candidate(agentOf[models[i]], models[i], proc[i].out)
                            ELSE Failed(agentOf[models[i]], models[i]))
  /\ UNCHANGED <<proc, req, stage, solutions, at, passed, stored, answer>>

\* Mutant of Join: a candidate that failed is waited for as if it were to come.
JoinClean ==
  /\ \A i \in Slot : candidates[i] # None /\ candidates[i].status # "error"
  /\ stage = "propose"
  /\ IF req.synthesis = "judge"
       THEN /\ stage' = "judge"
            /\ solutions' = [i \in Slot |-> candidates[i].result]
            /\ UNCHANGED answer
       ELSE Answer("candidates") /\ UNCHANGED solutions
  /\ UNCHANGED <<proc, req, candidates, at, passed, stored>>

\* All have come in.  The judge gets every result, the empty ones too.
Join ==
  /\ stage = "propose" /\ \A i \in Slot : candidates[i] # None
  /\ IF req.synthesis = "judge"
       THEN /\ stage' = "judge"
            /\ solutions' = [i \in Slot |-> candidates[i].result]
            /\ UNCHANGED answer
       ELSE Answer("candidates") /\ UNCHANGED solutions
  /\ UNCHANGED <<proc, req, candidates, at, passed, stored>>

-----------------------------------------------------------------------------
(* plan_gate.                                                              *)

Validate ==
  /\ stage = "validate"
  /\ IF ToSet(req.cmds) \subseteq Allowed THEN stage' = "verify" /\ UNCHANGED answer
                                          ELSE Answer("error")
  /\ UNCHANGED <<proc, req, candidates, solutions, at, passed, stored>>

RunCommand ==
  /\ stage = "verify" /\ at \in DOMAIN req.cmds /\ proc[at].state = "none"
  /\ Start(at)
  /\ UNCHANGED <<req, stage, candidates, solutions, at, passed, stored, answer>>

\* Mutant of CommandReturns: the later commands run too, and the last decides.
CommandReturnsOn ==
  /\ stage = "verify" /\ at \in DOMAIN req.cmds /\ Returned(at)
  /\ at' = at + 1 /\ passed' = Succeeded(at)
  /\ UNCHANGED <<proc, req, stage, candidates, solutions, stored, answer>>

\* The first failure ends the verification.
CommandReturns ==
  /\ stage = "verify" /\ at \in DOMAIN req.cmds /\ Returned(at)
  /\ IF Succeeded(at) THEN at' = at + 1 /\ UNCHANGED <<stage, passed>>
                      ELSE stage' = "judge" /\ passed' = FALSE /\ UNCHANGED at
  /\ UNCHANGED <<proc, req, candidates, solutions, stored, answer>>

Verified ==
  /\ stage = "verify" /\ at \notin DOMAIN req.cmds
  /\ stage' = "judge"
  /\ UNCHANGED <<proc, req, candidates, solutions, at, passed, stored, answer>>

-----------------------------------------------------------------------------
(* The judges, and the planner.                                            *)

\* What is told when the judge has printed text, or None if it gave no answer.
\* A judge that fails leaves the candidates without a synthesis, and a goal
\* that could not be checked is not met.
Judged(text) ==
  IF req.tool = "dispatch_multi"
    THEN IF text = None THEN "candidates" ELSE "synthesis"
    ELSE IF /\ req.remaining = 0 /\ passed
            /\ text \in GoalMet
         THEN "stop" ELSE "go on"

JudgeUnavailable ==
  /\ stage = "judge" /\ proc[Lead].state = "none"
  /\ Answer(Judged(None))
  /\ UNCHANGED <<proc, req, candidates, solutions, at, passed, stored>>

Judge ==
  /\ stage = "judge" /\ proc[Lead].state = "none"
  /\ Routes(judgeModel) # {None}
  /\ Start(Lead)
  /\ UNCHANGED <<req, stage, candidates, solutions, at, passed, stored, answer>>

JudgeReturns ==
  /\ stage = "judge" /\ Returned(Lead)
  /\ Answer(Judged(IF Succeeded(Lead) THEN proc[Lead].out ELSE None))
  /\ UNCHANGED <<proc, req, candidates, solutions, at, passed, stored>>

\* The caller may name an agent there is no adapter for.
PlannerUnknown ==
  /\ stage = "plan" /\ proc[Lead].state = "none"
  /\ Answer("error")
  /\ UNCHANGED <<proc, req, candidates, solutions, at, passed, stored>>

Planner ==
  /\ stage = "plan" /\ proc[Lead].state = "none"
  /\ Start(Lead)
  /\ UNCHANGED <<req, stage, candidates, solutions, at, passed, stored, answer>>

PlannerReturns ==
  /\ stage = "plan" /\ Returned(Lead)
  /\ IF Succeeded(Lead) /\ proc[Lead].out \in Plans
       THEN stage' = "alloc" /\ UNCHANGED answer
       ELSE Answer("error")
  /\ UNCHANGED <<proc, req, candidates, solutions, at, passed, stored>>

\* The plan is returned whether or not it can be stored.
AllocKey ==
  /\ stage = "alloc"
  /\ \/ stored' = "reserved" /\ stage' = "upsert" /\ UNCHANGED answer
     \/ Answer("plan") /\ UNCHANGED stored
  /\ UNCHANGED <<proc, req, candidates, solutions, at, passed>>

\* Mutant of Upsert: the key is told although nothing was stored under it.
UpsertTold ==
  /\ stage = "upsert"
  /\ \/ stored' = "plan"
     \/ UNCHANGED stored
  /\ Answer("plan and key")
  /\ UNCHANGED <<proc, req, candidates, solutions, at, passed>>

Upsert ==
  /\ stage = "upsert"
  /\ \/ stored' = "plan" /\ Answer("plan and key")
     \/ Answer("plan") /\ UNCHANGED stored
  /\ UNCHANGED <<proc, req, candidates, solutions, at, passed>>

-----------------------------------------------------------------------------

Prints == Stdout \cup (IF req.tool = "plan" THEN PlannerStdout ELSE {})

\* Meanwhile the programs run on their own.
External(A) ==
  A /\ UNCHANGED <<req, stage, candidates, solutions, at, passed, stored, answer>>

Slots == \E i \in Slot : NotRouted(i) \/ Propose(i) \/ Proposed(i)
Orchestrator ==
  \/ Slots \/ Join
  \/ Validate \/ RunCommand \/ CommandReturns \/ Verified
  \/ JudgeUnavailable \/ Judge \/ JudgeReturns
  \/ PlannerUnknown \/ Planner \/ PlannerReturns \/ AllocKey \/ Upsert

ConsultNext == Orchestrator \/ (\E r \in Run : External(ProcStep(r, Prints)))

ConsultSpec == ConsultInit /\ [][ConsultNext]_consultVars

\* The goroutines run, and the deadline ends every program.
DeadlineSpec ==
  /\ ConsultSpec
  /\ WF_consultVars(Join) /\ WF_consultVars(Orchestrator)
  /\ \A i \in Slot : WF_consultVars(NotRouted(i) \/ Propose(i) \/ Proposed(i))
  /\ \A r \in Run : WF_consultVars(External(Kill(r)))

\* So does whatever a program leaves behind end, or let go of the pipe.
ConsultFairSpec == DeadlineSpec /\ \A r \in Run : WF_consultVars(External(LetGo(r)))

-----------------------------------------------------------------------------

Answered(tool) == stage = "answered" /\ req.tool = tool
Printed(r) == IF Succeeded(r) THEN proc[r].out ELSE None

\* However the goroutines of a fan-out interleave, candidate i is what the
\* i-th model printed, an error where its own run failed and nobody else's,
\* and the judge saw the same texts under the same numbers, all of them
\* (orchestrator.go:1162-1165, 1232-1236, 1273-1276).
Aligned ==
  Answered("dispatch_multi") =>
    /\ \A i \in Slot :
         /\ candidates[i].model = models[i]
         /\ IF Printed(i) = None
              THEN candidates[i].status = "error" /\ candidates[i].result = <<>>
              ELSE /\ candidates[i].agent = agentOf[models[i]]
                   /\ candidates[i].status = Response[Printed(i)].status
                   /\ candidates[i].result = Response[Printed(i)].result
    /\ proc[Lead].state # "none" => \A i \in Slot : solutions[i] = candidates[i].result

\* plan_gate says stop if and only if no step remained, every integration
\* command exited with success, and the judge said the goal is met; and no
\* command runs after one that failed (orchestrator.go:1327-1343).
StopEarned ==
  Answered("plan_gate") =>
    /\ answer = "stop" <=>
         /\ req.remaining = 0
         /\ \A i \in DOMAIN req.cmds : Printed(i) # None
         /\ Printed(Lead) \in GoalMet
    /\ \A i, j \in DOMAIN req.cmds :
         i < j /\ proc[j].state # "none" => Printed(i) # None

\* Whatever a program prints, the scanner finds exactly the top-level objects
\* of the grammar, each once and from left to right: braces inside strings do
\* not count, and an escaped quote does not end a string (agentproto.go:659-663).
ScanExact ==
  \A text \in {Printed(r) : r \in Run} \ {None} :
    \A spans \in {topLevelObjectSpans(text)} :
      /\ ToSet(spans) = TopLevel(text)
      /\ \A k \in 2..Len(spans) : spans[k - 1][2] < spans[k][1]

\* plan returns the steps of every planner that printed some at top level,
\* stored or not, and tells a key if and only if the plan is in the store under
\* it (orchestrator.go:476-478).
KeyMeansStored ==
  Answered("plan") =>
    /\ answer = "plan and key" <=> stored = "plan"
    /\ answer # "error" <=>
         \E out \in {Printed(Lead)} \ {None} : \E o \in TopLevel(out) :
           LET text == SubSeq(out, o[1], o[2]) IN
           text \in DOMAIN json /\ json[text] = "steps"

\* Every call is answered (agent.go:12-17, 72-74; verify.go:108-112).
Answers == <>(stage = "answered")
=============================================================================
