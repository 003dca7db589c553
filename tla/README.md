# A verification of jindo-mcp in TLA+

jindo-mcp is an MCP server (Go, stdio, newline-delimited JSON-RPC) through which
a host delegates tasks to headless coding agents. A dispatch is routed to an
agent, recorded in a store shared with every other dispatch and every other
process, run, optionally reviewed by the other agents and gated by verify
commands. This directory models the parts of it in which order, concurrency and
failure matter, checks them with TLC on small instances, and proves with TLAPS
what holds for every instance.

Paths below are relative to `src/internal/` unless they start with `src/`.

## 1. The system

| Component | State it keeps | Operations | Works with | Modules |
|---|---|---|---|---|
| Store lock and persistence (`memory/memory.go`) | flock on `memory.lock`, `lockFile`, `memory.json` | acquire, load, save, release | other goroutines, values and processes over one root | `StoreLock`, `AtomicStore`, `StoreLockProofs` |
| Task entries and compaction (`memory/memory.go`, `memory/compaction.go`) | keyed entries, `_digest` | AllocKey, Upsert, Compact, MaybeCompact | called by every dispatch and by the `compact` tool | `TaskStore`, `TaskStoreProofs` |
| Insight layer (`memory/insights.go`, rule 5 of `compaction.go`) | `_insights` | AddInsight, RetrieveInsights, eviction | fed by agents' notes, read before each run | `Insights`, `InsightsProofs` |
| Async jobs (`jobs/jobs.go`) | job map, done channels, `jobs/<id>.json` | Submit, Get, Wait | `dispatch_async`, `job_status` | `Jobs`, `JobBoard`, `JobsProofs` |
| Plan loop (`plan/plan.go`, `plan_*` tools) | `plan.json` | Save, Next, Record, Revise | hosts that ask, dispatch and record, through one server or several | `Plan`, `PlanProofs` |
| Dispatch pipeline (`orchestrator/orchestrator.go`, `changedfiles.go`) | the result, author and review outcomes, the git snapshot | dispatch, runAuthor, runReviews, finishReviewed, verify loop, changed files, status sync | store, agents, verify commands, a working directory others edit too | `Dispatch`, `DispatchLedger`, `Output`, `OrchestratorProofs` |
| Consultations (`orchestrator/orchestrator.go`, `verify.go`) | the candidates, the verdict, the plan's key | DispatchMulti, Plan, PlanGate | agents and verify commands, the store, the plan loop | `Consult`, `OrchestratorProofs` |
| Agent runs and what they print (`agent/agent.go`, `agentproto/agentproto.go`) | subprocesses and their pipes | defaultExec, topLevelObjectSpans, ParseResponse, ParseReviewResponse, ParsePlanResponse, ParseGoalCheckResponse | every dispatch and every consultation | `AgentRun`, `Output`, `OrchestratorProofs` |
| MCP transport (`mcp/mcp.go`) | the reading loop, the write mutex, the first write error | Serve, HandleLine, writeResp, discardLine | the client's stream, all tool handlers | `Serve`, `ServeProofs` |
| Routing and calibration (`routing/routing.go`, `calibrate/calibrate.go`, `calibrate` tool) | thresholds, `routing_overrides.json`, `dispatch.log`, the CLIs on PATH | ScoreTask, SelectModel, rotate and append, Load, DeriveOverrides, ApplyOverrides | every dispatch is routed, and leaves lines that later move the thresholds | `Routing`, `RoutingProofs` |
| Notes list; policy; assessment; tmux sessions | | | | see section 8 |

How they interact. `Serve` runs every request in a goroutine of its own.
A dispatch request runs the pipeline in that goroutine; `dispatch_async` hands
the same pipeline to the job Manager. The pipeline keeps no lock while an agent
runs: it touches the store in separate operations, each of which takes the flock,
so two dispatches, of one process or of several, interleave between any two of
them. The plan is separate state behind a mutex of its own; the host ties the two
together by dispatching what `plan_next` offers and recording how it went, and asks
`plan_gate` whether to stop. The consultations run agents too, several at once, but
apply nothing of what they say.

What makes it hard:

* concurrency on three levels: goroutines sharing a `SharedMemory` value,
  processes sharing a root, and dispatches sharing the store between operations;
* answers in prose: what an agent decided is the last JSON object of the right
  shape in whatever it printed, and complete only when its pipe is closed;
* long windows: minutes pass between a decision (a key reserved, an intent
  recorded, a step offered, steps counted) and its use;
* failure that is deliberately tolerated: reviews, log lines, compaction, the
  status sync and job files are best-effort, everything else ends the dispatch;
* recovery by files: the store, the plan and finished jobs outlive the process.

What correctness means, per component:

* **Store**: operations are atomic and none is lost, whatever crashes or times
  out; every call returns; no lock outlives its holder.
* **Task entries**: a key belongs to one dispatch; an authoritative record once
  written is never lost; what is recorded of a running agent stays on record.
* **Insights**: one insight per learning and id; hits count derivations; neither
  the salience cap nor the size cap favours the less established.
* **Jobs**: completion is atomic and final; a caller is told the truth and is
  always answered; what a restart loses is only what it must.
* **Plan**: attempts are counted exactly and bounded; a removed step stays
  removed; the loop ends. Two servers over one root share no mutex: between two
  hosts the end of the loop remains, exact counts, their bound and removals do not.
* **Dispatch**: it ends; result, record, review, verify outcome and list of files
  agree; a passed gate speaks of the tree as the dispatch leaves it.
* **Consultations**: a candidate is its own model's answer; stop is said only when
  steps, commands and judge all agree; a key that is told is stored; every call is
  answered.
* **Agent output**: exactly the top-level objects are found, whatever is printed.
* **Routing**: a threshold moves slightly, and only on evidence; the log's rotation
  loses no recent line.
* **Transport**: responses are whole, drawn once, not delayed by one another, and
  none follows a broken write or Serve's return.

## 2. Modules and how they correspond to the code

`PROJECT.json` maps every definition to its lines. Each module takes the level
below as atomic, and the level below is shown to be so: `StoreLock` implements
`AtomicStore`; `TaskStore`, `Insights`, `Dispatch` and `Consult` then treat a store
operation as one step. `Consult` extends `AgentRun` and `Output`, and `Dispatch`
extends `Output`: what an agent tells them is parsed from what it printed.

**StoreLock.** One client is one goroutine; `instOf` says which `SharedMemory`
value it calls and `procOf` which process that lives in. `flock` is the kernel's
lock: held by a descriptor, hence by the client that opened it. `lockFile` is the
field of the same name, one per value, which is where goroutines on one value
could confuse each other's descriptors. A call is Call, Win (or TimeOut, or
AcquireError), SetLockFile, Load, WriteTemp, Rename, TakeLockFile, Unlock, with
IOError possible in between and Crash of a whole process at any point. What an
operation computes is the constant `Effect`.

**TaskStore.** `entries` is `memory.json` without the control keys; an entry is
what it holds and its second. A digest is the set of what was folded into it
(`coldTailText` keeps key, author and content of each). A slot is a pipeline
that runs dispatches one after another: Begin (AllocKey), Intent, the agent's
updates (UpdateNamed or UpdateRelabelled, then WriteUpdate), Final, Check and
Compact (the two halves of MaybeCompact), Review, and Abort for every error
return. Both callers of Compact leave its TTL at 0 (`orchestrator.go:1015-1019`,
`mcp.go:1057-1064`), so entries do not expire here either. The `compact` tool is a
caller of its own, with a cap the host chooses. An update may name any key of its
own agent (`orchestrator.go:961`) when `NamesOthers` is TRUE; `named`, a history
variable, is those named that were another dispatch's. The runs have it FALSE, an
assumption about agents that the code does not enforce; the theorems about records
do without it (section 5), and section 6 says what such an update does.

**Insights.** A note is a sequence of words, `Significant` the words `tokenize`
keeps. Salience is counted in hundredths, so that 0.5, 0.15, 1.0 and the score
are exact. `derived` is a history variable: how often a learning was derived since
it entered the layer. Ids are compared as the strings they are (`IdBefore`).

**Jobs.** The worker's section under the mutex is three steps because it writes a
file; a caller's sections touch memory only and are one step each. `outcome` is
what `work()` returned, whether or not anybody ever sees it. Restart empties the
Manager and leaves the files, one of them torn if it was being written.

**JobBoard** is what package jobs promises: jobs complete in one step, record
included, and a caller reads the board at one instant of its call. The
refinement shows a job as running until `persist` is through.

**Plan.** Read-modify-writes are two steps with the mutex held, so that crashes
and failing writes fall between them. `via` connects each host and the editor to a
server; every server has a mutex (`mu`), and dies on its own (`Crash`); `plan.json`
is common. `fails` is a history variable. The editor is the host's `plan_revise`;
`Plans` and `Revisions` are what planner and editor may send, within
`planStepSchema`. The loops of Revise are in closed form: a step has the fields of
the last update that sets them (`Merged`), and the steps that are kept close ranks
(`Without`).

**Output.** A text is a sequence of bytes of which four matter to
`topLevelObjectSpans`: braces, quote and backslash. The scanner is a recursive
function, a step per byte. The JSON decoder is the constant `json`, the spans it accepts and
what each says; the four parsers differ in which of them they look for and in what
they make of none. `TopLevel` is the reference: the same spans by a grammar of
literals, objects and prose, with no scanner state (`Bodies` and `Prose`, recursive
functions on stretches and beginnings of the text). An author's status is passed on
whatever it is (`Given`): the two words that ask for one, `error` for any other, and
the two that the pipeline itself reports failures with.

**AgentRun.** A run of a program is its state, what it printed, and whether a
process it started still holds its pipe (`held`). The deadline (`Kill`) ends the
program alone, and the call that waits for it returns only when nobody holds the
pipe (`Returned`), as `cmd.Output` without a `WaitDelay` does. Spawn and LetGo are
the environment's.

**Consult.** The three read-only calls over such runs. Run `i > 0` is the i-th
proposal or verify command, run `Lead` the planner's or judge's. A proposal is the
goroutine that writes `candidates[i]`. `plan_gate` is given the number of steps
that remained when it was asked; what `Plan` does meanwhile does not reach it.

**Dispatch.** One pipeline. Author runs are numbered and the number stands for
the run's memory key. `caller` says which of runAuthor's three call sites is
waiting, because an error means something else to each. `tree` is who edited the
working directory last, and the git status code of one file in it: a run may edit
and then fail, and `OtherEdits` is anybody else, another dispatch in the same
directory included. Between reply and record a run writes its memory updates, and
they may name its own key, whose intent they overwrite, or an earlier run's, whose
record and review they overwrite: all runs of a dispatch are of one agent (`Update`;
WriteFails may come after any number of them). A run of another dispatch with
that agent may do it at any time (`OtherUpdates`). A value under any other key goes
to a key that is no run's, and is in `TaskStore`. `before` is the snapshot taken
when the dispatch begins, `changedFilesSince` the comparison with it at the end;
without git, or when git fails, both are None. The statuses of authors and the outcomes of reviewers are
what `Output` makes of `Stdout`; an author may say `review_failed` or
`verify_failed` as well as the pipeline. The lines of `dispatch.log`, which a dispatch
writes and never reads, are left to `Routing`.

**DispatchLedger** is what a dispatch promises of the memory it shares and of its
answer. Every author run has a record of its own, opened as an intent before the
agent runs, and completed, if at all, before the next is opened. While a run is open
its agent may overwrite any of the records, its own included, which is why
completing writes it again. Otherwise only the record of the outcome adopted last is
written, from the dispatch's own copy, review and all. Dispatches with the same
agent may overwrite a record at any time; no record is ever lost. A dispatch that
has adopted an outcome is answered under its key, with the status the record has
unless that write failed or an agent's value is left there in one of two ways that
`Answer` names, and only one that has adopted none is answered with an error; it
writes nothing after the answer. In the refinement (`Ledger` in `Dispatch`), Intent
is Open, Update and OtherUpdates are Overwrite and Intrude, Final is Complete, what
ends in finishReviewed is AttachReview, Settle is Answer, the failure of an open run
is GiveUp, and what is refused before any run was adopted is Refuse. What the host
does with the answer is not part of it.

**Serve.** A line is a position in the stream and a kind. `wire` is the sequence
of what was written; body and newline are separate writes because an error may
fall between them.

**Routing.** A task is what the scorer sees of it, the number of patterns of each
signal that occur; how text matches a pattern is left out. Weights, strengths and
thresholds are those of `routing_policy.json` and `models.json`, in tenths, as
constants. The loop around them is modelled whole: a dispatch is routed by the
thresholds and CLIs of the moment, its line goes into the log (the size check,
the rename into `dispatch.log.1` and the append are separate steps, of concurrent
dispatches), `calibrate` with `apply=true` replaces the overrides file, and Restart
overlays that file on the embedded defaults. A dispatch that writes several lines (a
revision) is several dispatches here. `log` and `kept` count lines by tier and by
whether they say ok, which is what DeriveOverrides reads of the first; `present` is
whether there is a `dispatch.log`, without which a rename fails; `logged`,
the lines ever written, and `raced`, that two found the log full at once, are
history variables.

## 3. Runs

Passing runs:

| Run | Question | Instance | States |
|---|---|---|---|
| `store_lock` | Are operations atomic, and does every call return? | 3 goroutines, 2 values, 2 processes; a counter as the store | 82 k |
| `store_cap` | Do compactions lose a record, an intent or a key? | 2 slots, one reviewed, one with an update, 2 agents, cap 3, 4 indexes | 3.1 M |
| `jobs` | Is package jobs an atomic board, and does every call return? | 2 jobs, 2 callers, unbounded restarts | 73 k |
| `plan` | Are attempts exact and bounded, does the loop end? | 2 hosts and an editor on 1 or 2 servers, 2 dependent steps, 3 revisions, 2 plans, MaxAttempts 2 | 306 k |
| `dispatch` | Does a dispatch end, and do its outputs agree? | 2 reviewers, 5 texts, rounds clamped to 1, a file with 2 codes, 1 foreign edit or update | 2.0 M |
| `consult` | Are candidates aligned, is stop earned, is everything parsed and answered? | 4 models, up to 2 commands, every text of up to 7 bytes | 353 k |
| `insights` | Are ids, dedup, hits, recall and eviction right? | 3 notes, 2 of them one learning, 2 tasks, 11 additions, cap 1 | 50 k |
| `routing` | Why is a threshold where it is, and what is kept of the log? | 2 concurrent dispatches, 4 in all, 4 tasks, a log of 2 lines, 2 restarts | 695 k |
| `serve` | Are responses whole, drawn once, and undelayed? | 3 lines of any kind | 61 k |

Runs that show a disagreement between the code and what it says of itself expect
a violation: `store_reissue`, `dispatch_review_lost` and `agent_outlives`, see
section 6.

What some of the properties say, where it is not obvious:

* `ScanExact` compares the scanner with the grammar on every text a run prints, so
  on all 97 656 texts of up to seven bytes over the five byte classes: an escaped
  quote inside a string inside an object takes seven.
* `StopEarned` is an equivalence: the gate says stop if all three conditions hold
  and only if. The count it is given may be minutes old; that is not part of it.
* `PassedOnThisTree` exempts a tree edited last by somebody else, since the code
  does nothing to keep others out; that it holds up to then is what the order of
  verify and revision gives.
* `KeepsLedger` is the refinement of `DispatchLedger`.
* `RecordAgrees` exempts a record that another dispatch's update has overwritten,
  and one left by a failing revision's update where the author had itself given the
  status that the failure is reported with (section 6). Every other update is put
  right by the time the dispatch is done, by Final, finishReviewed or the sync.
* `GatedByReview` says when a reviewed result is marked: a reviewer of that very run
  says critical, or its author said `review_failed` itself.
* `FilesAreNet` compares with the code the file had when the dispatch began, whose
  only trace in the code is the snapshot.
* `GenerationKept` exempts behaviours in which two dispatches found the log full
  at once; without the exemption TLC finds the generation lost (section 6).
* `AttemptsBounded` allows, beyond MaxAttempts, one more failure per host that
  already holds the step, and again for every revision, which may have reset it. On
  several servers there is no bound (section 6).
* `LoopEnds` is about one server, or two hosts.
* `NullMeansBlocked` is about plans without dangling or circular dependencies.

Why the bounds are enough:

* `store_lock`: two goroutines on one value and one elsewhere are the smallest
  setting with both kinds of contention, and a crash of either process leaves
  somebody to observe it. The state space is finite without a bound: the store's
  content is capped by the operation itself. The proofs cover every size.
* `store_cap`: index 4 with cap 3 lets the cap be exceeded while two dispatches and
  an update of one of them are in flight, fold a record, and go on. The cap is not
  smaller than what is in flight at once, as 200 is not in the code: with cap 2
  the record with the highest index is folded while older keys are rewritten, and
  its key is handed out again, as `store_reissue` shows for the tool. `MaxClock`
  bounds the writes of a behaviour, each a second after the last: ten of them are
  two whole dispatches with an update and a review, and part of a third.
* `plan`: MaxAttempts 2 distinguishes the first failure from the last; two hosts
  are what it takes to hold two offers of one step; one revision at every point
  covers removal, addition, reset and reassignment of dependencies. `Vias`: all on
  one server, one host on the other, the editor on the other. Three hosts on three
  servers are another matter (section 6).
* `dispatch`: two reviewers give one that is critical while the other is clean or
  failed. With a review revision and one verify round there are three author runs,
  each of which may overwrite, or fail after it has overwritten, the record adopted
  before it; five configured rounds exercise the clamp. The proofs are for any number of
  rounds. One foreign edit or update at every point covers one before, between and
  after the dispatch's own.
* `consult`: the four models are two known ones, an unknown one and one asked
  twice. Two commands have one before and one after a failure; one list has a
  command that is not allowed.
* `insights`: salience saturates at the fifth derivation; 11 leave room for two
  learnings on both sides of that.
* `routing`: two lines are a sample, and fill the log, so four dispatches flag
  either tier, with a rotation in between or with both dispatches rotating; two
  restarts apply one nudge on top of another. The tasks lie below, between and
  above the thresholds, in and outside the assess bands, and one exceeds the cap
  of a signal.
* `serve`: three lines are two handlers that contend and one that comes later.

`CHECK_DEADLOCK FALSE` is set where the system really stops: a bounded store or
insight model that has used up its bounds, a dispatch that is done, a consultation
that is answered, a server that has returned.

## 4. Fairness

* `StoreLock`: a goroutine inside a call keeps taking steps (weak fairness of its
  progress). The deadline of `acquire` ends every spin, so no fairness of winning
  the lock is assumed.
* `Jobs`: weak fairness of the worker's section and of each call. Nothing is
  assumed of how long `work()` takes.
* `Plan`: the host loop runs (ask, dispatch, record), a dispatch ends, and a
  write of `plan.json` that is tried again and again succeeds at last (strong
  fairness of RecordWrite). LoopEnds assumes that crashes stop.
* `Consult`: the goroutines run, and the deadline ends every program
  (`DeadlineSpec`): ten minutes for an agent (`agent/agent.go:173`) and for a
  verify command (`orchestrator/verify.go:112`). That is not enough for a call to
  return: `ConsultFairSpec` adds that what a program leaves running ends at last, or
  closes the pipe. It is an assumption about the programs, not something the code
  enforces; `agent_outlives` checks the same property without it, and fails.
* `Dispatch`: the deadlines above, under the same assumption, and ten seconds for a
  store call (`memory/memory.go:54`). git status has no deadline
  (`orchestrator/changedfiles.go`) and is taken to return. A response names
  finitely many memory updates; in the model only finitely many change anything.
* `Serve`: the reader and the writers keep running; Go's mutex is starvation-free
  (strong fairness of LockWriter). No fairness for a slow handler, nor for the
  client.

## 5. What is proved

Every safety property of the passing runs is a theorem. Assumptions are those stated
with the constants, which TLC evaluates on every run, and the hypotheses named
below. Apart from those, everything is for any number of clients, jobs, hosts, dispatches, reviewers, lines, notes or tasks.
Two bounds of the models remain in the assumptions: memory keys have one digit
(`MaxIndex`) and insight ids two (`MaxAdds`), since the code orders both as strings.

The proofs have one shape. The invariant of a run is strengthened to an inductive
one, `IInv`, that was itself checked by TLC on the run's instance before it was
proved; a lemma per conjunct, or per group of actions, shows that steps keep it;
the theorems follow from it.

`StoreLockProofs`:

* `TypeCorrect`, `Exclusion`, `ReleaseOwnsLock`, `NoLostUpdate`, `Refinement`.
* The inductive invariant adds two facts to the invariants of the run:
  `InsideHolds` (a client inside its critical section holds the flock, which is
  stronger than mutual exclusion and implies it) and `Outcome` (what `out` says
  at each point of a call). `LockFileIsHolder` needs `InsideHolds`: only because
  everybody between acquire and release holds the flock can nobody else have
  written `lockFile` in between. `NoStaleWrite` follows since only Rename changes
  the store and its client is the only one inside.
* Mutual exclusion, the absence of stale writes (and, in `JobsProofs`, that a
  woken waiter reads a terminal job) are steps of the argument stated as theorems
  of their own; no run repeats them.
* `Refinement`: Rename, and Load of a reader, are Apply; by `NoStaleWrite` both
  act on the store of that moment. TimeOut, AcquireError and IOError are Fail, the
  last step of release is Return, Crash is Vanish, the rest stutters.

`JobsProofs`:

* `TypeCorrect`, `AnswersTrue`, `WokenTerminal`, `TerminalForGood`, `Refinement`.
* The inductive invariant says, for each place of a worker, what is true of the
  mutex, the status, the channel and the file (`MutexInv`, `WorkerInv`, `JobInv`),
  and for each place of a caller what is true of the job it asks about
  (`CallerInv`). `AnswersTrue` needs all of it: a torn file, a status set by
  another worker or a caller left over from before a restart would break it.
* `Refinement`: Persist is Complete; the answering step of a call is Answer.

`OrchestratorProofs`, about `Output`:

* `ScannerIsGrammar`: in every text, of any length, the scanner finds exactly the
  spans of the grammar, each once and from left to right. `LastIsRightmost`: the
  object a parser takes is the rightmost top-level object of its kind.
* Scanner, `Bodies` and `Prose` are recursive functions, and nothing may be said of
  the value of one before it is known to exist. `Recursion` shows that once: a
  functional whose value at an argument depends only on its values at arguments of
  smaller measure has a fixed point. What such a function computes is then proved by
  induction on a set of numbers (`Strong`), which `Least`, from the
  well-foundedness of `<`, replaces by the least counterexample.
* `EscapesIsEscaped`: the scanner's `escaped` bit is the parity of the backslashes
  since the quote, which is how the grammar says it. Hence inside a string the
  scanner leaves just where the literal ends (`LiteralScanned`). `BodyScanned`: a
  stretch of text that begins inside an object and outside strings is a body just
  when the scanner ends it on the level it began on, outside strings, and never
  leaves that level downwards (`Level`); one direction is by induction on the
  grammar, the other looks for the first byte at which the level is left.
  `ProseScanned`: a beginning of the text is prose just when it leaves the scanner on
  level 0 outside strings. `SpansScanned` is the invariant of the pass: the spans
  found so far are the spans so far, and while an object is open the scanner knows
  where it began.

`OrchestratorProofs`, about `Dispatch`:

* `RecordsAgree`, `ReviewsGate`, `GatePassedHere`, `FilesNet`, `Refinement`,
  `DispatchRunsOut`, `AuthorRunsBounded`. Nothing is assumed of what the updates name.
* The pipeline has a dozen places and three callers of runAuthor, and what is known
  depends on both: `First`, `Second` and `Third` say whether an outcome has been
  adopted, and whether there is a result. `RunInv` bounds the keys in the store by
  the run in progress, so that the intent of a new run cannot write over an adopted
  record. `RecordInv` relates what was adopted to its record: they agree unless an
  agent's value is there, and one of this dispatch's runs can only be while a
  revision is at work or has failed (`Marked`). `SlotInv` says that a reviewer's slot
  is of the run it was asked about, `ReviewInv` that the result is marked by the
  aggregate of those slots or by its author; `VerifyInv` and `FilesInv` tie outcome
  and list to the tree. The parsers matter only by the range of what they can say.
* `Refinement`: Dispatch implements `DispatchLedger`. `LedgerInv` adds to `IInv`
  that runs are numbered from one, that only the last step can miss the sync
  (`OpenInv`), and that there are no more runs than rounds allow. That the sync leaves
  an agent's value only where `Answer` allows it is `RecordInv`.
* `DispatchRunsOut`: `StepsLeft` is a number and falls with every step that changes
  anything. It is twice the stages from each place of the pipeline to the end, with
  the reviewers still at work and the verify rounds still allowed, plus the records
  an update would change, of which a stage adds at most one: the dispatch takes at
  most 2 (12 + 4 V + 2 R) steps of its own for V verify rounds and R reviewers, and
  two more for each edit or update by others, which are bounded in the model.
  `RoundInv` says that rounds are counted from the gate on and
  never pass the clamp, hence `AuthorRunsBounded`: at most 2 + V author runs. With
  this, that a dispatch ends rests only on its being able to take its next step.

`OrchestratorProofs`, about `Consult`:

* `ScannerIsExact`, `CandidatesAligned`, `StopIsEarned`, `KeyIsStored`, for any
  models, commands and texts.
* The inductive invariant `ConsultInv` has a part per tool. `MultiInv`: a candidate
  that is in is what its own program printed, and that program is over (`Agrees`,
  `Idle`), so no later step of a program can make the two differ; a judge runs only
  when all are in. `GateInv`: the commands before the one at hand succeeded and those
  after it have not run (`InOrder`), so that the one flag `passed` speaks of all of
  them (`Decided`). `PlanInv`: a key is reserved only for a plan, and told only when
  the plan is stored.
* `KeyIsStored` speaks of the grammar where the code has a parser: the two agree
  by `LastIsRightmost`.

`TaskStoreProofs`:

* `ResultsStay`, `DecisionsStay`: as long as no key has been handed out twice
  (`KeysFresh`), no record and no intent is lost, except one whose key another
  dispatch's update has named. They assume neither a cap nor anything of what agents
  name; `RecordsInv` carries them.
* `KeysStayFresh`, under two hypotheses. Agents name only their own keys
  (`~NamesOthers`). And `CapCovers`, a state predicate assumed of every state: no cap
  is smaller than the keys that dispatches can have in hand together with the
  entries of any one second. It holds in every state of `store_cap`, and fails in `store_reissue`,
  whose cap is 1; the pipeline's cap is 200 (`orchestrator.go:1016`), the tool's
  whatever the host says.
* What carries that proof is `LatestInv`: the entry with the highest index ever
  issued is live, and whatever is newer than it was in hand when it was issued.
  Compact folds the oldest, and by `CapCovers` never comes that far. `HandInv`
  keeps the dispatches out of one another's keys.

`PlanProofs`:

* `AttemptsExact`, `RemovedForGood`: on one server. `MutexInv` says who is about to
  write holds its server's mutex; hence `SnapInv`, what it read is what it
  overwrites; hence a record or a revision changes the plan as it is. `CountInv`
  adds to the equality that nothing is counted of ids that are not in the plan.
* `AttemptsLimited`: on one server, as long as no two steps have one id
  (`DistinctIds`, which section 6 shows to be needed). `BoundInv` is an allowance:
  a step's attempts and those who hold it together stay within what the next
  revision allows, and a step that can be offered is a revision short of that.
* `BlockedHasFailed`: an argument about one state, on any number of servers.
* The lemmas say what Record, the updates, the removals and the additions do to
  the steps: ids, attempts, and which step of an id is the first (`RecordedFacts`,
  `UpdatedFacts`, `WithoutFacts`, `RevisedFacts`). That the steps kept keep their
  order rests on the places being a bijection, for which the least element of a set
  of numbers comes from the well-foundedness of `<`.

`ServeProofs`:

* `AnswersWhole`, `FallsSilent`. `MutexInv` says that whoever writes holds the
  mutex and that after a failed write nobody does; `WireInv` that bodies and
  newlines alternate on the wire; `PartsInv` how many parts of a line's response
  are there, given where its handler is.

`InsightsProofs`:

* `LearnedOnce`, `HitsCount`, `LeastDerivedGo`, `MostDerivedRecalled`. Ids grow with
  the additions (`IdsInv`), so one is never used twice; an insight's hits are its
  derivations, and what the layer does not hold has none (`CountInv`). Salience is
  a function of hits that never falls (`SalienceInv`), so the orders of eviction
  and recall, which compare salience first, agree with hits in spite of the cap on
  salience.

`RoutingProofs`:

* `OneNudgeAtMost`, `RisesAreEvidenced`, `RotationKeeps`. `EvidenceInv` says that
  a threshold above its default, in force or in the file, has its lines among
  those ever logged, although the log itself is rotated away; `RotateInv` that until
  two dispatches find the log full at once only one rotates it, and it is full.

## 6. Where code and documentation disagree

Three have a run that finds them, and an entry under `findings` in `PROJECT.json`.

| Run | What is said | What happens |
|---|---|---|
| `store_reissue` | AllocKey returns a fresh key (`memory.go:187`) | a folded highest key is handed out again |
| `dispatch_review_lost` | still critical means review_failed (`src/docs/jindo-mcp.md:114`) | a verify revision overwrites the status |
| `agent_outlives` | the bound ensures that a hung CLI cannot block the dispatch (`agent/agent.go:72-74`) | it kills the CLI; a process that the CLI started and that holds the pipe blocks the call |

Others were met while modelling. The module named has the behaviour, no run states it:

| Module | What is said | What happens |
|---|---|---|
| `TaskStore`, `Dispatch` | the key doubles as the dispatch-id, without collisions (`orchestrator.go:787-790`) | an agent's update (`orchestrator.go:961`) overwrites the record of another dispatch of that agent, finished or not, review and all (`NamesOthers`, `OtherUpdates`) |
| `TaskStore` | MaybeCompact never folds a still-placeholder record (`orchestrator.go:1000`) | it folds another dispatch's |
| `Jobs` | results survive a restart (`jobs.go:3`) | `job_status` calls Wait, which does not look at them |
| `Consult` | can_stop only when no steps remain (`mcp.go:905`) | the count is taken minutes before |
| `Output` | agents print prose followed by a JSON block, and the last top-level object is taken (`agentproto.go:292-297`) | a lone quote or an unmatched `{` in the prose hides the block, since strings and braces count there too |
| `Plan` | with nothing to offer, what remains is done or blocked (`plan.go:141`) | also a step whose dependency was removed, and steps that depend on each other, with nothing failed; `NullMeansBlocked` excludes dangling and circular dependencies |
| `Plan` | a failed step is not offered beyond MaxAttempts (`plan.go:38`) | of two steps with one id the second always is |
| `Plan` | every read-modify-write of the plan happens under the mutex (`plan.go:8-9`) | the mutex is a Manager's: two servers over one root undo each other's records and revisions; with three hosts on three servers TLC finds them doing so for ever, a step failing more and more often and the loop never ending, without a crash or a revision |
| `Dispatch` | no automatic revision (`mcp.go:297`) | up to the configured number of verify rounds |
| `Dispatch` | the stored record is brought in line with the final status (`orchestrator.go:694-698`) | only if the dispatch's copy says otherwise: where the author itself reported `review_failed` or `verify_failed`, a failing revision's update stays in the record's place |
| (no module) | the log has the final status (`orchestrator.go:1656`) | it is written before the verify gate |
| `Insights` | only case, punctuation and spacing are ignored (`insights.go:142`) | so are stopwords such as "not" |
| `Routing` | exactly one prior generation is kept (`orchestrator.go:1899`) | of two appenders at the limit, the second renames the new, nearly empty log over it |
| `Routing` | nudges accumulate (`src/docs/loop-engineering.md:169-171`) | a patch replaces the file, and a threshold that an earlier one raised falls back to its default |
| `Insights` | relevance drives the score (`insights.go:322`) | the hits term is unbounded |

## 7. What is only model-checked

* Liveness (`CallReturns`, `LockFreed`, `CallsReturn`, `LoopEnds`, `DispatchEnds`,
  `Answers`, `SlowStallsNobody`, `Drains`): the prover does not do liveness under
  fairness. Of `DispatchEnds` the half that no dispatch goes on for ever is a theorem,
  `DispatchRunsOut`; that none gets stuck is TLC's.
* That `CapCovers` and `DistinctIds` hold is a fact about an instance, and TLC has
  checked it on those of `store_cap` and `plan`.

## 8. Not modelled

* Notes, beyond their making MaybeCompact compact: an audit trail nothing reads.
* Policy and assessment: functions of text. What follows of their verdicts is in
  `Dispatch` (AuthorRefused) and `Routing` (`Difficulty`).
* Of the agent protocol, the text of the prompts and the JSON decoder; of the
  adapters, the command line of each CLI.
* tmux sessions: carried by the orchestrator, used by no dispatch.
* Of routing, how text matches a signal's patterns, the choice of reviewers (in
  `Dispatch` the reviewers are given), and overrides of weights and bands, which
  only an operator writes. Of calibration, the rest of the report.
* Of the tools, the decoding of arguments, the schemas, and what only reads.
* The Python side that shares `memory.json` is not in this repository.

## 9. Plan

In order of importance:

1. *Done.* StoreLock and its proofs, TaskStore, Jobs and its proofs, Plan with two
   servers, Dispatch in a directory others edit, Insights, Serve, Routing with the
   generation its log keeps, Consult with Output and AgentRun.
2. *Done.* Proofs of the safety properties of `Dispatch`, `TaskStore`, `Plan`,
   `Serve`, `Insights`, `Routing`, `Output` and `Consult`.
3. *Done.* An abstract specification of a dispatch's records and answer,
   `DispatchLedger`, implemented by `Dispatch`, and a variant for its termination.
4. The choice of reviewers in routing.

## Running

    tlc -config MCStoreLock.cfg MCStoreLock
    tlapm PlanProofs.tla
