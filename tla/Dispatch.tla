------------------------------ MODULE Dispatch ------------------------------
(***************************************************************************)
(* One dispatch through the pipeline of internal/orchestrator: the author  *)
(* runs; if the host asked for it, every cross-model reviewer reviews the  *)
(* result at once, and a critical finding forces one revision and one more *)
(* review; then the host's verify commands gate the result, each failure   *)
(* fed back to the author for a bounded number of rounds.                  *)
(*                                                                         *)
(* Author runs are numbered, and the number stands for the memory key the  *)
(* run allocates (TaskStore is about the keys, and about compaction: a     *)
(* record is here whether it is live or folded).  A record written with    *)
(* Upsert and a run of an agent can each fail; the code lets some of these *)
(* failures end the dispatch and notes the others.  A dispatch reads       *)
(* nothing of the line it appends, best-effort, to dispatch.log, which is  *)
(* left out (Routing is about the log).                                    *)
(*                                                                         *)
(* All the runs are runs of one agent.  The memory updates an agent        *)
(* returns are written, before the record of its run is, under any key of  *)
(* that agent they name: so a run of this dispatch, or of another with the *)
(* same agent, may overwrite the record of any run here.                   *)
(*                                                                         *)
(* What an agent prints is parsed (Output): an author's response has a     *)
(* status, a reviewer's review may hold a critical finding.                *)
(*                                                                         *)
(* Nothing keeps others out of the working directory: another dispatch,    *)
(* the host or a verify command may edit it at any time.                   *)
(***************************************************************************)
EXTENDS Output

CONSTANTS
  Reviewer,             \* the agents other than the author
  VerifyReviseRounds,   \* Orchestrator.VerifyReviseRounds, as configured
  verifyReviseRoundsMax,
  Code, Clean,          \* git status codes of the file watched here; it has none
  MaxOthers             \* bound: edits, and memory updates, by others

ASSUME DispatchAssumption ==
  /\ VerifyReviseRounds \in Int /\ verifyReviseRoundsMax \in Nat \ {0}
  /\ MaxOthers \in Nat /\ None \notin Code /\ Clean \in Code
  /\ None \notin [passed : BOOLEAN, tree : [by : Nat, code : Code]]

ASSUME ReviewerAssumption ==
  /\ IsFiniteSet(Reviewer)
  /\ None \notin [says : {"failed", "critical", "clean"}, of : Nat]

\* 0 and negative default to one round; the maximum clamps the rest.
verifyReviseRounds ==
  IF VerifyReviseRounds <= 0 THEN 1
  ELSE IF VerifyReviseRounds > verifyReviseRoundsMax THEN verifyReviseRoundsMax
  ELSE VerifyReviseRounds

VARIABLES
  asked,           \* the arguments: is a review, is a verify gate wanted; and the
                   \*   code of the file as the dispatch finds it, or no git
  pc,
  caller,          \* who called runAuthor: dispatch, runReviews, the verify loop
  run,             \* calls of runAuthor so far
  reply,           \* the status the agent that just ran reported
  store,           \* memory: run -> [status, review] of its record; the status
                   \*   is "intent" before the agent has run, "update" or
                   \*   "foreign" where an agent's value has overwritten it
  tree,            \* the working directory: [by, code], the run that last edited
                   \*   it (0: somebody else), and the code of the watched file
  before,          \* the git snapshot: the file's code, or None
  final,           \* authorOutcome of the run adopted last: its key, the status
                   \*   its author gave, and the record kept in memory for it
  reviews,         \* reviewer -> its answer, None while it is at work
  round,           \* verify revision rounds begun
  res,             \* Result: [key, status, reviews, verify, revisions, files]
  others,          \* edits and updates by others so far
  unsynced         \* history: the status sync failed

snapshots == <<before, others>>
vars == <<asked, pc, caller, run, reply, store, tree, snapshots, final,
          reviews, round, res, unsynced>>

\* The statuses authors report, and what comes of a reviewer: one that cannot
\* be run, or whose answer is no review, has failed.
AgentStatus == {ParseResponse(out).status : out \in Stdout}
ReviewStatus ==
  LET said == {ParseReviewResponse(out) : out \in Stdout} IN
  {"failed"} \cup {IF v = "critical" THEN "critical" ELSE "clean" : v \in said \ {None}}

Record(status, review) == [status |-> status, review |-> review]

Init ==
  /\ asked \in [review : BOOLEAN, verify : BOOLEAN, found : Code \cup {None}]
  /\ pc = "start"
  /\ caller = "dispatch"
  /\ run = 0
  /\ reply = None
  /\ store = <<>>
  /\ tree = [by |-> 0, code |-> IF asked.found = None THEN Clean ELSE asked.found]
  /\ before = None /\ others = 0
  /\ final = None
  /\ reviews = [r \in Reviewer |-> None]
  /\ round = 0
  /\ res = [key |-> 0, status |-> None, reviews |-> None, verify |-> None,
            revisions |-> 0, files |-> None]
  /\ unsynced = FALSE

Put(k, rec) ==
  store' = [j \in DOMAIN store \cup {k} |-> IF j = k THEN rec ELSE store[j]]

\* The working directory as by may leave it when it edits; without git there
\* are no codes to tell its states apart.
Edits(by) == [by : {by}, code : IF asked.found = None THEN {Clean} ELSE Code]

\* changedFilesSince: what git lists now, with another code than before.  git
\* may fail, and nothing is known then.
changedFilesSince(snapshot) ==
  {None} \cup (IF snapshot = None THEN {} ELSE {{tree.code} \ {Clean, snapshot}})

-----------------------------------------------------------------------------
(* runAuthor.                                                              *)

CallAuthor(who) ==
  /\ pc' = "author"
  /\ caller' = who
  /\ run' = run + 1

\* Mutant of Intent: the snapshot is taken whenever an author runs.
IntentSnapshot ==
  /\ pc = "author" /\ pc' = "run"
  /\ Put(run, Record("intent", None))
  /\ before' = IF asked.found = None THEN None ELSE tree.code
  /\ UNCHANGED <<asked, caller, run, reply, tree, others, final,
                 reviews, round, res, unsynced>>

\* An error of runAuthor fails the dispatch, ends the review with
\* review_failed, or ends the verify rounds, as its caller has it.
AuthorFails ==
  pc' = CASE caller = "dispatch" -> "error"
          [] caller = "reviews"  -> "finish"
          [] caller = "verify"   -> "settle"

\* The verify list is invalid, or the working directory cannot be created.
Refuse ==
  /\ pc = "start" /\ pc' = "error"
  /\ UNCHANGED <<asked, caller, run, reply, store, tree, final, reviews,
                 round, res, unsynced, snapshots>>

Begin ==
  /\ pc = "start"
  /\ before' = asked.found
  /\ CallAuthor("dispatch")
  /\ UNCHANGED <<asked, reply, store, tree, others, final, reviews,
                 round, res, unsynced>>

\* The task is blocked by policy (a revised one carries findings or output
\* that may name a sensitive file), cannot be routed, or the store fails.
AuthorRefused ==
  /\ pc = "author"
  /\ AuthorFails
  /\ UNCHANGED <<asked, caller, run, reply, store, tree, final, reviews,
                 round, res, unsynced, snapshots>>

\* The intent is recorded with a null result before the agent runs.
Intent ==
  /\ pc = "author" /\ pc' = "run"
  /\ Put(run, Record("intent", None))
  /\ UNCHANGED <<asked, caller, run, reply, tree, final, reviews, round,
                 res, unsynced, snapshots>>

\* The agent cannot be run, fails or times out, perhaps after editing files.
AgentFails ==
  /\ pc = "run"
  /\ AuthorFails
  /\ tree' \in {tree} \cup Edits(run)
  /\ UNCHANGED <<asked, caller, run, reply, store, final, reviews, round, res,
                 unsynced, snapshots>>

AgentReplies(status) ==
  /\ pc = "run" /\ pc' = "reply"
  /\ reply' = status
  /\ tree' \in {tree} \cup Edits(run)
  /\ UNCHANGED <<asked, caller, run, store, final, reviews, round, res,
                 unsynced, snapshots>>

\* A memory update is written: a key of its own agent is taken as it is named,
\* the run's own key or that of an earlier run.  (A value under any other key
\* goes to a fresh one, which is no run's.)
Update(k) ==
  /\ pc = "reply" /\ k \in DOMAIN store
  /\ Put(k, Record("update", None))
  /\ UNCHANGED <<asked, pc, caller, run, reply, tree, final, reviews, round,
                 res, unsynced, snapshots>>

\* A memory update, after any number of them, or the authoritative record
\* cannot be written.
WriteFails ==
  /\ pc = "reply"
  /\ AuthorFails
  /\ reply' = None
  /\ UNCHANGED <<asked, caller, run, store, tree, final, reviews,
                 round, res, unsynced, snapshots>>

\* The authoritative record is written, and the caller adopts the outcome.
Final ==
  /\ pc = "reply"
  /\ Put(run, Record(reply, None))
  /\ reply' = None
  /\ final' = [key |-> run, status |-> reply, record |-> Record(reply, None)]
  /\ \/ /\ caller = "dispatch"
        /\ pc' = IF asked.review THEN "select" ELSE "accept"
        /\ UNCHANGED <<reviews, res>>
     \/ /\ caller = "reviews"
        /\ pc' = "rereview"
        /\ reviews' = [r \in Reviewer |-> None]
        /\ UNCHANGED res
     \/ /\ caller = "verify"
        /\ pc' = "verify"
        /\ res' = [res EXCEPT !.key = run, !.status = reply, !.revisions = round]
        /\ UNCHANGED reviews
  /\ UNCHANGED <<asked, caller, run, tree, round, unsynced,
                 snapshots>>

-----------------------------------------------------------------------------
(* The review stage: runReviews and finishReviewed.                        *)

\* Mutant of Gate: a reviewed result is not verified any more.
GateUnreviewed == IF asked.verify /\ ~asked.review THEN "verify" ELSE "settle"

Gate == IF asked.verify THEN "verify" ELSE "settle"

\* Without a review the author's result is taken as it is.
AcceptAuthor ==
  /\ pc = "accept" /\ pc' = Gate
  /\ res' = [res EXCEPT !.key = final.key, !.status = final.status]
  /\ UNCHANGED <<asked, caller, run, reply, store, tree, final, reviews, round,
                 unsynced, snapshots>>

\* The reviewers, if any other agent can be used, start at once.
SelectReviewers ==
  /\ pc = "select" /\ pc' = "review"
  /\ UNCHANGED <<asked, caller, run, reply, store, tree, final, reviews,
                 round, res, unsynced, before, others>>

\* Each reviewer answers in its own time, into a slot of its own.
ReviewerAnswers(r) ==
  /\ pc \in {"review", "rereview"}
  /\ reviews[r] = None
  /\ \E says \in ReviewStatus :
       reviews' = [reviews EXCEPT ![r] = [says |-> says, of |-> final.key]]
  /\ UNCHANGED <<asked, pc, caller, run, reply, store, tree, final, round,
                 res, unsynced, snapshots>>

\* Mutant of Joined: a reviewer that fails is never counted down.
JoinedClean ==
  \A r \in Reviewer : reviews[r] # None /\ reviews[r].says # "failed"

Joined == \A r \in Reviewer : reviews[r] # None

\* Mutant of AnyCritical: it takes all the reviewers to force a revision.
AllCritical ==
  \A r \in Reviewer : reviews[r] # None /\ reviews[r].says = "critical"

AnyCritical == \E r \in Reviewer : reviews[r] # None /\ reviews[r].says = "critical"

\* One critical finding forces one revision by the same author.
Revise ==
  /\ pc = "review" /\ Joined /\ AnyCritical
  /\ CallAuthor("reviews")
  /\ UNCHANGED <<asked, reply, store, tree, final, reviews, round, res,
                 unsynced, snapshots>>

\* The aggregate review and the status it leaves the dispatch with.
Aggregate(status, rounds) ==
  [final_status |-> status, revision_rounds |-> rounds,
   errored |-> \A r \in Reviewer : reviews[r] = None \/ reviews[r].says = "failed"]

\* finishReviewed: the record is written again with the review in it,
\* best-effort.
FinishReviewed(agg, shown) ==
  LET rec == [final.record EXCEPT !.review = agg] IN
  /\ pc' = Gate
  /\ final' = [final EXCEPT !.record = rec]
  /\ Put(final.key, rec) \/ UNCHANGED store
  /\ res' = [res EXCEPT !.key = final.key, !.status = agg.final_status,
                        !.reviews = shown]
  /\ UNCHANGED <<asked, caller, run, reply, tree, reviews, round, unsynced,
                 snapshots>>

NoReviewers ==
  pc = "select" /\ FinishReviewed(Aggregate(final.status, 0), None)

AcceptReviews ==
  /\ pc = "review" /\ Joined /\ ~AnyCritical
  /\ FinishReviewed(Aggregate(final.status, 0), reviews)

\* The revision failed: the original outcome and its reviews are kept.
RevisionFailed ==
  pc = "finish" /\ FinishReviewed(Aggregate("review_failed", 1), reviews)

AcceptRereview ==
  /\ pc = "rereview" /\ Joined
  /\ FinishReviewed(
       Aggregate(IF AnyCritical THEN "review_failed" ELSE final.status, 1),
       reviews)

-----------------------------------------------------------------------------
(* The verify gate, and the end of the pipeline.                           *)

\* The verify commands run where the author worked; a failure is fed back to
\* the author while there are rounds left.
Verify(passed) ==
  /\ pc = "verify"
  /\ res' = [res EXCEPT !.verify = [passed |-> passed, tree |-> tree]]
  /\ IF ~passed /\ round < verifyReviseRounds
       THEN CallAuthor("verify") /\ round' = round + 1
       ELSE pc' = "settle" /\ UNCHANGED <<caller, run, round>>
  /\ UNCHANGED <<asked, reply, store, tree, final, reviews, unsynced,
                 snapshots>>

VerifyFailed == res.verify # None /\ ~res.verify.passed

\* Mutant of Synced: the record is built anew, without the review.
SyncedBare(status) == Record(status, None)

Synced(status) == [final.record EXCEPT !.status = status]

\* Mutant of OutOfSync: only a verify failure is thought to change the status.
OutOfSyncOnVerify(status) == status = "verify_failed"

OutOfSync(status) == final.record.status # status

\* The changed files of the whole pipeline are listed, the status is settled,
\* and the record brought in line with it if it says otherwise, best-effort.
Settle ==
  LET status == IF VerifyFailed THEN "verify_failed" ELSE res.status IN
  /\ pc = "settle" /\ pc' = "done"
  /\ \E files \in changedFilesSince(before) :
       res' = [res EXCEPT !.status = status, !.files = files]
  /\ final' = [final EXCEPT !.record = Synced(status)]
  /\ IF OutOfSync(status)
       THEN \/ Put(final.key, Synced(status)) /\ UNCHANGED unsynced
            \/ unsynced' = TRUE /\ UNCHANGED store
       ELSE UNCHANGED <<store, unsynced>>
  /\ UNCHANGED <<asked, caller, run, reply, tree, reviews, round,
                 snapshots>>

\* Another dispatch in the same directory, the host, or a verify command.
OtherEdits ==
  /\ pc \notin {"start", "done", "error"} /\ others < MaxOthers
  /\ tree' \in Edits(0)
  /\ others' = others + 1
  /\ UNCHANGED <<asked, pc, caller, run, reply, store, before, final,
                 reviews, round, res, unsynced>>

\* A run of another dispatch with the same agent names one of these keys in a
\* memory update.
OtherUpdates(k) ==
  /\ k \in DOMAIN store /\ others < MaxOthers
  /\ Put(k, Record("foreign", None))
  /\ others' = others + 1
  /\ UNCHANGED <<asked, pc, caller, run, reply, tree, before, final, reviews,
                 round, res, unsynced>>

Next ==
  \/ Refuse \/ Begin
  \/ AuthorRefused \/ Intent \/ AgentFails \/ WriteFails \/ Final
  \/ \E k \in DOMAIN store : Update(k) \/ OtherUpdates(k)
  \/ \E s \in AgentStatus : AgentReplies(s)
  \/ AcceptAuthor \/ SelectReviewers \/ NoReviewers
  \/ \E r \in Reviewer : ReviewerAnswers(r)
  \/ AcceptReviews \/ Revise \/ RevisionFailed \/ AcceptRereview
  \/ \E passed \in BOOLEAN : Verify(passed)
  \/ Settle \/ OtherEdits

Spec == Init /\ [][Next]_vars

\* An agent run and a verify command have a deadline of ten minutes each, and
\* a store call one of ten seconds (agent.go:173, verify.go:112, memory.go:54);
\* git status has none, and is taken to return.  That a deadline ends the call
\* takes that nothing the program left running holds on to its output: see
\* Answers in Consult.  A response names finitely many memory updates.
FairSpec == Spec /\ WF_vars(Next)

-----------------------------------------------------------------------------

\* The statuses that a run which failed leaves an adopted result with.
FailedStatus == {"review_failed", "verify_failed"}

\* The record the result points to says what the result says, unless the sync
\* itself failed: whichever of the runs was adopted, whichever best-effort
\* write failed before, and whatever the runs put under each other's keys.
\* What another dispatch put there later stands; and so does what a failing
\* revision put there if the author's own status was the one the failure is
\* reported with, for the sync sees no difference then
\* (orchestrator.go:694-705).
RecordAgrees ==
  pc = "done" /\ ~unsynced =>
    /\ res.key \in DOMAIN store
    /\ \/ store[res.key].status \in {res.status, "foreign"}
       \/ /\ store[res.key].status = "update"
          /\ res.status \in FailedStatus /\ final.status = res.status

\* Without a verify revision the result carries the reviews of the very run it
\* returns, and is marked exactly if one of them is critical, or if the author
\* gave that status itself (orchestrator.go:556-566, 1485-1564).
GatedByReview ==
  pc = "done" /\ res.reviews # None /\ res.revisions = 0 =>
    /\ \A r \in Reviewer : res.reviews[r] # None /\ res.reviews[r].of = res.key
    /\ \/ \E r \in Reviewer : res.reviews[r].says = "critical"
       \/ final.status = "review_failed"
       <=>
       \/ res.status = "review_failed"
       \/ /\ res.status = "verify_failed"
          /\ final.record.review.final_status = "review_failed"

\* A gated result that is not marked verify_failed passed its commands on the
\* working tree as the dispatch leaves it: no author of this dispatch, not even
\* one whose run failed, edited it since, whatever others did before or
\* after (orchestrator.go:632-668).
PassedOnThisTree ==
  pc = "done" /\ asked.verify /\ res.status # "verify_failed" =>
    /\ res.verify # None /\ res.verify.passed
    /\ res.verify.tree = tree \/ tree.by = 0

\* The files a result lists are the net changes since the dispatch began, over
\* every author run, revision and foreign edit in between
\* (orchestrator.go:596-599, 688-692).
FilesAreNet ==
  pc = "done" /\ res.files # None =>
    res.files = {tree.code} \ {Clean, asked.found}

\* Every dispatch ends: no outcome of the agents, of the reviewers or of the
\* verify commands keeps it going for ever (orchestrator.go:129-133).
DispatchEnds == <>(pc \in {"done", "error"})

-----------------------------------------------------------------------------
(* What a dispatch promises of its records.                                *)

InAuthor(who) == pc \in {"author", "run", "reply"} /\ caller = who

\* No outcome has been adopted.
First == pc = "start" \/ InAuthor("dispatch")

Ledger ==
  INSTANCE DispatchLedger
  WITH Run <- 1..(2 + verifyReviseRounds),
       Status <- Given,
       Failed <- FailedStatus,
       open <- IF pc \in {"run", "reply"} THEN run ELSE 0,
       adopted <- IF First \/ pc = "error"
                    THEN [key |-> 0, status |-> None, review |-> None]
                    ELSE [key |-> final.key, status |-> final.record.status,
                          review |-> final.record.review],
       answer <- CASE pc = "done" -> [key |-> res.key, status |-> res.status,
                                      recorded |-> ~unsynced]
                   [] pc = "error" -> "error"
                   [] OTHER -> None

\* Whatever fails on the way, every author run is on record before it runs, the
\* records change only as the ledger has it, and an outcome once adopted is
\* answered under its own key (orchestrator.go:556-720).
KeepsLedger == Ledger!LSpec

-----------------------------------------------------------------------------
(* What the documentation says, and the code does not do.                  *)

=============================================================================
