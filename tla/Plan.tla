-------------------------------- MODULE Plan --------------------------------
(***************************************************************************)
(* The step-gated plan loop (internal/plan/plan.go and the plan_* tools of *)
(* internal/mcp/mcp.go).  One plan.json holds the active plan.  Hosts ask  *)
(* for the next runnable step, dispatch it, and record how it went; an     *)
(* editor revises the plan in between.  Requests are served concurrently.  *)
(* A read-modify-write holds the mutex of its server's Manager from its    *)
(* read to its rename; an operation that only reads, or only writes, is    *)
(* one step.  Two servers may work on the same root: plan.json is theirs   *)
(* in common, the mutexes are not.  The stop gate is in Consult.           *)
(***************************************************************************)
EXTENDS Naturals, Sequences, FiniteSets, FiniteSetsExt

CONSTANTS
  Id,              \* step ids
  Host,            \* hosts driving the loop
  Server,          \* servers over the root, each with a Manager of its own
  Vias,            \* bound: who may be connected to which server
  MaxAttempts,     \* plan.MaxAttempts
  Plans,           \* the step sequences a planner may return
  Revisions,       \* the arguments of plan_revise: [add, update, remove]
  MaxRevisions,    \* bound: calls of plan_revise
  MaxPlans,        \* bound: calls of plan
  None             \* no step, no caller, no plan, a field left empty

Editor == "editor"
Actor == Host \cup {Editor}

Status == {"pending", "done", "failed"}

\* A step of the plan, and as a planner or an editor gives it: planStepSchema
\* lets them leave the status out, and has no attempts.  An update may leave
\* out more.
Step == [id : Id, deps : SUBSET Id, status : Status, attempts : Nat]
Draft == [id : Id, deps : SUBSET Id, status : {None} \cup Status, attempts : {0}]
Update == [id : Id, deps : {None} \cup SUBSET Id, status : {None} \cup Status]

ASSUME PlanAssumption ==
  /\ Vias \subseteq [Actor -> Server]
  /\ MaxAttempts \in Nat \ {0} /\ MaxRevisions \in Nat /\ MaxPlans \in Nat
  /\ None \notin Id \cup Actor \cup Status
  /\ None \notin Revisions /\ None \notin Seq(Step)
  /\ Editor \notin Host
  /\ IsFiniteSet(Host)
  /\ Plans \subseteq Seq(Draft)
  /\ \A r \in Revisions :
       r.add \in Seq(Draft) /\ r.update \in Seq(Update) /\ r.remove \subseteq Id

VARIABLES
  plan,            \* plan.json: the steps, or None
  via,             \* actor -> the server it is connected to
  mu,              \* server -> Manager.mu: who is inside a read-modify-write
  snap,            \* actor -> the plan it read
  pc,              \* actor -> where its call or its dispatch stands
  held,            \* host -> the id of the step it was offered
  verdict,         \* host -> how its dispatch of that step ended
  revision,        \* the revision being applied
  fails,           \* history, on one server: id -> failures recorded of the step
                   \*   that is now in the plan
  revisions, plans \* calls of plan_revise and of plan so far

vars == <<plan, via, mu, snap, pc, held, verdict, revision, fails,
          revisions, plans>>

-----------------------------------------------------------------------------
(* Pure functions on the steps of a plan.                                  *)

DoneIds(p) == {p[i].id : i \in {k \in DOMAIN p : p[k].status = "done"}}
Remaining(p) == Cardinality({i \in DOMAIN p : p[i].status # "done"})

\* Mutant of runnable: failed steps are retried without a cap.
runnableUncapped(s) == s.status \in {"pending", "failed"}

\* Another: they are not retried.
runnablePending(s) == s.status = "pending"

runnable(s) ==
  s.status = "pending" \/ (s.status = "failed" /\ s.attempts < MaxAttempts)

\* Next offers the first runnable step whose dependencies are all done.
Offerable(p) == {i \in DOMAIN p : runnable(p[i]) /\ p[i].deps \subseteq DoneIds(p)}
Offer(p) == IF Offerable(p) = {} THEN None ELSE p[Min(Offerable(p))].id

\* Record and the updates of Revise act on the first step with the id.
Indexes(p, id) == {i \in DOMAIN p : p[i].id = id}
IsFirst(p, i) == i = Min(Indexes(p, p[i].id))

\* Mutant of Recorded: only failures reach the plan.
RecordedIfFailed(p, id, v) ==
  IF v = "done" THEN p
  ELSE LET i == Min(Indexes(p, id)) IN
       [p EXCEPT ![i].status = v, ![i].attempts = @ + 1]

Recorded(p, id, v) == LET i == Min(Indexes(p, id)) IN
  [p EXCEPT ![i].status = v, ![i].attempts = IF v = "failed" THEN @ + 1 ELSE @]

\* mergeStep: only the fields an update sets are merged, attempts never.  Of
\* several updates of a step, the last that sets a field has its way.
Setting(us, id, f) == {k \in DOMAIN us : us[k].id = id /\ us[k][f] # None}
Merged(s, us) ==
  LET Latest(f) == us[Max(Setting(us, s.id, f))][f] IN
  [s EXCEPT !.status = IF Setting(us, s.id, "status") = {} THEN @ ELSE Latest("status"),
            !.deps   = IF Setting(us, s.id, "deps") = {} THEN @ ELSE Latest("deps")]
Updated(p, us) ==
  [i \in DOMAIN p |-> IF IsFirst(p, i) THEN Merged(p[i], us) ELSE p[i]]

\* The steps whose ids are not removed close ranks.
Kept(p, ids) == {i \in DOMAIN p : p[i].id \notin ids}
Place(p, ids, i) == Cardinality({k \in Kept(p, ids) : k <= i})
Without(p, ids) ==
  [j \in 1..Cardinality(Kept(p, ids)) |->
     p[CHOOSE i \in Kept(p, ids) : Place(p, ids, i) = j]]

\* A status left empty is pending.
Defaulted(s) == [s EXCEPT !.status = IF @ = None THEN "pending" ELSE @]

\* Updates first, then removals, then additions.
Revised(p, r) ==
  Without(Updated(p, r.update), r.remove)
    \o [i \in DOMAIN r.add |-> Defaulted(r.add[i])]

-----------------------------------------------------------------------------

Init ==
  /\ plan = None
  /\ via \in Vias
  /\ mu = [s \in Server |-> None]
  /\ snap = [a \in Actor |-> None]
  /\ pc = [a \in Actor |-> "idle"]
  /\ held = [h \in Host |-> None]
  /\ verdict = [h \in Host |-> None]
  /\ revision = None
  /\ fails = [id \in Id |-> 0]
  /\ revisions = 0 /\ plans = 0

OneServer == \A a, b \in Actor : via[a] = via[b]

Free(a) == mu[via[a]] = None
Lock(a) == mu' = [mu EXCEPT ![via[a]] = a]

Goto(a, from, to) == pc[a] = from /\ pc' = [pc EXCEPT ![a] = to]

\* The plan tool establishes a planner's steps, all pending, in the place of
\* the plan there was; a failed write goes unnoticed.
Establish(p) ==
  /\ Free(Editor) /\ plans < MaxPlans
  /\ plans' = plans + 1
  /\ \/ /\ plan' = [i \in DOMAIN p |-> Defaulted(p[i])]
        /\ fails' = [id \in Id |-> 0]
     \/ UNCHANGED <<plan, fails>>
  /\ UNCHANGED <<via, mu, snap, pc, held, verdict, revision, revisions>>

\* plan_next offers a step, and the host dispatches it.
PlanNext(h) ==
  /\ Free(h) /\ plan # None /\ Offer(plan) # None
  /\ Goto(h, "idle", "dispatch")
  /\ held' = [held EXCEPT ![h] = Offer(plan)]
  /\ UNCHANGED <<via, plan, mu, snap, verdict, revision, fails,
                 revisions, plans>>

\* The dispatch ends, one way or the other.
Dispatched(h, v) ==
  /\ Goto(h, "dispatch", "report")
  /\ verdict' = [verdict EXCEPT ![h] = v]
  /\ UNCHANGED <<via, plan, mu, snap, held, revision, fails, revisions,
                 plans>>

\* Mutant of RecordRead: the mutex is not held up to the write.
RecordReadUnlocked(h) ==
  /\ Free(h) /\ Goto(h, "report", "write")
  /\ Indexes(plan, held[h]) # {}
  /\ snap' = [snap EXCEPT ![h] = plan]
  /\ UNCHANGED <<via, plan, mu, held, verdict, revision, fails,
                 revisions, plans>>

\* plan_record reads the plan; an unknown id is an error and changes nothing.
RecordRead(h) ==
  /\ Free(h) /\ pc[h] = "report"
  /\ IF Indexes(plan, held[h]) = {}
       THEN /\ Goto(h, "report", "idle")
            /\ held' = [held EXCEPT ![h] = None]
            /\ verdict' = [verdict EXCEPT ![h] = None]
            /\ UNCHANGED <<mu, snap>>
       ELSE /\ Goto(h, "report", "write")
            /\ Lock(h)
            /\ snap' = [snap EXCEPT ![h] = plan]
            /\ UNCHANGED <<held, verdict>>
  /\ UNCHANGED <<via, plan, revision, fails, revisions, plans>>

Release(a) ==
  /\ mu' = [mu EXCEPT ![via[a]] = None]
  /\ snap' = [snap EXCEPT ![a] = None]

\* plan_record renames the changed plan into place, and answers.
RecordWrite(h) ==
  /\ Goto(h, "write", "idle")
  /\ plan' = Recorded(snap[h], held[h], verdict[h])
  /\ fails' = [fails EXCEPT ![held[h]] =
                 IF OneServer /\ verdict[h] = "failed" THEN @ + 1 ELSE @]
  /\ Release(h)
  /\ held' = [held EXCEPT ![h] = None]
  /\ verdict' = [verdict EXCEPT ![h] = None]
  /\ UNCHANGED <<via, revision, revisions, plans>>

\* The write fails: plan.json is what it was, and the host is told.
RecordFails(h) ==
  /\ Goto(h, "write", "report")
  /\ Release(h)
  /\ UNCHANGED <<via, plan, held, verdict, revision, fails, revisions,
                 plans>>

ReviseRead(r) ==
  /\ Free(Editor) /\ plan # None
  /\ revisions < MaxRevisions
  /\ Goto(Editor, "idle", "write")
  /\ Lock(Editor)
  /\ snap' = [snap EXCEPT ![Editor] = plan]
  /\ revision' = r
  /\ revisions' = revisions + 1
  /\ UNCHANGED <<via, plan, held, verdict, fails, plans>>

ReviseWrite ==
  /\ Goto(Editor, "write", "idle")
  /\ plan' = Revised(snap[Editor], revision)
  /\ fails' = [id \in Id |-> IF id \in revision.remove THEN 0 ELSE fails[id]]
  /\ Release(Editor)
  /\ revision' = None
  /\ UNCHANGED <<via, held, verdict, revisions, plans>>

ReviseFails ==
  /\ Goto(Editor, "write", "idle")
  /\ Release(Editor)
  /\ revision' = None
  /\ UNCHANGED <<via, plan, held, verdict, fails, revisions, plans>>

\* A server dies and comes up again: plan.json is all that is left.
Crash(s) ==
  LET OrNot(f, nothing) == [a \in DOMAIN f |-> IF via[a] = s THEN nothing ELSE f[a]] IN
  /\ mu' = [mu EXCEPT ![s] = None]
  /\ snap' = OrNot(snap, None)
  /\ pc' = OrNot(pc, "idle")
  /\ held' = OrNot(held, None)
  /\ verdict' = OrNot(verdict, None)
  /\ revision' = IF via[Editor] = s THEN None ELSE revision
  /\ UNCHANGED <<via, plan, fails, revisions, plans>>

HostStep(h) ==
  \/ PlanNext(h) \/ RecordRead(h) \/ RecordWrite(h) \/ RecordFails(h)
  \/ \E v \in {"done", "failed"} : Dispatched(h, v)

Next ==
  \/ \E p \in Plans : Establish(p)
  \/ \E h \in Host : HostStep(h)
  \/ \E r \in Revisions : ReviseRead(r)
  \/ ReviseWrite \/ ReviseFails
  \/ \E s \in Server : Crash(s)

Spec == Init /\ [][Next]_vars

\* The host loop the tools prescribe: ask, dispatch, record, repeat.  A
\* dispatch ends, a write that fails does not fail for ever, and the server
\* is not killed for ever.
FairSpec ==
  /\ Spec
  /\ \A h \in Host : /\ WF_vars(PlanNext(h) \/ RecordRead(h))
                     /\ WF_vars(\E v \in {"done", "failed"} : Dispatched(h, v))
                     /\ SF_vars(RecordWrite(h))
  /\ WF_vars(ReviseWrite \/ ReviseFails)

-----------------------------------------------------------------------------

\* On one server every failure recorded of a step is counted in its attempts,
\* and nothing else is: no concurrent record or revision loses one
\* (plan.go:8-9, 195-197).
AttemptsCounted ==
  OneServer /\ plan # None => \A i \in DOMAIN plan :
    IsFirst(plan, i) => plan[i].attempts = fails[plan[i].id]

\* On one server a failing step is not tried for ever: beyond MaxAttempts there
\* are only the hosts that were offered it before it was blocked, once more for
\* every revision that may have reset it (plan.go:41-45).
AttemptsBounded ==
  OneServer /\ plan # None => \A i \in DOMAIN plan :
    plan[i].attempts < MaxAttempts + Cardinality(Host) * (revisions + 1)

\* On one server a step that a revision removed stays removed, whatever is
\* recorded of it at the same time, until a revision or a new plan has its id
\* again (plan.go:225-231).
RemovedStaysRemoved ==
  [][\A id \in Id :
       OneServer /\ plan # None /\ Indexes(plan, id) = {} /\ Indexes(plan', id) # {} =>
         \/ plans' > plans
         \/ /\ revision # None
            /\ \E i \in DOMAIN revision.add : revision.add[i].id = id]_vars

\* The loop ends: once crashes stop, every step is done or blocked and
\* plan_next has nothing to offer; on one server, and between two hosts on two
\* servers, although they may undo each other's records (plan.go:13-18).
LoopEnds ==
  (OneServer \/ Cardinality(Host) <= 2) =>
    ((<>[][\A s \in Server : ~Crash(s)]_vars) => <>[](plan # None => Offer(plan) = None))

\* No step depends on one that is not in the plan, nor steps on each other.
Closed(p) == \A i \in DOMAIN p : \A d \in p[i].deps : Indexes(p, d) # {}
Acyclic(p) ==
  \A S \in SUBSET DOMAIN p : S # {} =>
    \E i \in S : \A d \in p[i].deps : Indexes(p, d) \cap S = {}

\* When plan_next has nothing to offer although steps remain, one of them has
\* failed MaxAttempts times: in a plan without dangling or circular dependencies
\* nothing else keeps a step waiting (plan.go:141-143).
NullMeansBlocked ==
  (plan # None /\ Offer(plan) = None /\ Remaining(plan) > 0
     /\ Closed(plan) /\ Acyclic(plan))
    => \E i \in DOMAIN plan :
         plan[i].status = "failed" /\ plan[i].attempts >= MaxAttempts
=============================================================================
