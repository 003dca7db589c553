----------------------------- MODULE TaskStore -----------------------------
(***************************************************************************)
(* The task entries of memory.json and the operations dispatches and the   *)
(* compact tool run on them (internal/memory/memory.go, compaction.go, and *)
(* the store calls of orchestrator.runAuthor and finishReviewed).  One     *)
(* step is one operation of the store: StoreLock shows each is atomic.     *)
(*                                                                         *)
(* A dispatch allocates a key, writes its intent under it, runs its agent  *)
(* with no lock held, fans out the agent's updates, writes the             *)
(* authoritative record, and lets MaybeCompact bound the store: a check    *)
(* under the lock, and a Compact under another acquisition of it.          *)
(* Dispatches run concurrently, in one process or in several, and any of   *)
(* their store calls may fail.                                             *)
(***************************************************************************)
EXTENDS Naturals, FiniteSets, Functions, FiniteSetsExt

CONSTANTS
  Slot,            \* concurrent dispatch pipelines; each runs one after another
  Agent,           \* agents a dispatch may be routed to
  nameRank,        \* an agent's rank in the string order of agent names
  MaxEntries,      \* the cap runAuthor gives MaybeCompact (200 in the code)
  HostMaxEntries,  \* max_entries of the compact tool's calls of Compact
  Reviewing,       \* slots whose dispatches are reviewed: they write once more
  Resultless,      \* slots whose agents answer with a null result
  NamesOthers,     \* agents may name any key of theirs in a memory update
  Ticks,           \* seconds that may pass at a write: {1}, or {0, 1} for ties
  MaxIndex,        \* bound: no allocation past this index
  MaxClock,        \* bound: no write after this second
  MaxUpdates       \* bound: memory updates of a dispatch, per slot

\* With one-digit indexes the string order of two keys of an agent, which
\* breaks timestamp ties, is the order of their indexes.
ASSUME BoundAssumption ==
  /\ MaxIndex \in 1..9 /\ MaxClock \in Nat /\ MaxUpdates \in [Slot -> Nat]
  /\ MaxEntries \in Nat \ {0}
  /\ Ticks \subseteq Nat /\ Reviewing \cup Resultless \subseteq Slot
  /\ nameRank \in [Agent -> Nat] /\ HostMaxEntries \subseteq Nat
  /\ IsFiniteSet(Slot) /\ IsFiniteSet(Agent)

Key == [agent : Agent, n : 1..MaxIndex]
NoKey == [agent |-> "none", n |-> 0]

\* What an entry holds: nothing yet, the routing decision, a memory update, or
\* the authoritative record ("null" if the agent gave no result).
Authoritative == {"final", "null"}
Kinds == {"reserved", "intent", "update"} \cup Authoritative

VARIABLES
  entries,         \* memory.json: key -> [kind, ts]
  digest,          \* the keys folded into _digest, with what they held
  clock,           \* the second time.Now().Unix() returns
  pc, key, updates,\* per slot: the dispatch in progress
  target,          \* per slot: the key the memory update at hand is written to
  issued,          \* history: how often each key was allocated
  finished,        \* history: keys whose authoritative record was written
  named            \* history: keys a memory update named that were not the
                   \*   updating dispatch's own

history == <<issued, finished, named>>
vars == <<entries, digest, clock, pc, key, updates, target, history>>

Steps == {"idle", "intent", "run", "write", "check", "compact", "review"}

Init ==
  /\ entries = <<>>
  /\ digest = {}
  /\ clock = 0
  /\ pc = [s \in Slot |-> "idle"]
  /\ key = [s \in Slot |-> NoKey]
  /\ target = [s \in Slot |-> NoKey]
  /\ updates = [s \in Slot |-> 0]
  /\ issued = [k \in Key |-> 0]
  /\ finished = {}
  /\ named = {}

-----------------------------------------------------------------------------
(* The operations of the store.                                            *)

Keys == DOMAIN entries
Reals == {k \in Keys : entries[k].kind # "reserved"}

\* Every write stamps the entry with the current second.
Write(k, kind) ==
  /\ \E d \in Ticks : clock' = clock + d
  /\ clock' <= MaxClock
  /\ entries' = [j \in Keys \cup {k} |->
                   IF j = k THEN [kind |-> kind, ts |-> clock'] ELSE entries[j]]

\* Mutant of NextIndex: reservations are not counted.
NextIndexOfReals == 1 + Max({k.n : k \in Reals} \cup {0})

\* AllocKey: a reservation one past the highest index of any agent's keys.
NextIndex == 1 + Max({k.n : k \in Keys} \cup {0})
NextKey(a) == [agent |-> a, n |-> NextIndex]

AllocKey(a) ==
  /\ NextIndex <= MaxIndex
  /\ Write(NextKey(a), "reserved")
  /\ issued' = [issued EXCEPT ![NextKey(a)] = @ + 1]

\* Compact orders the entries by timestamp, then by key, ...
Newer(j, k) ==
  \/ entries[j].ts > entries[k].ts
  \/ /\ entries[j].ts = entries[k].ts
     /\ \/ nameRank[j.agent] > nameRank[k.agent]
        \/ j.agent = k.agent /\ j.n > k.n

\* ... and all but the newest max are folded into the digest.
Cold(max) ==
  {k \in Reals : max > 0 /\ Cardinality({j \in Reals : Newer(j, k)}) >= max}
Kept(max) == Reals \ Cold(max)

\* Its text names each of them with a rendering of what it held.
Folded(max) == {[key |-> k, kind |-> entries[k].kind] : k \in Cold(max)}

\* A reservation survives if its index is above every kept key of its agent.
Frontier(max) ==
  {k \in Keys \ Reals : \A j \in Kept(max) : j.agent = k.agent => j.n < k.n}

\* Mutant of CompactStore: what is folded does not reach the digest.
CompactStoreDropping(max) ==
  entries' = Restrict(entries, Kept(max) \cup Frontier(max)) /\ UNCHANGED digest

CompactStore(max) ==
  /\ entries' = Restrict(entries, Kept(max) \cup Frontier(max))
  /\ digest' = digest \cup Folded(max)

-----------------------------------------------------------------------------
(* A dispatch.                                                             *)

Goto(s, from, to) == pc[s] = from /\ pc' = [pc EXCEPT ![s] = to]

\* The pipeline is over; the next one of the slot starts afresh.
Leave(s) ==
  /\ pc' = [pc EXCEPT ![s] = "idle"]
  /\ key' = [key EXCEPT ![s] = NoKey]
  /\ target' = [target EXCEPT ![s] = NoKey]
  /\ updates' = [updates EXCEPT ![s] = 0]

\* A new dispatch is routed to an agent and reserves its key.
Begin(s, a) ==
  /\ Goto(s, "idle", "intent")
  /\ AllocKey(a)
  /\ key' = [key EXCEPT ![s] = NextKey(a)]
  /\ UNCHANGED <<digest, updates, target, finished, named>>

\* The routing decision is recorded under the key, with a null result; the
\* agent then runs, and no lock is held while it does.
Intent(s) ==
  /\ Goto(s, "intent", "run")
  /\ Write(key[s], "intent")
  /\ UNCHANGED <<digest, key, updates, target, history>>

\* A memory update naming a key of the dispatch's own agent keeps that key,
\* whoever holds it and whether or not it was ever allocated.
UpdateNamed(s, k) ==
  /\ Goto(s, "run", "write")
  /\ updates[s] < MaxUpdates[s]
  /\ k.agent = key[s].agent
  /\ k = key[s] \/ NamesOthers
  /\ named' = named \cup ({k} \ {key[s]})
  /\ target' = [target EXCEPT ![s] = k]
  /\ updates' = [updates EXCEPT ![s] = @ + 1]
  /\ UNCHANGED <<entries, digest, clock, key, issued, finished>>

\* Any other update is given a freshly allocated key of that agent.
UpdateRelabelled(s) ==
  /\ Goto(s, "run", "write")
  /\ updates[s] < MaxUpdates[s]
  /\ AllocKey(key[s].agent)
  /\ target' = [target EXCEPT ![s] = NextKey(key[s].agent)]
  /\ updates' = [updates EXCEPT ![s] = @ + 1]
  /\ UNCHANGED <<digest, key, finished, named>>

WriteUpdate(s) ==
  /\ Goto(s, "write", "run")
  /\ Write(target[s], "update")
  /\ target' = [target EXCEPT ![s] = NoKey]
  /\ UNCHANGED <<digest, key, updates, history>>

authRecord(s) == IF s \in Resultless THEN "null" ELSE "final"

\* The authoritative record is written last, over intent and updates alike.
Final(s) ==
  /\ Goto(s, "run", "check")
  /\ Write(key[s], authRecord(s))
  /\ finished' = finished \cup {key[s]}
  /\ UNCHANGED <<digest, key, updates, target, issued, named>>

\* A reviewed dispatch goes on to its reviews once its author is through.
AuthorDone(s) ==
  IF s \in Reviewing
    THEN pc' = [pc EXCEPT ![s] = "review"] /\ UNCHANGED <<key, updates, target>>
    ELSE Leave(s)

\* MaybeCompact counts the real entries under the lock, and releases it; too
\* many notes or insights make it compact as well.
Check(s) ==
  /\ pc[s] = "check"
  /\ \E othersOver \in BOOLEAN :
       IF othersOver \/ Cardinality(Reals) > MaxEntries
         THEN Goto(s, "check", "compact") /\ UNCHANGED <<key, updates, target>>
         ELSE AuthorDone(s)
  /\ UNCHANGED <<entries, digest, clock, history>>

\* It then acquires the lock again and compacts whatever the store is by now;
\* a failure is noted and otherwise ignored.
Compact(s) ==
  /\ pc[s] = "compact"
  /\ AuthorDone(s)
  /\ \/ CompactStore(MaxEntries)
     \/ UNCHANGED <<entries, digest>>
  /\ UNCHANGED <<clock, history>>

\* finishReviewed writes the record again with the review in it, best-effort.
Review(s) ==
  /\ pc[s] = "review"
  /\ Leave(s)
  /\ \/ Write(key[s], authRecord(s))
     \/ UNCHANGED <<entries, clock>>
  /\ UNCHANGED <<digest, history>>

\* A store call or the agent fails, or the process dies: the dispatch ends
\* with whatever it had written.
Abort(s) ==
  /\ pc[s] \in {"intent", "run", "write"}
  /\ Leave(s)
  /\ UNCHANGED <<entries, digest, clock, history>>

\* The host calls the compact tool.
HostCompact(max) ==
  /\ CompactStore(max)
  /\ UNCHANGED <<clock, pc, key, updates, target, history>>

DispatchStep(s) ==
  \/ \E a \in Agent : Begin(s, a)
  \/ \E k \in Key : UpdateNamed(s, k)
  \/ Intent(s) \/ UpdateRelabelled(s) \/ WriteUpdate(s) \/ Final(s)
  \/ Check(s) \/ Compact(s) \/ Review(s) \/ Abort(s)

Next ==
  \/ \E s \in Slot : DispatchStep(s)
  \/ \E max \in HostMaxEntries : HostCompact(max)

Spec == Init /\ [][Next]_vars

-----------------------------------------------------------------------------

\* No key is ever handed out twice, so no dispatch writes over what another
\* holds or has recorded (memory.go:187, "fresh, collision-free").
KeysFresh == \A k \in Key : issued[k] <= 1

\* Every authoritative record ever written is still there as such, live or
\* folded into the digest, unless another dispatch's agent named its key in a
\* memory update: neither a concurrent dispatch nor a compaction loses it
\* (compaction.go:90-114, orchestrator.go:935-940).
NoResultLost ==
  \A k \in finished \ named :
    \/ k \in Keys /\ entries[k].kind \in Authoritative
    \/ \E kind \in Authoritative : [key |-> k, kind |-> kind] \in digest

\* While an agent runs, the decision recorded before it started is on record,
\* live or folded: no compaction drops it, and no other dispatch writes over it
\* but by naming its key, until the agent itself writes over it
\* (compaction.go:103-104, orchestrator.go:846-848).
IntentOnRecord ==
  \A s \in Slot : pc[s] = "run" /\ updates[s] = 0 =>
    \/ key[s] \in Reals
    \/ [key |-> key[s], kind |-> "intent"] \in digest
    \/ key[s] \in named
=============================================================================
