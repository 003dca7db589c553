----------------------------- MODULE StoreLock -----------------------------
(***************************************************************************)
(* The locking and persistence protocol every SharedMemory operation runs  *)
(* (internal/memory/memory.go): acquire an advisory flock through a file   *)
(* descriptor of its own, remember that descriptor in the instance's       *)
(* lockFile, load memory.json, replace it by a temp file and a rename, and *)
(* release.  Several processes share one store; one process may hold       *)
(* several SharedMemory values on it, and several goroutines may be inside *)
(* calls on the same value.  What an operation computes is a parameter     *)
(* (TaskStore says what the operations compute); that it is computed from  *)
(* the latest content and never lost or torn is what this module is about. *)
(***************************************************************************)
EXTENDS FiniteSets

CONSTANTS
  Client,          \* goroutines calling the store
  Instance,        \* SharedMemory values
  Process,         \* operating-system processes
  instOf,          \* the value a goroutine calls
  procOf,          \* the process a value lives in
  Op,              \* operations
  Reader,          \* the operations that never save (Read, All, Notes, Stats..)
  Store,           \* contents of memory.json
  Empty,           \* what load() yields for a missing or corrupt file
  Effect(_, _),    \* Effect(o, s): the content o saves, having loaded s
  None             \* a nil descriptor

ASSUME ClientAssumption ==
  /\ None \notin Client
  /\ instOf \in [Client -> Instance]
  /\ procOf \in [Instance -> Process]

ASSUME StoreAssumption ==
  /\ Reader \subseteq Op
  /\ Empty \in Store
  /\ \A o \in Op, s \in Store : Effect(o, s) \in Store
  /\ \A o \in Reader, s \in Store : Effect(o, s) = s

VARIABLES
  flock,           \* kernel: the client whose descriptor holds LOCK_EX
  lockFile,        \* per instance: m.lockFile
  disk,            \* memory.json
  pc,              \* per client: where its call stands
  op,              \* per client: the operation being called
  snap,            \* per client: the content load() returned
  fd,              \* per client: the descriptor release() took from lockFile
  out              \* per client: "none", "ok" or "err", the call's outcome

vars == <<flock, lockFile, disk, pc, op, snap, fd, out>>

Steps == {"idle", "spin", "won", "load", "temp", "rename", "release", "unlock"}

Init ==
  /\ flock = None
  /\ lockFile = [i \in Instance |-> None]
  /\ disk = Empty
  /\ pc = [c \in Client |-> "idle"]
  /\ op \in [Client -> Op]
  /\ snap = [c \in Client |-> Empty]
  /\ fd = [c \in Client |-> None]
  /\ out = [c \in Client |-> "none"]

Goto(c, from, to) == pc[c] = from /\ pc' = [pc EXCEPT ![c] = to]

\* An operation begins: acquire opens a descriptor of its own on memory.lock.
Call(c, o) ==
  /\ Goto(c, "idle", "spin")
  /\ op' = [op EXCEPT ![c] = o]
  /\ out' = [out EXCEPT ![c] = "none"]
  /\ UNCHANGED <<flock, lockFile, disk, snap, fd>>

\* Mutant of Win: the descriptor is shared, and flock lets its owner in again.
WinAgain(c) ==
  /\ Goto(c, "spin", "won")
  /\ flock' = c
  /\ UNCHANGED <<lockFile, disk, op, snap, fd, out>>

\* Flock(LOCK_EX|LOCK_NB) succeeds: no other descriptor holds the lock.
Win(c) ==
  /\ Goto(c, "spin", "won")
  /\ flock = None
  /\ flock' = c
  /\ UNCHANGED <<lockFile, disk, op, snap, fd, out>>

\* Mutant of TimeOut: no deadline, acquire spins until it wins.
TimeOutNever(c) == FALSE /\ UNCHANGED vars /\ c \in Client

\* EWOULDBLOCK after the deadline: close the descriptor, return an error.
TimeOut(c) ==
  /\ Goto(c, "spin", "idle")
  /\ flock # None
  /\ out' = [out EXCEPT ![c] = "err"]
  /\ UNCHANGED <<flock, lockFile, disk, op, snap, fd>>

\* Opening the lock file, or flock itself, fails for another reason.
AcquireError(c) ==
  /\ Goto(c, "spin", "idle")
  /\ out' = [out EXCEPT ![c] = "err"]
  /\ UNCHANGED <<flock, lockFile, disk, op, snap, fd>>

\* acquire publishes the winning descriptor in the instance, under m.mu.
SetLockFile(c) ==
  /\ Goto(c, "won", "load")
  /\ lockFile' = [lockFile EXCEPT ![instOf[c]] = c]
  /\ UNCHANGED <<flock, disk, op, snap, fd, out>>

\* Mutant of Load: a missing file yields no map at all.
LoadNil(c) ==
  /\ Goto(c, "load", "temp")
  /\ snap' = [snap EXCEPT ![c] = IF disk = Empty THEN None ELSE disk]
  /\ UNCHANGED <<flock, lockFile, disk, op, fd, out>>

\* load(): a reader has its answer, a mutator goes on to save.
Load(c) ==
  /\ pc[c] = "load"
  /\ snap' = [snap EXCEPT ![c] = disk]
  /\ IF op[c] \in Reader
       THEN /\ pc' = [pc EXCEPT ![c] = "release"]
            /\ out' = [out EXCEPT ![c] = "ok"]
       ELSE /\ pc' = [pc EXCEPT ![c] = "temp"]
            /\ UNCHANGED out
  /\ UNCHANGED <<flock, lockFile, disk, op, fd>>

\* save() writes, syncs and closes a temp file beside memory.json.
WriteTemp(c) ==
  /\ Goto(c, "temp", "rename")
  /\ UNCHANGED <<flock, lockFile, disk, op, snap, fd, out>>

\* save() renames the temp file onto memory.json: the operation takes effect.
Rename(c) ==
  /\ Goto(c, "rename", "release")
  /\ disk' = Effect(op[c], snap[c])
  /\ out' = [out EXCEPT ![c] = "ok"]
  /\ UNCHANGED <<flock, lockFile, op, snap, fd>>

\* load() or any step of save() fails: the temp file is removed, the deferred
\* release runs and the caller gets the error.
IOError(c) ==
  /\ pc[c] \in {"load", "temp", "rename"}
  /\ pc' = [pc EXCEPT ![c] = "release"]
  /\ out' = [out EXCEPT ![c] = "err"]
  /\ UNCHANGED <<flock, lockFile, disk, op, snap, fd>>

\* release() takes the descriptor out of the instance, under m.mu; a nil one
\* makes it return at once.
TakeLockFile(c) ==
  /\ pc[c] = "release"
  /\ fd' = [fd EXCEPT ![c] = lockFile[instOf[c]]]
  /\ lockFile' = [lockFile EXCEPT ![instOf[c]] = None]
  /\ pc' = [pc EXCEPT ![c] =
              IF lockFile[instOf[c]] = None THEN "idle" ELSE "unlock"]
  /\ UNCHANGED <<flock, disk, op, snap, out>>

\* Mutant of Unlock: the descriptor is dropped without LOCK_UN and close.
UnlockNot(c) ==
  /\ Goto(c, "unlock", "idle")
  /\ fd' = [fd EXCEPT ![c] = None]
  /\ UNCHANGED <<flock, lockFile, disk, op, snap, out>>

\* LOCK_UN and close on the descriptor taken: it frees the lock only if it is
\* that descriptor which holds it.
Unlock(c) ==
  /\ Goto(c, "unlock", "idle")
  /\ flock' = IF flock = fd[c] THEN None ELSE flock
  /\ fd' = [fd EXCEPT ![c] = None]
  /\ UNCHANGED <<lockFile, disk, op, snap, out>>

\* A process dies at any point and comes up again over the same root: the
\* kernel closes its descriptors, its memory is gone, memory.json stays.
Crash(p) ==
  LET dead == {c \in Client : procOf[instOf[c]] = p} IN
  /\ flock' = IF flock \in dead THEN None ELSE flock
  /\ lockFile' = [i \in Instance |-> IF procOf[i] = p THEN None ELSE lockFile[i]]
  /\ pc' = [c \in Client |-> IF c \in dead THEN "idle" ELSE pc[c]]
  /\ fd' = [c \in Client |-> IF c \in dead THEN None ELSE fd[c]]
  /\ out' = [c \in Client |-> IF c \in dead THEN "none" ELSE out[c]]
  /\ UNCHANGED <<disk, op, snap>>

\* What a goroutine does inside a call when no I/O error strikes it.
Progress(c) ==
  \/ Win(c) \/ TimeOut(c) \/ SetLockFile(c) \/ Load(c) \/ WriteTemp(c)
  \/ Rename(c) \/ TakeLockFile(c) \/ Unlock(c)

Next ==
  \/ \E c \in Client : \/ \E o \in Op : Call(c, o)
                       \/ Progress(c) \/ AcquireError(c) \/ IOError(c)
  \/ \E p \in Process : Crash(p)

Spec == Init /\ [][Next]_vars

\* Goroutines inside a call keep running; the deadline ends every spin.
FairSpec == Spec /\ \A c \in Client : WF_vars(Progress(c))

-----------------------------------------------------------------------------

TypeOK ==
  /\ flock \in Client \cup {None}
  /\ lockFile \in [Instance -> Client \cup {None}]
  /\ disk \in Store
  /\ pc \in [Client -> Steps]
  /\ op \in [Client -> Op]
  /\ snap \in [Client -> Store]
  /\ fd \in [Client -> Client \cup {None}]
  /\ out \in [Client -> {"none", "ok", "err"}]

\* The steps between winning the flock and giving it back.
Critical == {"won", "load", "temp", "rename", "release", "unlock"}

\* Of all goroutines of all processes, at most one is between acquire and
\* release: the flock is what serialises load-modify-save (memory.go:20-23).
MutualExclusion ==
  \A c, d \in Client : pc[c] \in Critical /\ pc[d] \in Critical => c = d

\* The descriptor an instance remembers is the one that holds the flock, and
\* it is the caller's own: release never unlocks for somebody else, never
\* finds nil, and never leaves the lock held behind it (memory.go:419-432).
LockFileIsHolder ==
  /\ \A c \in Client :
       pc[c] \in {"load", "temp", "rename", "release"} =>
         lockFile[instOf[c]] = c
  /\ \A c \in Client : pc[c] = "unlock" => fd[c] = c /\ flock = c
  /\ flock # None => pc[flock] \in Critical

\* What a mutator is about to save was computed from the content memory.json
\* still has: no update written in between is overwritten (memory.go:20-23).
NoStaleWrite ==
  \A c \in Client : pc[c] \in {"temp", "rename"} => snap[c] = disk

\* Every call returns, with a result or an error: contention is cut short by
\* the lock timeout, never a hang (memory.go:45-54).
CallReturns == \A c \in Client : pc[c] # "idle" ~> pc[c] = "idle"

\* A held flock is always given up again, by its holder or by its death.
LockFreed == \A c \in Client : flock = c ~> flock # c

-----------------------------------------------------------------------------
(* The refinement: an operation happens at its rename, or at its load if   *)
(* it only reads.                                                          *)

callOf(c) ==
  CASE pc[c] \in {"spin", "won", "load", "temp", "rename"} ->
         [phase |-> "pending", op |-> op[c]]
    [] pc[c] \in {"release", "unlock"} /\ out[c] = "ok" ->
         [phase |-> "applied", op |-> op[c], on |-> snap[c]]
    [] pc[c] = "idle" /\ out[c] = "ok" ->
         [phase |-> "answered", op |-> op[c], on |-> snap[c]]
    [] pc[c] = "idle" /\ out[c] = "none" -> [phase |-> "idle"]
    [] OTHER -> [phase |-> "failed"]

Atomic == INSTANCE AtomicStore
            WITH store <- disk, call <- [c \in Client |-> callOf(c)]

\* Every operation on the store is atomic: applied once and whole, at one
\* point between call and return, or not at all (memory.go:90-94, 341-343).
OperationsAtomic == Atomic!ASpec
=============================================================================
