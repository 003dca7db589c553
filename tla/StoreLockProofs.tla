-------------------------- MODULE StoreLockProofs --------------------------
(***************************************************************************)
(* Proofs about StoreLock, for any number of goroutines, SharedMemory      *)
(* values and processes, and any operations on any store.                  *)
(***************************************************************************)
EXTENDS StoreLock, TLAPS

(***************************************************************************)
(* The inductive invariant.  MutualExclusion says nothing about the steps  *)
(* of one client alone; what makes it inductive is that whoever is inside  *)
(* is the client the kernel knows as the holder.  NoStaleWrite then holds  *)
(* because only the holder renames.                                        *)
(***************************************************************************)
InsideHolds == \A c \in Client : pc[c] \in Critical => flock = c

Outcome == \A c \in Client : pc[c] \in {"release", "unlock"} => out[c] # "none"

IInv == TypeOK /\ InsideHolds /\ LockFileIsHolder /\ NoStaleWrite /\ Outcome

\* The proof's starting point: nobody is inside a call.
LEMMA InitIInv == Init => IInv
  BY ClientAssumption, StoreAssumption
  DEF Init, IInv, TypeOK, InsideHolds, LockFileIsHolder, NoStaleWrite, Outcome,
      Steps, Critical

-----------------------------------------------------------------------------
(* One lemma per part, each by the actions that can disturb it.            *)

\* What a step assigns has the type of the variable.
LEMMA TypePreserved == TypeOK /\ [Next]_vars => TypeOK'
<1> SUFFICES ASSUME TypeOK, [Next]_vars PROVE TypeOK'
  OBVIOUS
<1> USE ClientAssumption, StoreAssumption DEF TypeOK, Steps, Goto
<1>1. ASSUME NEW c \in Client, NEW o \in Op, Call(c, o) PROVE TypeOK'
  BY <1>1 DEF Call
<1>2. ASSUME NEW c \in Client, Progress(c) PROVE TypeOK'
  <2>1. CASE Win(c)           BY <2>1 DEF Win
  <2>2. CASE TimeOut(c)       BY <2>2 DEF TimeOut
  <2>3. CASE SetLockFile(c)   BY <2>3 DEF SetLockFile
  <2>4. CASE Load(c)          BY <2>4 DEF Load
  <2>5. CASE WriteTemp(c)     BY <2>5 DEF WriteTemp
  <2>6. CASE Rename(c)        BY <2>6 DEF Rename
  <2>7. CASE TakeLockFile(c)  BY <2>7 DEF TakeLockFile
  <2>8. CASE Unlock(c)        BY <2>8 DEF Unlock
  <2> QED BY <1>2, <2>1, <2>2, <2>3, <2>4, <2>5, <2>6, <2>7, <2>8 DEF Progress
<1>3. ASSUME NEW c \in Client, AcquireError(c) PROVE TypeOK'
  BY <1>3 DEF AcquireError
<1>4. ASSUME NEW c \in Client, IOError(c) PROVE TypeOK'
  BY <1>4 DEF IOError
<1>5. ASSUME NEW p \in Process, Crash(p) PROVE TypeOK'
  BY <1>5 DEF Crash
<1>6. CASE UNCHANGED vars
  BY <1>6 DEF vars
<1> QED BY <1>1, <1>2, <1>3, <1>4, <1>5, <1>6 DEF Next

\* The other parts, each preserved given the whole.
LEMMA IInvPreserved == IInv /\ [Next]_vars => IInv'
<1> SUFFICES ASSUME IInv, [Next]_vars PROVE IInv'
  OBVIOUS
<1>0. TypeOK /\ TypeOK'
  BY TypePreserved DEF IInv
<1> DEFINE Rest == InsideHolds /\ LockFileIsHolder /\ NoStaleWrite /\ Outcome
<1> SUFFICES Rest'
  BY <1>0 DEF IInv
<1> USE <1>0, ClientAssumption
    DEF IInv, TypeOK, InsideHolds, LockFileIsHolder, NoStaleWrite, Outcome,
        Critical, Goto
<1>1. ASSUME NEW c \in Client, NEW o \in Op, Call(c, o) PROVE Rest'
  BY <1>1 DEF Call
<1>2. ASSUME NEW c \in Client, Progress(c) PROVE Rest'
  <2>1. CASE Win(c)           BY <2>1 DEF Win
  <2>2. CASE TimeOut(c)       BY <2>2 DEF TimeOut
  <2>3. CASE SetLockFile(c)   BY <2>3 DEF SetLockFile
  <2>4. CASE Load(c)          BY <2>4 DEF Load
  <2>5. CASE WriteTemp(c)     BY <2>5 DEF WriteTemp
  <2>6. CASE Rename(c)        BY <2>6 DEF Rename
  <2>7. CASE TakeLockFile(c)  BY <2>7 DEF TakeLockFile
  <2>8. CASE Unlock(c)        BY <2>8 DEF Unlock
  <2> QED BY <1>2, <2>1, <2>2, <2>3, <2>4, <2>5, <2>6, <2>7, <2>8 DEF Progress
<1>3. ASSUME NEW c \in Client, AcquireError(c) PROVE Rest'
  BY <1>3 DEF AcquireError
<1>4. ASSUME NEW c \in Client, IOError(c) PROVE Rest'
  BY <1>4 DEF IOError
<1>5. ASSUME NEW p \in Process, Crash(p) PROVE Rest'
  BY <1>5 DEF Crash
<1>6. CASE UNCHANGED vars
  BY <1>6 DEF vars
<1> QED BY <1>1, <1>2, <1>3, <1>4, <1>5, <1>6 DEF Next

\* The invariant holds throughout.
LEMMA Inductive == Spec => []IInv
  BY InitIInv, IInvPreserved, PTL DEF Spec

-----------------------------------------------------------------------------

\* The variables keep their types, whatever the interleaving and the crashes.
THEOREM TypeCorrect == Spec => []TypeOK
  BY Inductive, PTL DEF IInv

\* memory.go:20-23: at most one goroutine of any process is between acquire
\* and release.
THEOREM Exclusion == Spec => []MutualExclusion
<1>1. IInv => MutualExclusion
  BY DEF IInv, InsideHolds, MutualExclusion
<1> QED BY <1>1, Inductive, PTL

\* memory.go:419-432: release always finds, unlocks and closes the caller's
\* own descriptor.
THEOREM ReleaseOwnsLock == Spec => []LockFileIsHolder
  BY Inductive, PTL DEF IInv

\* memory.go:20-23: a save never overwrites an update it did not read.
THEOREM NoLostUpdate == Spec => []NoStaleWrite
  BY Inductive, PTL DEF IInv

-----------------------------------------------------------------------------
(***************************************************************************)
(* The refinement.  Only Rename and a reader's Load are steps of the       *)
(* abstract Apply; by NoStaleWrite both act on the store of that moment.   *)
(***************************************************************************)

\* No call in progress and no file: the abstract store is empty and idle.
LEMMA InitRefines == Init => Atomic!AInit
  BY DEF Init, Atomic!AInit, callOf

\* Every step is a step of the atomic store or leaves it as it is.
LEMMA StepRefines ==
  IInv /\ IInv' /\ [Next]_vars => [Atomic!ANext]_(Atomic!avars)
<1> DEFINE call == [c \in Client |-> callOf(c)]
<1> SUFFICES ASSUME IInv, IInv', [Next]_vars
             PROVE  Atomic!ANext \/ (disk' = disk /\ call' = call)
  BY DEF Atomic!avars
<1> USE ClientAssumption, StoreAssumption
    DEF IInv, TypeOK, Goto
<1>1. ASSUME NEW c \in Client, NEW o \in Op, Call(c, o)
      PROVE  Atomic!Invoke(c, o)
  <2>1. \A d \in Client \ {c} : callOf(d)' = callOf(d)
    BY <1>1 DEF Call, callOf
  <2>2. callOf(c)' = [phase |-> "pending", op |-> o]
    BY <1>1 DEF Call, callOf
  <2>3. callOf(c).phase \in {"idle", "failed", "answered"}
    BY <1>1 DEF Call, callOf
  <2>4. call' = [call EXCEPT ![c] = [phase |-> "pending", op |-> o]] /\ call[c] = callOf(c)
    <3> HIDE DEF IInv
    <3> QED BY <2>1, <2>2
  <2>5. UNCHANGED disk
    BY <1>1 DEF Call
  <2> QED BY <2>3, <2>4, <2>5 DEF Atomic!Invoke
<1>2. ASSUME NEW c \in Client, TimeOut(c) \/ AcquireError(c) \/ IOError(c)
      PROVE  Atomic!Fail(c)
  <2>1. \A d \in Client \ {c} : callOf(d)' = callOf(d)
    BY <1>2 DEF TimeOut, AcquireError, IOError, callOf
  <2>2. callOf(c)' = [phase |-> "failed"]
    BY <1>2 DEF TimeOut, AcquireError, IOError, callOf
  <2>3. callOf(c).phase = "pending"
    BY <1>2 DEF TimeOut, AcquireError, IOError, callOf
  <2>4. disk' = disk
    BY <1>2 DEF TimeOut, AcquireError, IOError
  <2>5. call' = [call EXCEPT ![c] = [phase |-> "failed"]]
    BY <2>1, <2>2
  <2> QED BY <2>3, <2>4, <2>5 DEF Atomic!Fail
<1>3. ASSUME NEW c \in Client, Rename(c) \/ (Load(c) /\ op[c] \in Reader)
      PROVE  Atomic!Apply(c)
  <2>1. \A d \in Client \ {c} : callOf(d)' = callOf(d)
    BY <1>3 DEF Rename, Load, callOf
  <2>2. callOf(c)' = [phase |-> "applied", op |-> op[c], on |-> disk]
    BY <1>3 DEF Rename, Load, callOf, NoStaleWrite
  <2>3. callOf(c) = [phase |-> "pending", op |-> op[c]]
    BY <1>3 DEF Rename, Load, callOf
  <2>4. disk' = Effect(op[c], disk)
    BY <1>3 DEF Rename, Load, NoStaleWrite
  <2>5. call' = [call EXCEPT ![c] =
                   [phase |-> "applied", op |-> op[c], on |-> disk]]
    BY <2>1, <2>2
  <2>6. call[c] = callOf(c)
    OBVIOUS
  <2>7. call[c].phase = "pending" /\ call[c].op = op[c]
    BY <2>3, <2>6
  <2> HIDE DEF call
  <2> QED BY <2>4, <2>5, <2>7 DEF Atomic!Apply, call
<1>4. ASSUME NEW c \in Client,
             Win(c) \/ SetLockFile(c) \/ WriteTemp(c) \/ TakeLockFile(c)
               \/ (Load(c) /\ op[c] \notin Reader)
      PROVE  disk' = disk /\ call' = call
  <2>1. \A d \in Client : callOf(d)' = callOf(d)
    <3>1. ASSUME NEW d \in Client, d # c PROVE callOf(d)' = callOf(d)
      BY <1>4, <3>1
      DEF Win, SetLockFile, WriteTemp, TakeLockFile, Load, callOf
    <3>2. callOf(c)' = callOf(c)
      BY <1>4
      DEF Win, SetLockFile, WriteTemp, TakeLockFile, Load, callOf,
          LockFileIsHolder, Outcome
    <3> QED BY <3>1, <3>2
  <2>2. disk' = disk
    BY <1>4 DEF Win, SetLockFile, WriteTemp, TakeLockFile, Load
  <2> QED BY <2>1, <2>2
<1>5. ASSUME NEW c \in Client, Unlock(c)
      PROVE  Atomic!Return(c) \/ (disk' = disk /\ call' = call)
  <2>1. \A d \in Client \ {c} : callOf(d)' = callOf(d)
    BY <1>5 DEF Unlock, callOf
  <2>2. CASE out[c] = "ok"
    <3>1. callOf(c) = [phase |-> "applied", op |-> op[c], on |-> snap[c]]
      BY <1>5, <2>2 DEF Unlock, callOf
    <3>2. callOf(c)' = [phase |-> "answered", op |-> op[c], on |-> snap[c]]
      BY <1>5, <2>2 DEF Unlock, callOf
    <3>3. call' = [call EXCEPT ![c] =
                     [phase |-> "answered", op |-> op[c], on |-> snap[c]]]
      BY <2>1, <3>2
    <3>4. call[c] = callOf(c)
      OBVIOUS
    <3>5. /\ call[c].phase = "applied"
          /\ call[c].op = op[c] /\ call[c].on = snap[c]
      BY <3>1, <3>4
    <3>6. disk' = disk
      BY <1>5 DEF Unlock
    <3> HIDE DEF call
    <3> QED BY <3>3, <3>5, <3>6 DEF Atomic!Return, call
  <2>3. CASE out[c] = "err"
    <3>1. callOf(c)' = callOf(c)
      BY <1>5, <2>3 DEF Unlock, callOf
    <3> QED BY <1>5, <2>1, <3>1 DEF Unlock
  <2> QED BY <1>5, <2>2, <2>3 DEF Unlock, Outcome
<1>6. ASSUME NEW p \in Process, Crash(p)
      PROVE  \E C \in SUBSET Client : Atomic!Vanish(C)
  <2> DEFINE dead == {c \in Client : procOf[instOf[c]] = p}
  <2>1. \A d \in Client \ dead : callOf(d)' = callOf(d)
    BY <1>6 DEF Crash, callOf
  <2>2. \A d \in dead : callOf(d)' = [phase |-> "idle"]
    BY <1>6 DEF Crash, callOf
  <2>3. disk' = disk
    BY <1>6 DEF Crash
  <2>4. Atomic!Vanish(dead)
    BY <2>1, <2>2, <2>3 DEF Atomic!Vanish
  <2> QED BY <2>4
<1>7. CASE UNCHANGED vars
  BY <1>7 DEF vars, callOf
<1> QED
  BY <1>1, <1>2, <1>3, <1>4, <1>5, <1>6, <1>7 DEF Next, Progress, Atomic!ANext

\* memory.go:90-94, 341-343: every operation on the shared store is atomic,
\* whatever the interleaving of goroutines and processes, the I/O errors and
\* the crashes.
THEOREM Refinement == Spec => OperationsAtomic
  BY InitRefines, StepRefines, Inductive, PTL
  DEF Spec, OperationsAtomic, Atomic!ASpec
=============================================================================
