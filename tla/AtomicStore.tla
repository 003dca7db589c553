---------------------------- MODULE AtomicStore ----------------------------
(***************************************************************************)
(* What package memory promises its callers: every public operation of a   *)
(* SharedMemory is one indivisible step on memory.json.  A call either     *)
(* applies its effect to the store exactly once and returns the answer it  *)
(* computed from the store it changed, or it returns an error (or its      *)
(* process dies) with the store as it was.  StoreLock implements this.     *)
(***************************************************************************)

CONSTANTS
  Client,          \* callers of the store, over every process
  Op,              \* the operations they may call
  Store,           \* the contents memory.json may have
  Empty,           \* the content load() reports for a missing file
  Effect(_, _)     \* Effect(o, s): the content operation o leaves on s

VARIABLES
  store,           \* the content every later operation observes
  call             \* per client: the call in progress, or the last outcome

avars == <<store, call>>

Calls ==
  [phase : {"idle", "failed"}] \cup
  [phase : {"pending"}, op : Op] \cup
  [phase : {"applied", "answered"}, op : Op, on : Store]

AInit ==
  /\ store = Empty
  /\ call = [c \in Client |-> [phase |-> "idle"]]

\* A client that is not inside a call starts one.
Invoke(c, o) ==
  /\ call[c].phase \in {"idle", "failed", "answered"}
  /\ call' = [call EXCEPT ![c] = [phase |-> "pending", op |-> o]]
  /\ UNCHANGED store

\* The whole operation happens here; `on' remembers what it acted upon.
Apply(c) ==
  /\ call[c].phase = "pending"
  /\ store' = Effect(call[c].op, store)
  /\ call' = [call EXCEPT ![c] =
                [phase |-> "applied", op |-> call[c].op, on |-> store]]

\* An applied call returns; its answer is a function of `op' and `on'.
Return(c) ==
  /\ call[c].phase = "applied"
  /\ call' = [call EXCEPT ![c] =
                [phase |-> "answered", op |-> call[c].op, on |-> call[c].on]]
  /\ UNCHANGED store

\* A pending call gives up: the store keeps no trace of it.
Fail(c) ==
  /\ call[c].phase = "pending"
  /\ call' = [call EXCEPT ![c] = [phase |-> "failed"]]
  /\ UNCHANGED store

\* A process dies and takes its calls with it, at whatever point they were.
Vanish(C) ==
  /\ call' = [c \in Client |-> IF c \in C THEN [phase |-> "idle"] ELSE call[c]]
  /\ UNCHANGED store

ANext ==
  \/ \E c \in Client : \/ \E o \in Op : Invoke(c, o)
                       \/ Apply(c) \/ Return(c) \/ Fail(c)
  \/ \E C \in SUBSET Client : Vanish(C)

ASpec == AInit /\ [][ANext]_avars
=============================================================================
