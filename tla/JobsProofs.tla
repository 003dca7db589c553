----------------------------- MODULE JobsProofs -----------------------------
(***************************************************************************)
(* Proofs about Jobs, for any number of jobs, callers and restarts.        *)
(***************************************************************************)
EXTENDS Jobs, TLAPS

(***************************************************************************)
(* The inductive invariant: what each place of the worker says of the      *)
(* mutex, the fields, the channel and the file of its job, and what each   *)
(* place of a caller says of the job it asks about.                        *)
(***************************************************************************)
MutexInv ==
  \A j \in Job : worker[j] \in {"persist", "close"} <=> mu = j

WorkerInv ==
  \A j \in Job :
    /\ worker[j] = "working" => outcome[j] = "running"
    /\ worker[j] \in {"returned", "persist", "close"} => outcome[j] \in Terminal
    /\ worker[j] \in {"working", "returned"} <=> status[j] = "running"
    /\ worker[j] \in {"persist", "close"} => status[j] \in Terminal
    /\ worker[j] \in {"working", "returned", "persist"} => disk[j] = "absent"

JobInv ==
  \A j \in Job :
    /\ status[j] \in Terminal => outcome[j] = status[j]
    /\ disk[j] \in Terminal => outcome[j] = disk[j]
    /\ disk[j] # "absent" => outcome[j] \in Terminal
    /\ closed[j] => status[j] \in Terminal /\ worker[j] = "none"

CallerInv ==
  \A r \in Reader :
    /\ at[r] # "idle" => asked[r] \in Job /\ Issued(asked[r])
    /\ at[r] = "load" => call[r] = "get" /\ status[asked[r]] = "absent"
    /\ at[r] \in {"blocked", "woken", "timedout"} => call[r] = "wait"

IInv ==
  /\ TypeOK /\ MutexInv /\ WorkerInv /\ JobInv /\ CallerInv
  /\ ToldTheTruth /\ WokenMeansTerminal

\* The proof's starting point: no job, no caller.
LEMMA InitIInv == Init => IInv
  BY JobsAssumption
  DEF Init, IInv, TypeOK, MutexInv, WorkerInv, JobInv, CallerInv, ToldTheTruth,
      WokenMeansTerminal, Outcomes, Statuses

\* What the worker publishes and persists is a terminal status only because
\* its work has returned, and every call that looks a job up names one.
LEMMA TypePreserved ==
  TypeOK /\ WorkerInv /\ CallerInv /\ [Next]_vars => TypeOK'
<1> SUFFICES ASSUME TypeOK, WorkerInv, CallerInv, [Next]_vars PROVE TypeOK'
  OBVIOUS
<1> USE JobsAssumption
    DEF TypeOK, CallerInv, Outcomes, Statuses, Goto, Tell, jobVars, readerVars
<1>1. ASSUME NEW j \in Job, Submit(j) PROVE TypeOK'
  BY <1>1 DEF Submit
<1>2. ASSUME NEW j \in Job, WorkerStep(j) PROVE TypeOK'
  <2>1. CASE SetFields(j)  BY <2>1 DEF SetFields, WorkerInv
  <2>2. CASE Persist(j)    BY <2>2 DEF Persist, WorkerInv
  <2>3. CASE Close(j)      BY <2>3 DEF Close
  <2> QED BY <1>2, <2>1, <2>2, <2>3 DEF WorkerStep
<1>3. ASSUME NEW j \in Job, NEW o \in Terminal, WorkReturns(j, o) PROVE TypeOK'
  BY <1>3 DEF WorkReturns
<1>4. ASSUME NEW r \in Reader, ReaderStep(r) PROVE TypeOK'
  <2>1. CASE WaitLook(r)     BY <2>1 DEF WaitLook
  <2>2. CASE WakeDone(r)     BY <2>2 DEF WakeDone
  <2>3. CASE WakeTimeout(r)  BY <2>3 DEF WakeTimeout
  <2>4. CASE WaitCopy(r)     BY <2>4 DEF WaitCopy
  <2>5. CASE GetLook(r)      BY <2>5 DEF GetLook
  <2>6. CASE GetLoad(r)      BY <2>6 DEF GetLoad, onDisk
  <2> QED BY <1>4, <2>1, <2>2, <2>3, <2>4, <2>5, <2>6 DEF ReaderStep
<1>5. ASSUME NEW r \in Reader, NEW c \in {"wait", "get"}, NEW j \in Job, Ask(r, c, j)
      PROVE  TypeOK'
  BY <1>5 DEF Ask
<1>6. CASE Restart
  BY <1>6 DEF Restart
<1>7. CASE UNCHANGED vars
  BY <1>7 DEF vars
<1> QED BY <1>1, <1>2, <1>3, <1>4, <1>5, <1>6, <1>7 DEF Next

\* The other parts, each preserved given the whole.
LEMMA IInvPreserved == IInv /\ [Next]_vars => IInv'
<1> SUFFICES ASSUME IInv, [Next]_vars PROVE IInv'
  OBVIOUS
<1>0. TypeOK /\ TypeOK'
  BY TypePreserved DEF IInv
<1> DEFINE Rest == /\ MutexInv /\ WorkerInv /\ JobInv /\ CallerInv
                   /\ ToldTheTruth /\ WokenMeansTerminal
<1> SUFFICES Rest'
  BY <1>0 DEF IInv
<1> USE <1>0, JobsAssumption
    DEF IInv, TypeOK, Outcomes, Statuses, Goto, Tell, jobVars, readerVars,
        MutexInv, WorkerInv, JobInv, CallerInv, Issued, ToldTheTruth,
        WokenMeansTerminal
<1>1. ASSUME NEW j \in Job, Submit(j) PROVE Rest'
  BY <1>1 DEF Submit
<1>2. ASSUME NEW j \in Job, WorkerStep(j) PROVE Rest'
  <2>1. CASE SetFields(j)  BY <2>1 DEF SetFields
  <2>2. CASE Persist(j)    BY <2>2 DEF Persist
  <2>3. CASE Close(j)      BY <2>3 DEF Close
  <2> QED BY <1>2, <2>1, <2>2, <2>3 DEF WorkerStep
<1>3. ASSUME NEW j \in Job, NEW o \in Terminal, WorkReturns(j, o) PROVE Rest'
  BY <1>3 DEF WorkReturns
<1>4. ASSUME NEW r \in Reader, ReaderStep(r) PROVE Rest'
  <2>1. CASE WaitLook(r)     BY <2>1 DEF WaitLook
  <2>2. CASE WakeDone(r)     BY <2>2 DEF WakeDone
  <2>3. CASE WakeTimeout(r)  BY <2>3 DEF WakeTimeout
  <2>4. CASE WaitCopy(r)     BY <2>4 DEF WaitCopy
  <2>5. CASE GetLook(r)      BY <2>5 DEF GetLook
  <2>6. CASE GetLoad(r)      BY <2>6 DEF GetLoad, onDisk
  <2> QED BY <1>4, <2>1, <2>2, <2>3, <2>4, <2>5, <2>6 DEF ReaderStep
<1>5. ASSUME NEW r \in Reader, NEW c \in {"wait", "get"}, NEW j \in Job, Ask(r, c, j)
      PROVE  Rest'
  BY <1>5 DEF Ask
<1>6. CASE Restart
  BY <1>6 DEF Restart
<1>7. CASE UNCHANGED vars
  BY <1>7 DEF vars
<1> QED BY <1>1, <1>2, <1>3, <1>4, <1>5, <1>6, <1>7 DEF Next

\* The invariant holds throughout.
LEMMA Inductive == Spec => []IInv
  BY InitIInv, IInvPreserved, PTL DEF Spec

-----------------------------------------------------------------------------

\* The variables keep their types, whatever the interleaving and the restarts.
THEOREM TypeCorrect == Spec => []TypeOK
  BY Inductive, PTL DEF IInv

\* jobs.go:5-10: no caller is told a job ended in a way its work did not.
THEOREM AnswersTrue == Spec => []ToldTheTruth
  BY Inductive, PTL DEF IInv

\* jobs.go:110-112: a waiter woken by the channel reads a terminal job.
THEOREM WokenTerminal == Spec => []WokenMeansTerminal
  BY Inductive, PTL DEF IInv

\* jobs.go:28-29: a terminal status and a complete record never change again.
THEOREM TerminalForGood == Spec => EndsOnce
<1> DEFINE A == \A j \in Job :
                  /\ status[j] \in Terminal => status'[j] \in {status[j], "absent"}
                  /\ disk[j] \in Terminal => disk'[j] = disk[j]
<1>1. IInv /\ [Next]_vars => [A]_vars
  <2> SUFFICES ASSUME IInv, Next PROVE A
    OBVIOUS
  <2> USE JobsAssumption
      DEF IInv, TypeOK, Outcomes, Statuses, WorkerInv, JobInv, jobVars, Goto, Tell
  <2>1. ASSUME NEW j \in Job, Submit(j) PROVE A
    BY <2>1 DEF Submit
  <2>2. ASSUME NEW j \in Job, WorkerStep(j) PROVE A
    BY <2>2 DEF WorkerStep, SetFields, Persist, Close
  <2>3. ASSUME NEW j \in Job, NEW o \in Terminal, WorkReturns(j, o) PROVE A
    BY <2>3 DEF WorkReturns
  <2>4. ASSUME NEW r \in Reader, ReaderStep(r) PROVE A
    BY <2>4
    DEF ReaderStep, WaitLook, WakeDone, WakeTimeout, WaitCopy, GetLook, GetLoad
  <2>5. ASSUME NEW r \in Reader, NEW c \in {"wait", "get"}, NEW j \in Job,
               Ask(r, c, j)
        PROVE  A
    BY <2>5 DEF Ask
  <2>6. CASE Restart
    BY <2>6 DEF Restart
  <2> QED BY <2>1, <2>2, <2>3, <2>4, <2>5, <2>6 DEF Next
<1> QED BY <1>1, Inductive, PTL DEF Spec, EndsOnce

-----------------------------------------------------------------------------
(***************************************************************************)
(* The refinement.  A job completes on the board when persist is done with *)
(* its file, under the mutex, so no caller sees the fields before that.    *)
(***************************************************************************)

\* An empty Manager over an empty root is an empty board.
LEMMA InitRefines == Init => Board!BInit
  BY JobsAssumption DEF Init, Board!BInit, shown, onDisk, askOf

\* Every step of Jobs is a step of the board or leaves it as it is.
LEMMA StepRefines ==
  IInv /\ IInv' /\ [Next]_vars => [Board!BNext]_(Board!bvars)
<1> DEFINE bstatus == [j \in Job |-> shown(j)]
           brecord == [j \in Job |-> onDisk(j)]
           bask == [r \in Reader |-> askOf(r)]
<1> SUFFICES ASSUME IInv, IInv', [Next]_vars
             PROVE  \/ Board!BNext
                    \/ bstatus' = bstatus /\ brecord' = brecord /\ bask' = bask
  BY DEF Board!bvars
<1> USE JobsAssumption
    DEF IInv, TypeOK, Outcomes, Statuses, jobVars, readerVars, Goto, Tell
<1>1. ASSUME NEW j \in Job, Submit(j) PROVE Board!Submit(j)
  <2>1. bask' = bask
    BY <1>1 DEF Submit, askOf
  <2>2. brecord' = brecord /\ brecord[j] = "absent" /\ bstatus[j] = "absent"
    BY <1>1 DEF Submit, onDisk, JobInv, shown
  <2>3. bstatus' = [bstatus EXCEPT ![j] = "running"]
    BY <1>1 DEF Submit, shown
  <2> QED BY <2>1, <2>2, <2>3 DEF Board!Submit
<1>2. ASSUME NEW j \in Job, Persist(j) PROVE Board!Complete(j, status[j])
  <2>1. bask' = bask
    BY <1>2 DEF Persist, askOf
  <2>2. bstatus[j] = "running"
    BY <1>2 DEF Persist, shown
  <2>3. bstatus' = [bstatus EXCEPT ![j] = status[j]]
    BY <1>2 DEF Persist, shown
  <2>4. brecord' \in {brecord, [brecord EXCEPT ![j] = status[j]]}
    <3>1. PICK f \in {status[j], "torn", disk[j]} : disk' = [disk EXCEPT ![j] = f]
      BY <1>2 DEF Persist
    <3>2. CASE f = status[j]
      <4>1. status[j] # "torn"
        BY <1>2 DEF Persist, WorkerInv
      <4>2. \A k \in Job : onDisk(k)' = IF k = j THEN status[j] ELSE onDisk(k)
        BY <3>1, <3>2, <4>1 DEF onDisk
      <4>3. brecord' = [brecord EXCEPT ![j] = status[j]]
        BY <4>2
      <4> QED BY <4>3
    <3>3. CASE f # status[j]
      BY <1>2, <3>1, <3>3 DEF Persist, onDisk, WorkerInv
    <3> QED BY <3>2, <3>3
  <2> QED BY <2>1, <2>2, <2>3, <2>4 DEF Board!Complete
<1>3. ASSUME NEW j \in Job,
             SetFields(j) \/ Close(j) \/ \E o \in Terminal : WorkReturns(j, o)
      PROVE  bstatus' = bstatus /\ brecord' = brecord /\ bask' = bask
  <2>1. bask' = bask /\ brecord' = brecord
    BY <1>3 DEF SetFields, Close, WorkReturns, askOf, onDisk
  <2>2. bstatus' = bstatus
    BY <1>3 DEF SetFields, Close, WorkReturns, shown, WorkerInv
  <2> QED BY <2>1, <2>2
<1>4. ASSUME NEW r \in Reader, ReaderStep(r)
      PROVE  Board!Answer(r) \/ UNCHANGED <<bstatus, brecord, bask>>
  <2>0. bstatus' = bstatus /\ brecord' = brecord
    BY <1>4
    DEF ReaderStep, WaitLook, WakeDone, WakeTimeout, WaitCopy, GetLook, GetLoad,
        shown, onDisk
  <2>1. CASE at'[r] # "answered"
    <3>1. \A q \in Reader : askOf(q)' = askOf(q)
      BY <1>4, <2>1
      DEF ReaderStep, WaitLook, WakeDone, WakeTimeout, WaitCopy, GetLook, GetLoad,
          askOf
    <3> QED BY <2>0, <3>1
  <2>2. CASE at'[r] = "answered"
    <3> DEFINE seen == IF call[r] = "get" /\ shown(asked[r]) = "absent"
                         THEN onDisk(asked[r]) ELSE shown(asked[r])
    <3>1. at[r] \notin {"idle", "answered"} /\ asked[r] \in Job
      BY <1>4, <2>2
      DEF ReaderStep, WaitLook, WakeDone, WakeTimeout, WaitCopy, GetLook, GetLoad,
          CallerInv
    <3>2. askOf(r) = [phase |-> "asking", call |-> call[r], job |-> asked[r]]
      BY <3>1 DEF askOf
    <3>3. asked' = asked /\ told'[r] = seen
      <4>1. CASE WaitLook(r)
        BY <4>1, <2>2, <3>1 DEF WaitLook, shown, MutexInv
      <4>2. CASE WaitCopy(r)
        BY <4>2, <2>2, <3>1 DEF WaitCopy, shown, MutexInv, CallerInv
      <4>3. CASE GetLook(r)
        BY <4>3, <2>2, <3>1 DEF GetLook, shown, MutexInv
      <4>4. CASE GetLoad(r)
        BY <4>4, <2>2, <3>1 DEF GetLoad, shown, CallerInv, WorkerInv
      <4> QED BY <1>4, <2>2, <4>1, <4>2, <4>3, <4>4
              DEF ReaderStep, WakeDone, WakeTimeout
    <3>4. \A q \in Reader \ {r} : askOf(q)' = askOf(q)
      BY <1>4
      DEF ReaderStep, WaitLook, WakeDone, WakeTimeout, WaitCopy, GetLook, GetLoad,
          askOf
    <3>5. askOf(r)' = [phase |-> "answered", job |-> asked[r], is |-> seen]
      BY <2>2, <3>3 DEF askOf
    <3>6. bask' = [bask EXCEPT ![r] =
                     [phase |-> "answered", job |-> asked[r], is |-> seen]]
      BY <3>4, <3>5
    <3>7. /\ bask[r].phase = "asking" /\ bask[r].call = call[r]
          /\ bask[r].job = asked[r]
      BY <3>2
    <3>8. bstatus[asked[r]] = shown(asked[r]) /\ brecord[asked[r]] = onDisk(asked[r])
      BY <3>1
    <3>9. seen = IF bask[r].call = "get" /\ bstatus[bask[r].job] = "absent"
                   THEN brecord[bask[r].job] ELSE bstatus[bask[r].job]
      BY <3>7, <3>8
    <3> HIDE DEF bask, bstatus, brecord, seen
    <3> QED BY <2>0, <3>6, <3>7, <3>9 DEF Board!Answer, bask, bstatus, brecord
  <2> QED BY <2>1, <2>2
<1>5. ASSUME NEW r \in Reader, NEW c \in {"wait", "get"}, NEW j \in Job, Ask(r, c, j)
      PROVE  Board!Ask(r, c, j)
  <2>1. bstatus' = bstatus /\ brecord' = brecord
    BY <1>5 DEF Ask, shown, onDisk
  <2>2. \A q \in Reader \ {r} : askOf(q)' = askOf(q)
    BY <1>5 DEF Ask, askOf
  <2>3. askOf(r)' = [phase |-> "asking", call |-> c, job |-> j]
    BY <1>5 DEF Ask, askOf
  <2>4. bask[r].phase \in {"idle", "answered"}
    BY <1>5 DEF Ask, askOf
  <2>5. bask' = [bask EXCEPT ![r] = [phase |-> "asking", call |-> c, job |-> j]]
    BY <2>2, <2>3
  <2> HIDE DEF bask
  <2> QED BY <2>1, <2>4, <2>5 DEF Board!Ask, bask
<1>6. CASE Restart
  <2>1. \A j \in Job : shown(j)' = "absent"
    BY <1>6 DEF Restart, shown
  <2>2. \A j \in Job : onDisk(j)' = onDisk(j)
    BY <1>6 DEF Restart, onDisk, WorkerInv
  <2>3. \A r \in Reader : askOf(r)' = [phase |-> "idle"]
    BY <1>6 DEF Restart, askOf
  <2> QED BY <2>1, <2>2, <2>3 DEF Board!Restart, Board!BNext
<1>7. CASE UNCHANGED vars
  BY <1>7 DEF vars, shown, onDisk, askOf
<1>8. \A j \in Job : Persist(j) => status[j] \in Terminal
  BY DEF Persist, WorkerInv
<1> HIDE DEF bstatus, brecord, bask
<1> QED
  BY <1>1, <1>2, <1>3, <1>4, <1>5, <1>6, <1>7, <1>8
  DEF Next, WorkerStep, Board!BNext

\* jobs.go:1-13: every call of Wait and Get reads one instant of a board on
\* which jobs complete atomically and leave at most their own record behind.
THEOREM Refinement == Spec => JobsImplementBoard
  BY InitRefines, StepRefines, Inductive, PTL
  DEF Spec, JobsImplementBoard, Board!BSpec
=============================================================================
