-------------------------------- MODULE Jobs --------------------------------
(***************************************************************************)
(* Async dispatch (internal/jobs/jobs.go) as the tools dispatch_async and  *)
(* job_status use it: Submit registers a job and starts a worker, the      *)
(* worker publishes and persists its outcome under the Manager's mutex,    *)
(* and any number of callers long-poll with Wait or read with Get.  The    *)
(* server may die at any point, and comes up again over the same root with *)
(* an empty Manager.  A section that takes the mutex, touches memory only  *)
(* and releases it is one step; the worker's section writes a file while   *)
(* it holds the mutex, so its parts are steps of their own.                *)
(***************************************************************************)
CONSTANTS
  Job,             \* job ids Submit may draw
  Reader,          \* concurrent calls of Wait and Get
  Terminal,        \* {"done", "error"}
  None             \* no job

ASSUME JobsAssumption ==
  /\ None \notin Job
  /\ Terminal \cap {"absent", "running", "torn"} = {}

VARIABLES
  mu,              \* Manager.mu: the job whose worker holds it, or None
  status,          \* job -> jobs[id].job.Status, "absent" if not in the map
  closed,          \* job -> its done channel is closed
  worker,          \* job -> where its goroutine stands
  outcome,         \* job -> what work() returned, "running" before it does
  disk,            \* job -> <root>/jobs/<id>.json
  at,              \* reader -> where its call stands
  call,            \* reader -> "wait" or "get"
  asked,           \* reader -> the job it asks about, None before it does
  told             \* reader -> the status its last call was told

jobVars == <<mu, status, closed, worker, outcome, disk>>
readerVars == <<at, call, asked, told>>
vars == <<jobVars, readerVars>>

Init ==
  /\ mu = None
  /\ status = [j \in Job |-> "absent"]
  /\ closed = [j \in Job |-> FALSE]
  /\ worker = [j \in Job |-> "none"]
  /\ outcome = [j \in Job |-> "running"]
  /\ disk = [j \in Job |-> "absent"]
  /\ at = [r \in Reader |-> "idle"]
  /\ call = [r \in Reader |-> "wait"]
  /\ asked = [r \in Reader |-> None]
  /\ told = [r \in Reader |-> "absent"]

-----------------------------------------------------------------------------
(* The submitter and the worker.                                           *)

\* Submit draws an id that is in use nowhere and starts its goroutine.
Submit(j) ==
  /\ mu = None
  /\ status[j] = "absent" /\ worker[j] = "none" /\ outcome[j] = "running"
  /\ status' = [status EXCEPT ![j] = "running"]
  /\ worker' = [worker EXCEPT ![j] = "working"]
  /\ UNCHANGED <<mu, closed, outcome, disk, readerVars>>

\* work() returns a result or an error; no lock is held.
WorkReturns(j, o) ==
  /\ worker[j] = "working"
  /\ worker' = [worker EXCEPT ![j] = "returned"]
  /\ outcome' = [outcome EXCEPT ![j] = o]
  /\ UNCHANGED <<mu, status, closed, disk, readerVars>>

\* Mutant of SetFields: the error work() returned is not looked at.
SetFieldsBlind(j) ==
  /\ worker[j] = "returned" /\ mu = None
  /\ mu' = j
  /\ status' = [status EXCEPT ![j] = CHOOSE t \in Terminal : TRUE]
  /\ worker' = [worker EXCEPT ![j] = "persist"]
  /\ UNCHANGED <<closed, outcome, disk, readerVars>>

\* The worker takes the mutex and sets the terminal fields.
SetFields(j) ==
  /\ worker[j] = "returned" /\ mu = None
  /\ mu' = j
  /\ status' = [status EXCEPT ![j] = outcome[j]]
  /\ worker' = [worker EXCEPT ![j] = "persist"]
  /\ UNCHANGED <<closed, outcome, disk, readerVars>>

\* Mutant of Persist: the path does not carry the job's id.
PersistAnywhere(j) ==
  /\ worker[j] = "persist"
  /\ \E i \in Job : disk' = [disk EXCEPT ![i] = status[j]]
  /\ worker' = [worker EXCEPT ![j] = "close"]
  /\ UNCHANGED <<mu, status, closed, outcome, readerVars>>

\* persist writes the file; any failure is swallowed, and os.WriteFile may
\* fail with part of the file written.
Persist(j) ==
  /\ worker[j] = "persist"
  /\ \E f \in {status[j], "torn", disk[j]} : disk' = [disk EXCEPT ![j] = f]
  /\ worker' = [worker EXCEPT ![j] = "close"]
  /\ UNCHANGED <<mu, status, closed, outcome, readerVars>>

\* Mutant of Close: the mutex is not released.
CloseLocked(j) ==
  /\ worker[j] = "close"
  /\ closed' = [closed EXCEPT ![j] = TRUE]
  /\ worker' = [worker EXCEPT ![j] = "none"]
  /\ UNCHANGED <<mu, status, outcome, disk, readerVars>>

\* Completion is signalled, and the mutex released.
Close(j) ==
  /\ worker[j] = "close"
  /\ closed' = [closed EXCEPT ![j] = TRUE]
  /\ mu' = None
  /\ worker' = [worker EXCEPT ![j] = "none"]
  /\ UNCHANGED <<status, outcome, disk, readerVars>>

-----------------------------------------------------------------------------
(* The readers.                                                            *)

Goto(r, from, to) == at[r] = from /\ at' = [at EXCEPT ![r] = to]
Tell(r, s) ==
  /\ at' = [at EXCEPT ![r] = "answered"]
  /\ told' = [told EXCEPT ![r] = s]
  /\ call' = [call EXCEPT ![r] = "wait"]

\* A call starts, with a job id that was handed out some time.
Issued(j) == worker[j] # "none" \/ outcome[j] # "running"

Ask(r, c, j) ==
  /\ at[r] \in {"idle", "answered"}
  /\ Issued(j)
  /\ at' = [at EXCEPT ![r] = "look"]
  /\ call' = [call EXCEPT ![r] = c]
  /\ asked' = [asked EXCEPT ![r] = j]
  /\ told' = [told EXCEPT ![r] = "absent"]
  /\ UNCHANGED jobVars

\* Wait, first section: an unknown id and a terminal job are answered at
\* once; otherwise the caller blocks on the channel, the mutex released.
WaitLook(r) ==
  /\ at[r] = "look" /\ call[r] = "wait" /\ mu = None
  /\ IF status[asked[r]] = "running"
       THEN Goto(r, "look", "blocked") /\ UNCHANGED <<call, told>>
       ELSE Tell(r, status[asked[r]])
  /\ UNCHANGED <<jobVars, asked>>

\* The channel is closed.
WakeDone(r) ==
  /\ Goto(r, "blocked", "woken")
  /\ closed[asked[r]]
  /\ UNCHANGED <<jobVars, call, asked, told>>

\* The timeout elapses, even in the instant the channel is closed.
WakeTimeout(r) ==
  /\ Goto(r, "blocked", "timedout")
  /\ UNCHANGED <<jobVars, call, asked, told>>

\* Wait, second section: copy the job as it is by now.
WaitCopy(r) ==
  /\ at[r] \in {"woken", "timedout"} /\ mu = None
  /\ Tell(r, status[asked[r]])
  /\ UNCHANGED <<jobVars, asked>>

\* Get copies the job from memory, or goes on to the file without the mutex.
GetLook(r) ==
  /\ at[r] = "look" /\ call[r] = "get" /\ mu = None
  /\ IF status[asked[r]] = "absent"
       THEN Goto(r, "look", "load") /\ UNCHANGED <<call, told>>
       ELSE Tell(r, status[asked[r]])
  /\ UNCHANGED <<jobVars, asked>>

\* Mutant of onDisk: a corrupt file is taken at its word.
onDiskRaw(j) == disk[j]

\* A missing or corrupt file reads as an unknown job.
onDisk(j) == IF disk[j] = "torn" THEN "absent" ELSE disk[j]

GetLoad(r) ==
  /\ at[r] = "load"
  /\ Tell(r, onDisk(asked[r]))
  /\ UNCHANGED <<jobVars, asked>>

-----------------------------------------------------------------------------

\* The server dies or is stopped, workers and callers with it; a file being
\* written at that moment may be left torn.
Restart ==
  /\ mu' = None
  /\ status' = [j \in Job |-> "absent"]
  /\ closed' = [j \in Job |-> FALSE]
  /\ worker' = [j \in Job |-> "none"]
  /\ at' = [r \in Reader |-> "idle"]
  /\ \/ UNCHANGED disk
     \/ \E j \in Job : /\ worker[j] = "persist"
                       /\ disk' = [disk EXCEPT ![j] = "torn"]
  /\ outcome' = [j \in Job |->
                   IF outcome[j] = "running" /\ worker[j] # "none"
                     THEN "lost" ELSE outcome[j]]
  /\ call' = [r \in Reader |-> "wait"]
  /\ asked' = [r \in Reader |-> None]
  /\ told' = [r \in Reader |-> "absent"]

WorkerStep(j) == SetFields(j) \/ Persist(j) \/ Close(j)
ReaderStep(r) ==
  WaitLook(r) \/ WakeDone(r) \/ WakeTimeout(r) \/ WaitCopy(r)
    \/ GetLook(r) \/ GetLoad(r)

Next ==
  \/ \E j \in Job : \/ Submit(j) \/ WorkerStep(j)
                    \/ \E o \in Terminal : WorkReturns(j, o)
  \/ \E r \in Reader :
       \/ ReaderStep(r)
       \/ \E c \in {"wait", "get"}, j \in Job : Ask(r, c, j)
  \/ Restart

Spec == Init /\ [][Next]_vars

\* Goroutines inside the package keep running; how long work() takes, and
\* whether anybody calls, is not up to it.
FairSpec ==
  /\ Spec
  /\ \A j \in Job : WF_vars(WorkerStep(j))
  /\ \A r \in Reader : WF_vars(ReaderStep(r))

-----------------------------------------------------------------------------

Outcomes == Terminal \cup {"running", "lost"}
Statuses == Terminal \cup {"absent", "running"}

TypeOK ==
  /\ mu \in Job \cup {None}
  /\ status \in [Job -> Statuses]
  /\ closed \in [Job -> BOOLEAN]
  /\ worker \in [Job -> {"none", "working", "returned", "persist", "close"}]
  /\ outcome \in [Job -> Outcomes]
  /\ disk \in [Job -> Terminal \cup {"absent", "torn"}]
  /\ at \in [Reader -> {"idle", "look", "blocked", "woken", "timedout", "load",
                        "answered"}]
  /\ call \in [Reader -> {"wait", "get"}]
  /\ asked \in [Reader -> Job \cup {None}]
  /\ told \in [Reader -> Statuses]

\* A reader is never told that a job ended in a way its work did not: no
\* unlocked mutation, torn file or restart shows through (jobs.go:5-10).
ToldTheTruth ==
  \A r \in Reader : at[r] = "answered" /\ told[r] \in Terminal =>
    outcome[asked[r]] = told[r]

\* A waiter the worker woke is always told the terminal state: the fields are
\* set before the channel is closed (jobs.go:6-7, 110-112).
WokenMeansTerminal ==
  \A r \in Reader : at[r] = "woken" =>
    status[asked[r]] \in Terminal /\ closed[asked[r]]

\* A job that ended stays as it ended for as long as the server lives, and
\* its record never turns into another one (jobs.go:28-29).
EndsOnce ==
  [][\A j \in Job :
       /\ status[j] \in Terminal => status'[j] \in {status[j], "absent"}
       /\ disk[j] \in Terminal => disk'[j] = disk[j]]_vars

\* Every call of Wait or Get returns, however long the job runs, and a job
\* whose work has returned is published and its waiters released, or the
\* server went away: no worker keeps the mutex, and no wakeup is lost for good
\* (mcp.go:940-946, jobs.go:76-78).
CallsReturn ==
  /\ \A r \in Reader :
       at[r] \notin {"idle", "answered"} ~> at[r] \in {"idle", "answered"}
  /\ \A j \in Job :
       worker[j] = "returned" ~> (closed[j] \/ status[j] = "absent")

-----------------------------------------------------------------------------
(* The refinement: a job completes when persist is through with its file.  *)

shown(j) == IF worker[j] = "persist" THEN "running" ELSE status[j]
askOf(r) ==
  CASE at[r] = "idle" -> [phase |-> "idle"]
    [] at[r] = "answered" ->
         [phase |-> "answered", job |-> asked[r], is |-> told[r]]
    [] OTHER -> [phase |-> "asking", call |-> call[r], job |-> asked[r]]

Board == INSTANCE JobBoard
           WITH status <- [j \in Job |-> shown(j)],
                record <- [j \in Job |-> onDisk(j)],
                ask <- [r \in Reader |-> askOf(r)]

\* Every call reads one instant of a board on which jobs complete atomically,
\* record included (jobs.go:1-13).
JobsImplementBoard == Board!BSpec
=============================================================================
