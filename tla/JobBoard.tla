------------------------------ MODULE JobBoard ------------------------------
(***************************************************************************)
(* What package jobs promises: a job is submitted, runs, and completes     *)
(* exactly once; every reader is told the status the job has at one        *)
(* instant of its call; a completed job may leave a record that outlives   *)
(* the server, and nothing else does.  Jobs implements this.               *)
(***************************************************************************)
CONSTANTS
  Job,             \* job ids
  Reader,          \* concurrent calls of Wait and Get
  Terminal         \* the ways a job ends

VARIABLES
  status,          \* job -> "absent", "running" or how it ended
  record,          \* job -> "absent" or how it ended, on disk
  ask              \* reader -> the call in progress, or the last answer

bvars == <<status, record, ask>>

BInit ==
  /\ status = [j \in Job |-> "absent"]
  /\ record = [j \in Job |-> "absent"]
  /\ ask = [r \in Reader |-> [phase |-> "idle"]]

Submit(j) ==
  /\ status[j] = "absent" /\ record[j] = "absent"
  /\ status' = [status EXCEPT ![j] = "running"]
  /\ UNCHANGED <<record, ask>>

\* The job ends; whether its record reaches the disk is up to the disk.
Complete(j, o) ==
  /\ status[j] = "running"
  /\ status' = [status EXCEPT ![j] = o]
  /\ record' \in {record, [record EXCEPT ![j] = o]}
  /\ UNCHANGED ask

Ask(r, call, j) ==
  /\ ask[r].phase \in {"idle", "answered"}
  /\ ask' = [ask EXCEPT ![r] = [phase |-> "asking", call |-> call, job |-> j]]
  /\ UNCHANGED <<status, record>>

\* Wait looks only at the jobs of this server; Get falls back to the record.
Answer(r) ==
  LET j == ask[r].job
      seen == IF ask[r].call = "get" /\ status[j] = "absent"
                THEN record[j] ELSE status[j] IN
  /\ ask[r].phase = "asking"
  /\ ask' = [ask EXCEPT ![r] = [phase |-> "answered", job |-> j, is |-> seen]]
  /\ UNCHANGED <<status, record>>

\* The server dies: what runs is gone, what waits is gone, records stay.
Restart ==
  /\ status' = [j \in Job |-> "absent"]
  /\ ask' = [r \in Reader |-> [phase |-> "idle"]]
  /\ UNCHANGED record

BNext ==
  \/ \E j \in Job : Submit(j) \/ \E o \in Terminal : Complete(j, o)
  \/ \E r \in Reader : \/ \E call \in {"wait", "get"}, j \in Job : Ask(r, call, j)
                       \/ Answer(r)
  \/ Restart

BSpec == BInit /\ [][BNext]_bvars
=============================================================================
