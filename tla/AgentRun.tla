------------------------------ MODULE AgentRun ------------------------------
(***************************************************************************)
(* Runs of external programs, as internal/agent and runVerify start them:  *)
(* a subprocess with a deadline, its output collected from a pipe.  The    *)
(* program may start others, which inherit the pipe.  The deadline kills   *)
(* the program alone, and the output is complete only when every process   *)
(* that holds the pipe has let go of it.                                   *)
(***************************************************************************)
CONSTANT Run       \* runs that may be in progress

VARIABLE proc      \* run -> [state, held, out]: how far the program
                   \* is, whether others hold its pipe, what it printed

NotRun == [state |-> "none", held |-> FALSE, out |-> <<>>]
ProcInit == proc = [r \in Run |-> NotRun]

Start(r) == proc' = [proc EXCEPT ![r] = [NotRun EXCEPT !.state = "running"]]

Running(r) == proc[r].state = "running"

\* A process of the program's own now holds the pipe too.
Spawn(r) ==
  /\ Running(r) /\ ~proc[r].held
  /\ proc' = [proc EXCEPT ![r].held = TRUE]

\* It ends, or closes the pipe.
LetGo(r) ==
  /\ proc[r].held
  /\ proc' = [proc EXCEPT ![r].held = FALSE]

\* It has printed one of the texts in Out.
Exit(r, Out) ==
  /\ Running(r)
  /\ \E out \in Out :
       proc' = [proc EXCEPT ![r].state = "exited", ![r].out = out]

\* It cannot be started, or exits with an error.
Fail(r) ==
  /\ Running(r)
  /\ proc' = [proc EXCEPT ![r].state = "failed"]

\* The deadline: ten minutes by default.
Kill(r) ==
  /\ Running(r)
  /\ proc' = [proc EXCEPT ![r].state = "failed"]

\* The call that runs the program returns, with an error unless it exited.
Returned(r) == proc[r].state \in {"exited", "failed"} /\ ~proc[r].held
Succeeded(r) == proc[r].state = "exited"

\* The program and what it starts.
ProcStep(r, Out) == Spawn(r) \/ LetGo(r) \/ Exit(r, Out) \/ Fail(r) \/ Kill(r)
=============================================================================
