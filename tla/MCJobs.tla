------------------------------- MODULE MCJobs -------------------------------
(* Two jobs, two concurrent callers, and any number of restarts.            *)
EXTENDS Jobs

CONSTANTS j1, j2, r1, r2

MCTerminal == {"done", "error"}
=============================================================================
