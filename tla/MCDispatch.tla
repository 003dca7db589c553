----------------------------- MODULE MCDispatch -----------------------------
(* An author and two reviewers, agents as routing has them.                 *)
EXTENDS Dispatch, TLC

CONSTANTS r1, r2

Reviewers == {r1, r2}
Obj(c) == <<"{", c, "}">>
MCJson == [s \in {Obj(c) : c \in Content} |-> s[2]]
\* Responses, one with a status of the pipeline's; reviews, one after an
\* example.
MCStdout == {Obj("ok"), Obj("review_failed"), Obj("verify_failed"), Obj("approved"), Obj("approved") \o Obj("critical")}

Symmetry == Permutations(Reviewers)
=============================================================================
