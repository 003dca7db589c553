----------------------------- MODULE MCInsights -----------------------------
(* Notes as agents leave them: two that differ in words which are not       *)
(* significant, and one that says less; left under two tasks.               *)
EXTENDS Insights

MCSignificant == {"run", "make", "lint", "docs"}

RunLint == <<"run", "make", "lint">>
NeverRunLint == <<"do", "not", "run", "make", "lint">>
RunMake == <<"run", "make">>

MCNote == {RunLint, NeverRunLint, RunMake}
MCTask == {<<"run", "make", "lint">>, <<"docs">>}
MCCaps == {1}
=============================================================================
