------------------------------ MODULE MCConsult ------------------------------
EXTENDS Consult, TLC
CONSTANTS m1, m2, m3, claude, codex, MaxText
MCModels == <<m1, m3, m2, m1>>
MCAgentOf == (m1 :> claude) @@ (m2 :> codex)
MCCmdLists == {<<>>, <<"go test">>, <<"go test", "go vet">>, <<"go test", "rm">>}
MCAllowed == {"go test", "go vet"}
MCRun == 0..4
Obj(c) == <<"{", c, "}">>
MCJson == (Obj("x") :> "steps") @@ [s \in {Obj(c) : c \in Content} |-> s[2]]
\* An answer, one after an example of another, one with words after it, none.
MCStdout == {Obj("ok"), Obj("unmet") \o Obj("met"), Obj("steps") \o <<"x">>,
             Obj("error"), <<"x">>}
\* Every text of at most MaxText bytes.
MCPlannerStdout ==
  UNION {[1..n -> {"{", "}", Quote, Backslash, "x"}] : n \in 0..MaxText}
==============================================================================
