----------------------------- MODULE MCRouting -----------------------------
(* The tables the program is built with, and tasks around the thresholds.   *)
EXTENDS Routing, TLC

CONSTANTS d1, d2

Symmetry == Permutations(Dispatcher)

MCAgent == {"agy", "claude", "codex"}
MCSignal == {"security", "constraints", "scope", "ambiguity"}
MCNameRank == [a \in MCAgent |-> CASE a = "agy" -> 1 [] a = "claude" -> 2 [] OTHER -> 3]
Slots(trivial, standard, hard) ==
  [t \in {"trivial", "standard", "hard"} |->
     CASE t = "trivial" -> trivial [] t = "standard" -> standard [] OTHER -> hard]
MCAgents ==
  [a \in MCAgent |->
     CASE a = "claude" -> Slots("haiku", "sonnet", "opus")
       [] a = "codex" -> Slots("mini", "spark", "gpt-5.5")
       [] OTHER -> Slots("flash low", "pro low", "pro high")]
MCCostRank == [a \in MCAgent |-> CASE a = "agy" -> 1 [] a = "claude" -> 2 [] OTHER -> 3]

Rates(security, constraints, scope, ambiguity) ==
  [s \in MCSignal |-> CASE s = "security" -> security [] s = "constraints" -> constraints
                        [] s = "scope" -> scope [] OTHER -> ambiguity]
MCStrength ==
  [a \in MCAgent |-> CASE a = "claude" -> Rates(5, 8, 9, 6)
                       [] a = "codex" -> Rates(10, 9, 6, 4)
                       [] OTHER -> Rates(5, 5, 5, 7)]
MCWeight == Rates(30, 15, 12, 8)
MCThresholds == [t \in {"standard", "hard"} |-> IF t = "hard" THEN 60 ELSE 10]
MCBands == {<<7, 13>>, <<50, 70>>}
MCDefaultAgent == Slots("agy", "claude", "codex")

\* Nothing matched; just above "standard"; far above it; just above "hard".
MCTask == {Rates(0, 0, 0, 0), Rates(0, 0, 1, 0), Rates(0, 1, 1, 1), Rates(3, 0, 0, 0)}
MCRequest ==
  [agent : {None}, model : {None}, priority : {None, "cost"}] \cup
  [agent : {"claude"}, model : {"unlisted"}, priority : {None}] \cup
  [agent : {None}, model : {"gpt-5.5"}, priority : {None}]
MCInstalled == {MCAgent, {"agy", "claude"}, {"codex"}}
=============================================================================
