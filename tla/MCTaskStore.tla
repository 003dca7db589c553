---------------------------- MODULE MCTaskStore ----------------------------
(* Two dispatch pipelines over one store, routed to agy or claude.          *)
EXTENDS TaskStore, TLC

MCSlot == {1, 2}
MCAgent == {"agy", "claude"}
MCNameRank == [a \in MCAgent |-> IF a = "agy" THEN 1 ELSE 2]
MCOneAgent == {"claude"}
MCOneRank == [a \in MCOneAgent |-> 1]

MCOneUpdate == [s \in MCSlot |-> 1]
MCUpdateOfTwo == [s \in MCSlot |-> IF s = 2 THEN 1 ELSE 0]
=============================================================================
