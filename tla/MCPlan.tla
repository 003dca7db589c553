------------------------------- MODULE MCPlan -------------------------------
(* Two hosts and an editor on a plan of two steps, b depending on a: all    *)
(* connected to one server, one host to another, the editor to another.     *)
EXTENDS Plan

CONSTANTS h1, h2, s1, s2

At2(A) == [a \in Actor |-> IF a \in A THEN s2 ELSE s1]
MCVias == {At2({}), At2({h2}), At2({Editor})}

S(id, deps) == [id |-> id, deps |-> deps, status |-> None, attempts |-> 0]
U(id, status, deps) == [id |-> id, status |-> status, deps |-> deps]
R(add, update, remove) == [add |-> add, update |-> update, remove |-> remove]

MCId == {"a", "b", "c"}
MCPlans == {<<S("a", {}), S("b", {"a"})>>}

\* Insert a step and drop another; reset a step and free the other from it;
\* retract a result.
MCRevisions ==
  { R(<<S("c", {"a"})>>, <<>>, {"b"}),
    R(<<>>, <<U("a", "pending", None), U("b", None, {})>>, {}),
    R(<<>>, <<U("b", "done", None)>>, {"a"}) }
=============================================================================
