---------------------------- MODULE MCPriorityGate ----------------------------
(* Four tasks at two priorities on two slots: two can wait at once, at one     *)
(* level or at both, with up to two dead entries ahead of a live one.          *)
EXTENDS PriorityGate, TLC

CONSTANTS u1, u2, c1, c2

MCTasks == {u1, u2, c1, c2}
MCPrio == [t \in MCTasks |-> IF t \in {u1, u2} THEN 0 ELSE 1]
===============================================================================
