-------------------------- MODULE MCLinearActuator --------------------------
(* Two connections and three positions of la: a store can hide another one *)
(* (0, 1, 0) and can leave a third value in between.                       *)
EXTENDS LinearActuator

Positions == {0, 1, 2}
=============================================================================
