--------------------------- MODULE MCThrustControl ---------------------------
(* Two thrusts an operator asks for, one output of each controller: enough *)
(* to tell the writers apart, with halves so that int() drops something on *)
(* both sides of zero.                                                     *)
EXTENDS ThrustControl, TLC

Ahead == [surge_port |-> 3, surge_starboard |-> 3, heave_a |-> 0, heave_b |-> 2]
MCOperatorThrust == {Zero, Ahead}
MCGarbage == {Zero, [surge_port |-> 9, surge_starboard |-> -9, heave_a |-> 9, heave_b |-> 9]}
MCYawOutput == {[surge_port |-> 60, surge_starboard |-> 47]}
MCDepthOutput == {-61}

WorkerSymmetry == Permutations(Workers)
=============================================================================
