---------------------------- MODULE MCYawControl ----------------------------
(* Headings 60 degrees apart and a ring of two; the gains main sets and    *)
(* the same without the integral part; memory so negative that the thrusts *)
(* reach their cap.                                                        *)
EXTENDS YawControl

MCGains == {[kp |-> 450, ki |-> ki, kd |-> 2] : ki \in {0, 25}}
MainGains == {[kp |-> 450, ki |-> 25, kd |-> 2]}
MCGarbage == {-10000}
=============================================================================
