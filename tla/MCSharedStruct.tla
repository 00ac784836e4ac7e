--------------------------- MODULE MCSharedStruct ---------------------------
(* vehicle_thrust with three of its users: an operator's set_thrust (all   *)
(* four fields), the yaw controller (the two surge fields) and the         *)
(* diagnostics read of all four.                                           *)
EXTENDS SharedStruct

CONSTANTS operator, yaw, diagnostics

MCFields == {"surge_port", "surge_starboard", "heave_a", "heave_b"}
MCAccess == [t \in Threads |->
               IF t = yaw THEN {"surge_port", "surge_starboard"} ELSE MCFields]
=============================================================================
