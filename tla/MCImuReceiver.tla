---------------------------- MODULE MCImuReceiver ----------------------------
(* The three kinds of packet the decoder knows: frames of 12, 23 and 7     *)
(* characters.  Their losses are not bounded.                              *)
EXTENDS ImuReceiver

MCKinds == {"quaternion", "inertial", "battery"}
=============================================================================
