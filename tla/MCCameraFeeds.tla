---------------------------- MODULE MCCameraFeeds ---------------------------
(* The vehicle's three cameras, and enough interrupts to end everything. *)
EXTENDS CameraFeeds
=============================================================================
