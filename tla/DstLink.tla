------------------------------ MODULE DstLink -------------------------------
(***************************************************************************)
(* The link to the depth and temperature sensor (init_dst).  The device is *)
(* opened, again and again until that succeeds; a descriptor is then kept, *)
(* whatever reading from it returns.                                       *)
(***************************************************************************)
EXTENDS Process

VARIABLES dst_fd,   \* its descriptor
          sensor,   \* the device is plugged in
          depth     \* what vehicle_dst shows: "current", "behind" the water, or
                    \* "stuck", with a descriptor of a device that was pulled

dstvars == <<dst_fd, sensor, depth>>

DstTypeOK == /\ dst_fd \in Numbers \cup {NoFd}
             /\ sensor \in BOOLEAN
             /\ depth \in {"current", "behind", "stuck"}

DstInit == dst_fd = NoFd /\ sensor \in BOOLEAN /\ depth = "behind"

(* connect_to_dst, when it succeeds; else, -1 is read from, and it is      *)
(* called again.                                                           *)
connect_to_dst ==
  /\ dst_fd = NoFd /\ sensor
  /\ \E n \in Numbers : Open(n, "dst") /\ dst_fd' = n
  /\ UNCHANGED <<alive, sensor, depth>>

(* A slip: no line is taken for one with a depth. *)
DstLineUnknown ==
  /\ dst_fd # NoFd /\ depth = "behind"
  /\ UNCHANGED <<fds, alive, dstvars>>

(* A line is read, and its depth (or temperature) stored; or, when fields  *)
(* are missing (atof of no token) or it is longer than the buffer, it ends *)
(* the program.                                                            *)
DstLine ==
  /\ dst_fd # NoFd /\ depth = "behind"
  /\ alive' \in BOOLEAN
  /\ depth' = IF alive' THEN "current" ELSE depth
  /\ UNCHANGED <<fds, dst_fd, sensor>>

WaterChanges ==
  /\ depth = "current"
  /\ depth' = "behind"
  /\ UNCHANGED <<fds, alive, dst_fd, sensor>>

SensorPulled ==
  /\ sensor /\ sensor' = FALSE
  /\ depth' = IF dst_fd = NoFd THEN depth ELSE "stuck"
  /\ UNCHANGED <<fds, alive, dst_fd>>

(* Back in, it is not noticed by who has a descriptor of it. *)
SensorPlugged ==
  /\ dst_fd = NoFd /\ ~sensor /\ sensor' = TRUE
  /\ UNCHANGED <<fds, alive, dst_fd, depth>>

DstRuns == connect_to_dst \/ DstLine
DstNext == DstRuns \/ WaterChanges \/ SensorPulled \/ SensorPlugged
=============================================================================
