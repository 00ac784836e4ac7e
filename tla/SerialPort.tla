----------------------------- MODULE SerialPort -----------------------------
(***************************************************************************)
(* The descriptor of a USB serial device, as the device threads use it     *)
(* (connect_to_arduino, connect_to_la, connect_to_imu): it is opened by    *)
(* name, keeps pointing at a device that is pulled out, and is closed and  *)
(* reopened once, after a write on it has failed.                          *)
(***************************************************************************)

(* "none": open failed (-1).  "live": open on the device that is plugged.  *)
(* "stale": open on a device that has been pulled out since.               *)
Descriptors == {"none", "live", "stale"}

(* open() by the device's name: it fails while the device is absent. *)
Opened(plugged) == IF plugged THEN "live" ELSE "none"

(* write() is accepted only by a descriptor of a device still there. *)
Accepts(fd) == fd = "live"

(* Slips: the failed descriptor is closed, and kept, or never reopened. *)
AfterWriteKeepsClosed(fd, plugged) == IF Accepts(fd) THEN fd ELSE "closed"
AfterWriteNoReopen(fd, plugged) == IF Accepts(fd) THEN fd ELSE "none"

(* The descriptor after a write: a failed one is closed and reopened. *)
AfterWrite(fd, plugged) == IF Accepts(fd) THEN fd ELSE Opened(plugged)

(* What pulling the device out does to a descriptor. *)
Orphaned(fd) == IF fd = "live" THEN "stale" ELSE fd
=============================================================================
