--------------------------- MODULE MCFrameGrabber ---------------------------
(* Three kinds of i/o; a driver that grants fewer or more buffers than     *)
(* asked for; unsigned numbers of two bits, so that -1 is 3.               *)
EXTENDS FrameGrabber

MCCounts == {-1, 0, 1, 2}
MCTimeouts == {0, 1, 2}
=============================================================================
