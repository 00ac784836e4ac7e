---------------------------- MODULE FrameGrabber ----------------------------
(***************************************************************************)
(* The frame grabber (framegrabberPub.c), the program each camera process  *)
(* runs: it opens a V4L2 device, obtains buffers, passes them to the       *)
(* driver, publishes what the driver has put in them and passes them back, *)
(* until enough frames are grabbed, a signal interrupts it, or the camera  *)
(* has been silent too often.  It ends when its subscribers have taken     *)
(* what it has published, or will not be waited for any longer.            *)
(*                                                                         *)
(* The driver is external.  Each of its answers may be an error, after     *)
(* which the program exits at once and the kernel takes everything back    *)
(* (Exit).  It fills and returns buffers in any order.                     *)
(***************************************************************************)
EXTENDS Integers

CONSTANTS Requested,    \* req.count: buffers asked for
          MostGranted,  \* the most a driver grants
          W,            \* an unsigned int is counted modulo W
          Counts,       \* values of -c
          Timeouts      \* values of -T

ASSUME GrabberAssumption ==
  /\ Requested \in Nat \ {0} /\ MostGranted \in Nat
  /\ W \in Nat \ {0}
  /\ Counts \subseteq Int /\ Timeouts \subseteq Nat

VARIABLES io, frame_count, timeouts_max,  \* the options
          pc,             \* where the program is
          fd,             \* the device is open
          granted,        \* buffers the driver knows of
          n_buffers,      \* buffers the program has
          i,              \* index of the loops over them
          mem,            \* those that are mapped or allocated
          queued, filled, \* the driver's, to be filled and filled
          held,           \* the one taken from the driver
          avail,          \* read i/o: the driver has an image
          s_interrupted, count, timeout_count,
          frames          \* how many images were processed

options == <<io, frame_count, timeouts_max>>
lent == <<queued, filled, held, avail>>
memory == <<granted, n_buffers, i, mem>>
counters == <<count, timeout_count, frames>>
vars == <<options, pc, fd, memory, lent, s_interrupted, counters>>

Methods == {"read", "mmap", "userptr"}
MostBuffers == IF Requested > MostGranted THEN Requested ELSE MostGranted
Buffers == 0 .. MostBuffers
NoBuffer == -1
Ended == {"done", "dead"}
Waiting == {"frame", "check", "select", "read"}

Unsigned(x) == x % W
Driver == queued \cup filled
Ready == IF io = "read" THEN avail ELSE filled # {}

(* How many buffers the program will have. *)
Wanted == IF io = "mmap" THEN granted ELSE Requested

TypeOK == /\ io \in Methods /\ frame_count \in Counts /\ timeouts_max \in Timeouts
          /\ pc \in Waiting \cup Ended \cup
                    {"open", "init", "alloc", "queue", "process", "requeue",
                     "stop", "uninit", "close", "linger"}
          /\ fd \in BOOLEAN /\ avail \in BOOLEAN /\ s_interrupted \in BOOLEAN
          /\ granted \in 0 .. MostGranted /\ n_buffers \in Nat /\ i \in Nat
          /\ mem \subseteq Buffers /\ queued \subseteq Buffers /\ filled \subseteq Buffers
          /\ held \in Buffers \cup {NoBuffer}
          /\ count \in 0 .. W - 1 /\ timeout_count \in Nat /\ frames \in Nat

(* The options; default -m, -c 1, -T 1. *)
Init == /\ io \in Methods /\ frame_count \in Counts /\ timeouts_max \in Timeouts
        /\ pc = "open" /\ fd = FALSE
        /\ granted = 0 /\ n_buffers = 0 /\ i = 0 /\ mem = {}
        /\ queued = {} /\ filled = {} /\ held = NoBuffer /\ avail = FALSE
        /\ s_interrupted = FALSE
        /\ count = 0 /\ timeout_count = 0 /\ frames = 0
-----------------------------------------------------------------------------
(* errno_exit, exit or a failed assertion: no clean-up; the kernel closes  *)
(* the device, which returns the buffers.                                  *)
Exit == /\ pc' = "dead" /\ fd' = FALSE
        /\ mem' = {} /\ queued' = {} /\ filled' = {} /\ held' = NoBuffer /\ avail' = FALSE
        /\ UNCHANGED <<options, granted, n_buffers, i, s_interrupted, counters>>

(* grab_frames begins. *)
BeginGrabbing == /\ pc' = "frame"
                 /\ count' = Unsigned(frame_count)
                 /\ timeout_count' = timeouts_max

OpenDevice ==
  /\ pc = "open"
  /\ pc' = "init" /\ fd' = TRUE
  /\ UNCHANGED <<options, memory, lent, s_interrupted, counters>>

(* init_device has negotiated the format; then init_read, which leaves     *)
(* n_buffers alone and needs no start_capturing ...                        *)
InitRead ==
  /\ pc = "init" /\ io = "read"
  /\ mem' = {0}
  /\ BeginGrabbing
  /\ UNCHANGED <<options, fd, granted, n_buffers, i, lent, s_interrupted, frames>>

(* ... or VIDIOC_REQBUFS.  init_mmap exits if it gets fewer than two       *)
(* buffers, init_userp does not look.                                      *)
RequestBuffers ==
  /\ pc = "init" /\ io # "read"
  /\ granted' \in 0 .. MostGranted
  /\ io = "mmap" => granted' >= 2
  /\ pc' = "alloc"
  /\ UNCHANGED <<options, fd, n_buffers, i, mem, lent, s_interrupted, counters>>

(* The loop that maps or allocates them, one by one. *)
Allocate ==
  /\ pc = "alloc"
  /\ IF n_buffers < Wanted
     THEN /\ mem' = mem \cup {n_buffers} /\ n_buffers' = n_buffers + 1 /\ pc' = pc
     ELSE /\ pc' = "queue" /\ UNCHANGED <<mem, n_buffers>>
  /\ UNCHANGED <<options, fd, granted, i, lent, s_interrupted, counters>>

(* start_capturing: VIDIOC_QBUF for each, which a driver that has granted  *)
(* fewer refuses, and VIDIOC_STREAMON.                                     *)
QueueBuffer ==
  /\ pc = "queue" /\ i < n_buffers
  /\ i < granted
  /\ queued' = queued \cup {i} /\ i' = i + 1
  /\ UNCHANGED <<options, pc, fd, granted, n_buffers, mem, filled, held, avail, s_interrupted, counters>>

StreamOn ==
  /\ pc = "queue" /\ i = n_buffers
  /\ BeginGrabbing
  /\ i' = 0
  /\ UNCHANGED <<options, fd, granted, n_buffers, mem, lent, s_interrupted, frames>>
-----------------------------------------------------------------------------
(* Slips that each break a property below; no action uses them. *)
NextFrameSigned ==
  /\ pc = "frame"
  /\ count' = count - 1
  /\ pc' = "check"
  /\ UNCHANGED <<options, fd, memory, lent, s_interrupted, timeout_count, frames>>
NextFramePreDecrement ==
  /\ pc = "frame"
  /\ count' = Unsigned(count - 1)
  /\ pc' = IF count' > 0 THEN "check" ELSE "stop"
  /\ UNCHANGED <<options, fd, memory, lent, s_interrupted, timeout_count, frames>>
CheckNever ==
  /\ pc = "check" /\ pc' = "select"
  /\ UNCHANGED <<options, fd, memory, lent, s_interrupted, counters>>
RequeueKeeps ==
  /\ pc = "requeue" /\ pc' = "frame" /\ held' = NoBuffer
  /\ UNCHANGED <<options, fd, memory, queued, filled, avail, s_interrupted, counters>>
TimedOutForgiven ==
  /\ pc = "select" /\ ~Ready
  /\ pc' = "read"
  /\ UNCHANGED <<options, fd, memory, lent, s_interrupted, counters>>

(* while (count-- > 0 || count < 0): the second disjunct is never true of  *)
(* an unsigned count.                                                      *)
NextFrame ==
  /\ pc = "frame"
  /\ count' = Unsigned(count - 1)
  /\ pc' = IF count > 0 THEN "check" ELSE "stop"
  /\ UNCHANGED <<options, fd, memory, lent, s_interrupted, timeout_count, frames>>

Check ==
  /\ pc = "check"
  /\ pc' = IF s_interrupted THEN "stop" ELSE "select"
  /\ UNCHANGED <<options, fd, memory, lent, s_interrupted, counters>>

(* select finds the device readable ... *)
Readable ==
  /\ pc = "select" /\ Ready
  /\ pc' = "read"
  /\ UNCHANGED <<options, fd, memory, lent, s_interrupted, counters>>

(* ... or times out, which is tolerated timeouts_max times in all; the     *)
(* program then tries to read nevertheless.                                *)
TimedOut ==
  /\ pc = "select" /\ ~Ready
  /\ timeout_count > 0
  /\ timeout_count' = timeout_count - 1
  /\ pc' = "read"
  /\ UNCHANGED <<options, fd, memory, lent, s_interrupted, count, frames>>

SelectTimeout == pc = "select" /\ ~Ready /\ timeout_count = 0 /\ Exit

(* read_frame: EAGAIN, or an image; the buffer is the driver's n-th, which *)
(* the program must have.                                                  *)
TryAgain ==
  /\ pc = "read" /\ ~Ready
  /\ pc' = "check"
  /\ UNCHANGED <<options, fd, memory, lent, s_interrupted, counters>>

ReadImage ==
  /\ pc = "read" /\ io = "read" /\ avail
  /\ avail' = FALSE /\ pc' = "process"
  /\ UNCHANGED <<options, fd, memory, queued, filled, held, s_interrupted, counters>>

DequeueBuffer ==
  /\ pc = "read"
  /\ \E b \in filled : /\ b < n_buffers
                       /\ held' = b /\ filled' = filled \ {b}
  /\ pc' = "process"
  /\ UNCHANGED <<options, fd, memory, queued, avail, s_interrupted, counters>>

ProcessImage ==
  /\ pc = "process"
  /\ frames' = frames + 1
  /\ pc' = IF io = "read" THEN "frame" ELSE "requeue"
  /\ UNCHANGED <<options, fd, memory, lent, s_interrupted, count, timeout_count>>

RequeueBuffer ==
  /\ pc = "requeue"
  /\ queued' = queued \cup {held} /\ held' = NoBuffer
  /\ pc' = "frame"
  /\ UNCHANGED <<options, fd, memory, filled, avail, s_interrupted, counters>>
-----------------------------------------------------------------------------
(* stop_capturing: VIDIOC_STREAMOFF takes every buffer from the driver. *)
StopCapturing ==
  /\ pc = "stop"
  /\ queued' = {} /\ filled' = {}
  /\ pc' = "uninit"
  /\ UNCHANGED <<options, fd, memory, held, avail, s_interrupted, counters>>

(* uninit_device: unmaps or frees them, one by one. *)
UninitDevice ==
  /\ pc = "uninit"
  /\ IF io # "read" /\ i < n_buffers
     THEN mem' = mem \ {i} /\ i' = i + 1 /\ pc' = pc
     ELSE mem' = mem \ {0} /\ i' = i /\ pc' = "close"
  /\ UNCHANGED <<options, fd, granted, n_buffers, lent, s_interrupted, counters>>

CloseDevice ==
  /\ pc = "close"
  /\ fd' = FALSE /\ pc' = "linger"
  /\ avail' = FALSE
  /\ UNCHANGED <<options, memory, queued, filled, held, s_interrupted, counters>>

(* zmq_close and zmq_ctx_destroy, which returns at once if nothing has     *)
(* been published ...                                                      *)
CloseZmq ==
  /\ pc = "linger" /\ frames = 0
  /\ pc' = "done"
  /\ UNCHANGED <<options, fd, memory, lent, s_interrupted, counters>>

(* ... and otherwise when every subscriber has taken its messages or gone: *)
(* it lingers without limit for one that does neither.                     *)
Delivered ==
  /\ pc = "linger" /\ frames > 0
  /\ pc' = "done"
  /\ UNCHANGED <<options, fd, memory, lent, s_interrupted, counters>>

(* A call of the driver, or an allocation, may fail.  Of the calls that    *)
(* init_device makes before it asks for buffers (capabilities, format) a   *)
(* failure is all that shows here; that of cropping and of the interval is *)
(* ignored.                                                                *)
DriverFails == /\ pc \notin Ended \cup {"frame", "check", "process", "linger"}
               /\ pc = "stop" => io # "read"
               /\ pc = "uninit" => io = "mmap"
               /\ Exit

(* The driver fills a buffer, or in read i/o one of its own. *)
Capture ==
  /\ pc \in Waiting \cup {"process", "requeue", "stop"}
  /\ \/ /\ io = "read" /\ avail' = TRUE /\ UNCHANGED <<queued, filled>>
     \/ /\ \E b \in queued : queued' = queued \ {b} /\ filled' = filled \cup {b}
        /\ UNCHANGED avail
  /\ UNCHANGED <<options, pc, fd, memory, held, s_interrupted, counters>>

(* SIGINT or SIGTERM.  A select that is waiting returns EINTR; one that is *)
(* about to wait does not notice.  So does a zmq_ctx_destroy that lingers, *)
(* and main ignores what it returns.                                       *)
Interrupt ==
  /\ pc \notin Ended
  /\ s_interrupted' = TRUE
  /\ \/ pc' = pc
     \/ pc = "select" /\ pc' = "check"
     \/ pc = "linger" /\ pc' = "done"
  /\ UNCHANGED <<options, fd, memory, lent, counters>>

Setup == OpenDevice \/ InitRead \/ RequestBuffers \/ Allocate \/ QueueBuffer \/ StreamOn
Grab == \/ NextFrame \/ Check \/ Readable \/ TimedOut \/ SelectTimeout
        \/ TryAgain \/ ReadImage \/ DequeueBuffer \/ ProcessImage \/ RequeueBuffer
Shutdown == StopCapturing \/ UninitDevice \/ CloseDevice \/ CloseZmq
Program == Setup \/ Grab \/ Shutdown \/ DriverFails

Next == Program \/ Capture \/ Interrupt \/ Delivered

SafeSpec == Init /\ [][Next]_vars

(* The program runs on; the driver answers every call.  No subscriber need *)
(* take anything.                                                          *)
Spec == SafeSpec /\ WF_vars(Program)
-----------------------------------------------------------------------------
(* The driver only ever has memory that is still mapped, on an open        *)
(* device; no buffer is in two places; and whenever the program waits for  *)
(* a frame the driver has every buffer, none having been lost on the way.  *)
BuffersOwned ==
  /\ Driver \subseteq mem
  /\ Driver # {} => fd
  /\ queued \cap filled = {} /\ held \notin Driver
  /\ pc \in Waiting /\ io # "read" => Driver = mem

(* A grabber that nothing has interrupted publishes as many frames as it   *)
(* was asked for, the number read as unsigned, before it stops capturing.  *)
FramesAsAsked ==
  pc \in {"stop", "uninit", "close", "linger", "done"} /\ ~s_interrupted
    => frames = Unsigned(frame_count)

(* What is left of the grabber waits for its subscribers only.             *)
Over == pc \in Ended \/ (pc = "linger" /\ frames > 0)

(* A signal ends the grabber, however long it was to run and whether or    *)
(* not the camera still delivers: but for subscribers that do not take     *)
(* what was published before it (zmq_ctx_destroy).                         *)
InterruptEnds == s_interrupted ~> Over

(* So does a camera that has fallen silent, even if the grabber was to run *)
(* for ever: it does not wait for more than timeouts_max timeouts.         *)
SilenceEnds == <>[][~Capture]_vars => <>Over
=============================================================================
