------------------------- MODULE FrameGrabber_proofs ------------------------
(***************************************************************************)
(* The buffers and the number of frames of FrameGrabber, for any number of *)
(* buffers, any word width, any options, and a driver that may fail at any *)
(* call.                                                                   *)
(***************************************************************************)
EXTENDS FrameGrabber, FiniteSetTheorems, TLAPS

Before == {"open", "init"}
Capturing == Waiting \cup {"process", "requeue", "stop"}
InHand == {"process", "requeue"}

(* Which memory the program has, stage by stage. *)
Memory ==
  /\ pc \in Before => mem = {} /\ n_buffers = 0 /\ i = 0
  /\ pc \in {"alloc", "queue"} => mem = 0 .. n_buffers - 1
  /\ pc \in {"alloc", "queue", "requeue"} => io # "read"
  /\ pc = "alloc" => n_buffers <= Wanted /\ i = 0
  /\ pc = "queue" => i <= n_buffers
  /\ pc \in Capturing => i = 0 /\ mem = IF io = "read" THEN {0} ELSE 0 .. n_buffers - 1
  /\ pc \notin {"open", "linger"} \cup Ended => fd
  /\ n_buffers <= MostBuffers

(* Which of it is the driver's. *)
Lent ==
  /\ queued \cap filled = {}
  /\ pc \notin Capturing \cup {"queue"} => Driver = {}
  /\ pc = "queue" => queued = 0 .. i - 1 /\ filled = {}
  /\ pc \in Capturing /\ io = "read" => Driver = {}
  /\ pc \in Capturing /\ io # "read" => Driver = mem \ {held}
  /\ IF pc \in InHand /\ io # "read" THEN held \in mem ELSE held = NoBuffer

(* The frames processed and the frames to come make up what was asked for. *)
Tally ==
  /\ pc \in {"frame", "requeue"} => frames + count = Unsigned(frame_count)
  /\ pc \in {"check", "select", "read", "process"} => frames + count + 1 = Unsigned(frame_count)
  /\ pc \in Before \cup {"alloc", "queue"} => frames = 0
  /\ FramesAsAsked

Inv == TypeOK /\ Memory /\ Lent /\ Tally

(* An unsigned number stays below the modulus, and one that is positive is *)
(* decremented without wrapping.                                           *)
LEMMA UnsignedRange ==
  ASSUME NEW x \in Int
  PROVE  /\ Unsigned(x) \in 0 .. W - 1
         /\ x \in 1 .. W - 1 => Unsigned(x - 1) = x - 1
  <1>1. W \in Nat /\ W > 0
    BY GrabberAssumption
  <1>2. x % W \in 0 .. W - 1
    BY <1>1
  <1>3. ASSUME x \in 1 .. W - 1 PROVE (x - 1) % W = x - 1
    BY <1>1, <1>3
  <1>4. QED
    BY <1>2, <1>3 DEF Unsigned

LEMMA BuffersSuffice ==
  MostBuffers \in Nat /\ Requested <= MostBuffers /\ MostGranted <= MostBuffers
  BY GrabberAssumption DEF MostBuffers

LEMMA InitInv == Init => Inv
  <1> SUFFICES ASSUME Init PROVE Inv
    OBVIOUS
  <1> USE GrabberAssumption
  <1>1. TypeOK
    <2>1. held \in Buffers \cup {NoBuffer} /\ count \in 0 .. W - 1
      BY DEF Init
    <2>2. granted \in 0 .. MostGranted /\ n_buffers \in Nat /\ i \in Nat
          /\ timeout_count \in Nat /\ frames \in Nat
      BY DEF Init
    <2>3. QED
      BY <2>1, <2>2 DEF Init, TypeOK
  <1>2. Memory /\ Lent /\ Tally
    BY BuffersSuffice DEF Init, Memory, Lent, Tally, FramesAsAsked, Before, Capturing, Waiting, InHand,
           Ended, Driver, NoBuffer, TypeOK
  <1>3. QED
    BY <1>1, <1>2 DEF Inv

(* An exit gives everything back. *)
LEMMA ExitInv == Inv /\ Exit => Inv'
  <1> SUFFICES ASSUME Inv, Exit PROVE Inv'
    OBVIOUS
  <1> USE GrabberAssumption DEF Exit, Inv, options, counters
  <1>1. TypeOK'
    BY DEF TypeOK, Ended, Buffers, Wanted
  <1>2. Memory' /\ Lent' /\ Tally'
    BY DEF TypeOK, Memory, Lent, Tally, FramesAsAsked, Before, Capturing, Waiting, InHand,
           Ended, Driver, NoBuffer
  <1>3. QED
    BY <1>1, <1>2

LEMMA SetupInv == Inv /\ Setup => Inv'
  <1> SUFFICES ASSUME Inv, Setup PROVE Inv'
    OBVIOUS
  <1> USE GrabberAssumption, BuffersSuffice DEF Inv, options, memory, lent, counters, Wanted
  <1>w. W - 1 \in Nat /\ (Unsigned(frame_count) \in 0 .. W - 1)
    BY UnsignedRange DEF TypeOK
  <1>1. CASE OpenDevice
    BY <1>1 DEF OpenDevice, TypeOK, Memory, Lent, Tally, FramesAsAsked, Before, Capturing,
                Waiting, InHand, Ended, Driver, Buffers, NoBuffer
  <1>2. CASE InitRead
    <2> USE <1>2 DEF InitRead, BeginGrabbing
    <2>1. TypeOK'
      BY <1>w DEF TypeOK, Waiting, Buffers
    <2>2. Memory'
      BY DEF Memory, Before, Capturing, Waiting, Ended
    <2>3. Lent'
      BY DEF Lent, Capturing, Waiting, InHand, Driver
    <2>4. Tally'
      BY <1>w DEF TypeOK, Tally, FramesAsAsked, Before
    <2>5. QED
      BY <2>1, <2>2, <2>3, <2>4
  <1>3. CASE RequestBuffers
    <2> USE <1>3 DEF RequestBuffers
    <2>1. TypeOK'
      BY DEF TypeOK
    <2>2. Memory'
      BY DEF TypeOK, Memory, Before, Capturing, Waiting, Ended
    <2>3. Lent' /\ Tally'
      BY DEF Lent, Tally, FramesAsAsked, Before, Capturing, Waiting, InHand, Driver
    <2>4. QED
      BY <2>1, <2>2, <2>3
  <1>4. CASE Allocate
    <2> USE <1>4 DEF Allocate
    <2>1. Lent' /\ Tally'
      <3>1. i' = 0 /\ queued' = {} /\ filled' = {}
        BY DEF Memory, Lent, Capturing, Waiting, Driver
      <3>2. QED
        BY <3>1 DEF Lent, Tally, FramesAsAsked, Before, Capturing, Waiting, InHand, Driver
    <2>2. CASE n_buffers < Wanted
      <3>1. n_buffers \in Buffers /\ n_buffers \in Nat /\ n_buffers + 1 <= MostBuffers
        BY <2>2 DEF TypeOK, Buffers
      <3>2. TypeOK'
        <4>1. mem \subseteq Buffers
          BY DEF TypeOK
        <4>2. mem' = mem \cup {n_buffers} /\ n_buffers' = n_buffers + 1 /\ pc' = pc
          BY <2>2
        <4>3. mem' \subseteq Buffers /\ n_buffers' \in Nat
          BY <3>1, <4>1, <4>2
        <4>4. QED
          BY <4>2, <4>3 DEF TypeOK
      <3>3. mem' = 0 .. n_buffers' - 1
        <4>1. mem = 0 .. n_buffers - 1 /\ mem' = mem \cup {n_buffers} /\ n_buffers' = n_buffers + 1
          BY <2>2 DEF Memory
        <4>2. QED
          BY <3>1, <4>1
      <3>4. Memory'
        BY <2>2, <3>1, <3>3 DEF TypeOK, Memory, Before, Capturing, Waiting, Ended
      <3>5. QED
        BY <2>1, <3>2, <3>4
    <2>3. CASE ~(n_buffers < Wanted)
      <3>1. TypeOK'
        BY <2>3 DEF TypeOK
      <3>2. Memory'
        BY <2>3 DEF TypeOK, Memory, Before, Capturing, Waiting, Ended
      <3>3. QED
        BY <2>1, <3>1, <3>2
    <2>4. QED
      BY <2>2, <2>3
  <1>5. CASE QueueBuffer
    BY <1>5 DEF QueueBuffer, TypeOK, Memory, Lent, Tally, FramesAsAsked, Before, Capturing,
                Waiting, InHand, Ended, Driver, Buffers, NoBuffer
  <1>6. CASE StreamOn
    <2> USE <1>6 DEF StreamOn, BeginGrabbing
    <2>1. TypeOK'
      BY <1>w DEF TypeOK, Waiting
    <2>2. Memory'
      BY DEF TypeOK, Memory, Before, Capturing, Waiting, Ended
    <2>3. held = NoBuffer /\ NoBuffer \notin mem /\ queued = mem /\ filled = {}
      BY DEF TypeOK, Memory, Lent, InHand, NoBuffer
    <2>4. io # "read" /\ pc' = "frame"
      BY DEF Memory
    <2>5. Lent'
      BY <2>3, <2>4 DEF Lent, Capturing, Waiting, InHand, Driver
    <2>6. Tally'
      BY <1>w DEF TypeOK, Tally, FramesAsAsked, Before
    <2>7. QED
      BY <2>1, <2>2, <2>5, <2>6
  <1>7. QED
    BY <1>1, <1>2, <1>3, <1>4, <1>5, <1>6 DEF Setup

LEMMA GrabInv == Inv /\ Grab => Inv'
  <1> SUFFICES ASSUME Inv, Grab PROVE Inv'
    OBVIOUS
  <1> USE GrabberAssumption DEF Inv, options, memory, lent, counters
  <1>w. /\ W \in Nat \ {0} /\ Unsigned(frame_count) \in 0 .. W - 1
        /\ Unsigned(count - 1) \in 0 .. W - 1
        /\ count > 0 => Unsigned(count - 1) = count - 1
    <2>1. frame_count \in Int /\ count \in 0 .. W - 1 /\ count - 1 \in Int
      BY DEF TypeOK
    <2>2. QED
      BY <2>1, UnsignedRange
  <1>1. CASE NextFrame
    <2> USE <1>1 DEF NextFrame
    <2>1. TypeOK'
      BY <1>w DEF TypeOK, Waiting
    <2>2. Memory' /\ Lent'
      BY DEF Memory, Lent, Before, Capturing, Waiting, InHand, Ended, Driver
    <2>3. Tally'
      BY <1>w DEF TypeOK, Tally, FramesAsAsked, Before
    <2>4. QED
      BY <2>1, <2>2, <2>3
  <1>2. CASE Check
    BY <1>2 DEF Check, TypeOK, Memory, Lent, Tally, FramesAsAsked, Before, Capturing,
                Waiting, InHand, Ended, Driver
  <1>3. CASE Readable
    BY <1>3 DEF Readable, TypeOK, Memory, Lent, Tally, FramesAsAsked, Before, Capturing,
                Waiting, InHand, Ended, Driver
  <1>4. CASE TimedOut
    BY <1>4 DEF TimedOut, TypeOK, Memory, Lent, Tally, FramesAsAsked, Before, Capturing,
                Waiting, InHand, Ended, Driver
  <1>5. CASE SelectTimeout
    BY <1>5, ExitInv DEF SelectTimeout
  <1>6. CASE TryAgain
    BY <1>6 DEF TryAgain, TypeOK, Memory, Lent, Tally, FramesAsAsked, Before, Capturing,
                Waiting, InHand, Ended, Driver
  <1>7. CASE ReadImage
    BY <1>7 DEF ReadImage, TypeOK, Memory, Lent, Tally, FramesAsAsked, Before, Capturing,
                Waiting, InHand, Ended, Driver
  <1>8. CASE DequeueBuffer
    <2> USE <1>8 DEF DequeueBuffer
    <2>1. io # "read" /\ Driver = mem /\ held = NoBuffer /\ NoBuffer \notin mem
      BY DEF TypeOK, Memory, Lent, Capturing, Waiting, InHand, Driver, NoBuffer
    <2>2. TypeOK'
      BY DEF TypeOK
    <2>3. Memory' /\ Tally'
      BY DEF Memory, Tally, FramesAsAsked, Before, Capturing, Waiting, Ended
    <2>4. PICK b \in filled : held' = b /\ filled' = filled \ {b}
      OBVIOUS
    <2>5. held' \in mem /\ Driver' = mem \ {held'}
      BY <2>1, <2>4 DEF Lent, Driver
    <2>6. Lent'
      BY <2>1, <2>4, <2>5 DEF Lent, Capturing, Waiting, InHand, Driver
    <2>7. QED
      BY <2>2, <2>3, <2>6
  <1>9. CASE ProcessImage
    BY <1>9 DEF ProcessImage, TypeOK, Memory, Lent, Tally, FramesAsAsked, Before, Capturing,
                Waiting, InHand, Ended, Driver
  <1>10. CASE RequeueBuffer
    <2> USE <1>10 DEF RequeueBuffer
    <2>1. io # "read" /\ held \in mem /\ Driver = mem \ {held} /\ NoBuffer \notin mem
      BY DEF TypeOK, Memory, Lent, Capturing, InHand, NoBuffer
    <2>2. Driver' = mem \ {held'}
      BY <2>1 DEF Driver
    <2>3. TypeOK'
      BY <2>1 DEF TypeOK, Waiting
    <2>4. Memory' /\ Tally'
      BY DEF Memory, Tally, FramesAsAsked, Before, Capturing, Waiting, Ended
    <2>5. queued' \cap filled' = {}
      BY <2>1 DEF Lent, Driver
    <2>6. Lent'
      BY <2>1, <2>2, <2>5 DEF Lent, Capturing, Waiting, InHand
    <2>7. QED
      BY <2>3, <2>4, <2>6
  <1>11. QED
    BY <1>1, <1>2, <1>3, <1>4, <1>5, <1>6, <1>7, <1>8, <1>9, <1>10 DEF Grab

(* The end, whether or not there was something left to deliver. *)
LEMMA SubscribersInv ==
  ASSUME Inv, pc = "linger", pc' = "done",
         UNCHANGED <<options, fd, memory, lent, s_interrupted, counters>>
  PROVE  Inv'
  <1> USE DEF Inv, options, memory, lent, counters
  <1>1. TypeOK'
    BY DEF TypeOK, Ended
  <1>2. Memory'
    BY DEF Memory, Before, Capturing, Waiting, Ended, Wanted
  <1>3. Lent' /\ Tally'
    BY DEF Lent, Tally, FramesAsAsked, Before, Capturing, Waiting, InHand, Driver
  <1>4. QED
    BY <1>1, <1>2, <1>3

LEMMA ShutdownInv == Inv /\ Shutdown => Inv'
  <1> SUFFICES ASSUME Inv, Shutdown PROVE Inv'
    OBVIOUS
  <1> USE GrabberAssumption DEF Inv, options, memory, lent, counters
  <1>1. CASE StopCapturing
    BY <1>1 DEF StopCapturing, TypeOK, Memory, Lent, Tally, FramesAsAsked, Before, Capturing,
                Waiting, InHand, Ended, Driver
  <1>2. CASE UninitDevice
    BY <1>2 DEF UninitDevice, TypeOK, Memory, Lent, Tally, FramesAsAsked, Before, Capturing,
                Waiting, InHand, Ended, Driver
  <1>3. CASE CloseDevice
    BY <1>3 DEF CloseDevice, TypeOK, Memory, Lent, Tally, FramesAsAsked, Before, Capturing,
                Waiting, InHand, Ended, Driver
  <1>4. CASE CloseZmq
    BY <1>4, SubscribersInv DEF CloseZmq
  <1>5. QED
    BY <1>1, <1>2, <1>3, <1>4 DEF Shutdown

LEMMA CaptureInv == Inv /\ Capture => Inv'
  <1> SUFFICES ASSUME Inv, Capture PROVE Inv'
    OBVIOUS
  <1> USE DEF Capture, Inv, options, memory, counters
  <1>1. Driver' = Driver /\ queued' \cap filled' = {}
    BY DEF Lent, Driver
  <1>2. TypeOK'
    BY DEF TypeOK
  <1>3. Memory' /\ Tally'
    BY DEF Memory, Tally, FramesAsAsked, Before, Capturing, Waiting, Ended
  <1>4. Lent'
    BY <1>1 DEF Lent, Capturing, Waiting, InHand, Driver
  <1>5. QED
    BY <1>2, <1>3, <1>4

LEMMA InterruptInv == Inv /\ Interrupt => Inv'
  <1> SUFFICES ASSUME Inv, Interrupt PROVE Inv'
    OBVIOUS
  <1> USE DEF Interrupt, Inv, options, memory, lent, counters
  <1>1. TypeOK'
    BY DEF TypeOK, Waiting, Ended
  <1>2. Memory'
    BY DEF Memory, Before, Capturing, Waiting, Ended, Wanted
  <1>3. Lent' /\ Tally'
    BY DEF Lent, Tally, FramesAsAsked, Before, Capturing, Waiting, InHand, Driver
  <1>4. QED
    BY <1>1, <1>2, <1>3

LEMMA SafeSpecInv == SafeSpec => []Inv
  <1>1. Inv /\ [Next]_vars => Inv'
    <2> SUFFICES ASSUME Inv, [Next]_vars PROVE Inv'
      OBVIOUS
    <2>1. CASE Next
      <3>1. ASSUME DriverFails PROVE Inv'
        BY <3>1, ExitInv DEF DriverFails
      <3>2. ASSUME Delivered PROVE Inv'
        BY <3>2, SubscribersInv DEF Delivered
      <3>3. QED
        BY <2>1, <3>1, <3>2, SetupInv, GrabInv, ShutdownInv, CaptureInv, InterruptInv DEF Next, Program
    <2>2. CASE UNCHANGED vars
      BY <2>2 DEF vars, Inv, TypeOK, Memory, Lent, Tally, FramesAsAsked, Driver, Wanted,
                  options, memory, lent, counters
    <2>3. QED
      BY <2>1, <2>2
  <1>2. QED
    BY <1>1, InitInv, PTL DEF SafeSpec

(* Whatever the driver grants, fills or refuses, grab_frames and the loops *)
(* over the buffers keep indices within these and the count within a word. *)
THEOREM GrabberTypeOK == Spec => []TypeOK
  BY SafeSpecInv, PTL DEF Spec, Inv

(* The driver only ever has memory that is still mapped, and whenever the  *)
(* program waits for a frame the driver has every buffer (read_frame,      *)
(* start_capturing, stop_capturing, uninit_device).                        *)
THEOREM BuffersOwnedAlways == Spec => []BuffersOwned
  <1>1. Inv => BuffersOwned
    <2> SUFFICES ASSUME Inv PROVE BuffersOwned
      OBVIOUS
    <2> USE DEF Inv
    <2>1. NoBuffer \notin Driver
      BY DEF TypeOK, Buffers, Driver, NoBuffer
    <2>2. Driver \subseteq mem /\ held \notin Driver
      <3>1. CASE pc \in Capturing /\ io # "read"
        BY <3>1, <2>1 DEF Lent
      <3>2. CASE pc = "queue"
        <4>1. Driver \subseteq mem
          BY <3>2 DEF TypeOK, Memory, Lent, Driver
        <4>2. QED
          BY <3>2, <4>1, <2>1 DEF Lent, InHand
      <3>3. CASE pc \notin Capturing \cup {"queue"} \/ (pc \in Capturing /\ io = "read")
        BY <3>3 DEF Lent
      <3>4. QED
        BY <3>1, <3>2, <3>3
    <2>3. Driver # {} => fd
      BY DEF Memory, Lent, Capturing, Waiting, Before, Ended
    <2>4. ASSUME pc \in Waiting, io # "read" PROVE Driver = mem
      <3>1. held = NoBuffer /\ NoBuffer \notin mem
        BY <2>4 DEF TypeOK, Lent, Waiting, InHand, Buffers, NoBuffer
      <3>2. QED
        BY <2>4, <3>1 DEF Lent, Capturing
    <2>5. QED
      BY <2>2, <2>3, <2>4 DEF BuffersOwned, Lent
  <1>2. QED
    BY <1>1, SafeSpecInv, PTL DEF Spec

(* grab_frames processes exactly the unsigned number of frames asked for,  *)
(* unless it is interrupted or dies.                                       *)
THEOREM FramesAsAskedAlways == Spec => []FramesAsAsked
  BY SafeSpecInv, PTL DEF Spec, Inv, Tally

-----------------------------------------------------------------------------
(* How far the program is from its end, counted in its own steps.          *)

StartUp == {"open", "init", "alloc", "queue"}
InLoop == Waiting \cup {"process", "requeue"}

(* Until it begins to grab. *)
StartLeft == CASE pc = "queue" -> 1 + n_buffers - i
               [] pc = "alloc" -> 2 + MostBuffers + Wanted - n_buffers
               [] pc = "init" -> 3 + 2 * MostBuffers
               [] pc = "open" -> 4 + 2 * MostBuffers
               [] OTHER -> 0

(* From the loop of grab_frames, once s_interrupted is set: it goes on     *)
(* with the frame it is at, and ends at the next check.                    *)
LoopLeft == CASE pc = "check" -> 1 [] pc = "frame" -> 2 [] pc = "requeue" -> 3
              [] pc = "process" -> 4 [] pc = "read" -> 5 [] pc = "select" -> 6
              [] OTHER -> 0

(* Before that, until one more frame or one more timeout is used up ...    *)
TurnLeft == CASE pc = "read" /\ Ready -> 1 [] pc = "select" -> 2 [] pc = "check" -> 3
              [] pc = "read" /\ ~Ready -> 4 [] pc = "frame" -> 5
              [] pc = "requeue" -> 6 [] pc = "process" -> 7
              [] OTHER -> 0

(* ... of those that are left while the camera is silent.                  *)
Turns == timeout_count + Cardinality(filled) + (IF avail THEN 1 ELSE 0)

CleanUp == CASE pc = "linger" -> 1 [] pc = "close" -> 2
             [] pc = "uninit" -> 3 + (IF i < n_buffers THEN n_buffers - i ELSE 0)
             [] pc = "stop" -> 4 + MostBuffers
             [] OTHER -> 0

Interrupted == IF pc \in StartUp THEN 10 + MostBuffers + StartLeft
               ELSE IF pc \in InLoop THEN 4 + MostBuffers + LoopLeft
               ELSE CleanUp

Undisturbed == IF pc \in StartUp THEN 4 + MostBuffers + 7 * (timeouts_max + 2) + StartLeft
               ELSE IF pc \in InLoop THEN 4 + MostBuffers + 7 * Turns + TurnLeft
               ELSE CleanUp

AfterSignal == 14 + 3 * MostBuffers

Remaining == IF s_interrupted THEN Interrupted ELSE AfterSignal + Undisturbed

LEMMA FilledFinite ==
  ASSUME TypeOK
  PROVE  /\ Cardinality(filled) \in Nat
         /\ \A b : /\ b \in filled => Cardinality(filled \ {b}) = Cardinality(filled) - 1
                   /\ b \notin filled => Cardinality(filled \cup {b}) = Cardinality(filled) + 1
  <1>1. IsFiniteSet(Buffers)
    BY BuffersSuffice, FS_Interval DEF Buffers
  <1>2. IsFiniteSet(filled)
    BY <1>1, FS_Subset DEF TypeOK
  <1>3. QED
    BY <1>2, FS_CardinalityType, FS_AddElement, FS_RemoveElement

Counted == /\ StartLeft \in 0 .. 4 + 2 * MostBuffers
           /\ LoopLeft \in 0 .. 6 /\ TurnLeft \in 0 .. 7
           /\ Turns \in Nat
           /\ CleanUp \in 0 .. 4 + MostBuffers
           /\ Interrupted \in 0 .. AfterSignal
           /\ Undisturbed \in Nat
           /\ pc \notin Ended => Interrupted > 0 /\ Undisturbed > 0

LEMMA StepsCounted == Inv => Counted
  <1> SUFFICES ASSUME Inv PROVE Counted
    OBVIOUS
  <1> USE BuffersSuffice, FilledFinite DEF Inv, TypeOK
  <1>0. Wanted \in Nat /\ Wanted <= MostBuffers /\ n_buffers \in Nat /\ n_buffers <= MostBuffers
    BY GrabberAssumption DEF Wanted, Memory
  <1>1. StartLeft \in 0 .. 4 + 2 * MostBuffers
    <2>1. CASE pc = "queue"
      <3>1. i \in Nat /\ i <= n_buffers /\ StartLeft = 1 + n_buffers - i
        BY <2>1 DEF StartLeft, Memory
      <3>2. QED
        BY <1>0, <3>1
    <2>2. CASE pc = "alloc"
      <3>1. n_buffers <= Wanted /\ StartLeft = 2 + MostBuffers + Wanted - n_buffers
        BY <2>2 DEF StartLeft, Memory
      <3>2. QED
        BY <1>0, <3>1
    <2>3. CASE pc \notin {"queue", "alloc"}
      BY <2>3 DEF StartLeft
    <2>4. QED
      BY <2>1, <2>2, <2>3
  <1>2. LoopLeft \in 0 .. 6 /\ TurnLeft \in 0 .. 7
    BY DEF LoopLeft, TurnLeft
  <1>3. Turns \in Nat
    BY DEF Turns
  <1>4. CleanUp \in 0 .. 4 + MostBuffers
    BY <1>0 DEF CleanUp
  <1>5. pc \notin Ended \cup StartUp \cup InLoop => CleanUp > 0
    BY DEF CleanUp, StartUp, InLoop, Waiting, Ended
  <1>6. Interrupted \in 0 .. AfterSignal /\ (pc \notin Ended => Interrupted > 0)
    BY <1>1, <1>2, <1>4, <1>5 DEF Interrupted, AfterSignal
  <1>7. timeouts_max \in Nat
    BY GrabberAssumption
  <1>8. Undisturbed \in Nat /\ (pc \notin Ended => Undisturbed > 0)
    BY <1>1, <1>2, <1>3, <1>4, <1>5, <1>7 DEF Undisturbed
  <1>9. QED
    BY <1>1, <1>2, <1>3, <1>4, <1>6, <1>8 DEF Counted

LEMMA StepsCountedNext == Inv' => Counted'
  BY StepsCounted, PTL

(* What every step of the program does. *)
Nears == /\ s_interrupted => Interrupted' < Interrupted
         /\ Undisturbed' < Undisturbed

LEMMA StartUpNears ==
  ASSUME Inv, Inv', Setup
  PROVE  Nears
  <1> USE BuffersSuffice, GrabberAssumption
          DEF options, memory, lent, counters, Interrupted, Undisturbed, StartUp, InLoop,
              Waiting, StartLeft, Nears, TypeOK
  <1>1. CASE OpenDevice
    BY <1>1 DEF OpenDevice, Inv
  <1>2. CASE RequestBuffers
    BY <1>2 DEF RequestBuffers, Inv, Memory, Before, Wanted
  <1>3. CASE Allocate
    <2>1. /\ pc = "alloc" /\ n_buffers \in Nat /\ Wanted \in Nat /\ n_buffers <= Wanted
          /\ timeouts_max \in Nat /\ timeouts_max' = timeouts_max /\ MostBuffers \in Nat
      BY <1>3 DEF Allocate, Inv, Memory, Wanted
    <2>2. /\ Interrupted = 10 + MostBuffers + (2 + MostBuffers + Wanted - n_buffers)
          /\ Undisturbed = 4 + MostBuffers + 7 * (timeouts_max + 2)
                             + (2 + MostBuffers + Wanted - n_buffers)
      BY <2>1
    <2>3. CASE n_buffers < Wanted
      <3>1. pc' = "alloc" /\ n_buffers' = n_buffers + 1 /\ Wanted' = Wanted
        BY <1>3, <2>1, <2>3 DEF Allocate, Wanted
      <3>2. /\ Interrupted' = 10 + MostBuffers + (2 + MostBuffers + Wanted - n_buffers')
            /\ Undisturbed' = 4 + MostBuffers + 7 * (timeouts_max + 2)
                                + (2 + MostBuffers + Wanted - n_buffers')
        BY <2>1, <3>1
      <3> HIDE DEF Interrupted, Undisturbed
      <3>3. QED
        BY <2>1, <2>2, <3>1, <3>2
    <2>4. CASE ~(n_buffers < Wanted)
      <3>1. /\ pc' = "queue" /\ n_buffers' = n_buffers /\ i' = 0
            /\ n_buffers = Wanted /\ n_buffers <= MostBuffers
        BY <1>3, <2>1, <2>4 DEF Allocate, Inv, Memory
      <3>2. /\ Interrupted' = 10 + MostBuffers + (1 + n_buffers)
            /\ Undisturbed' = 4 + MostBuffers + 7 * (timeouts_max + 2) + (1 + n_buffers)
        BY <2>1, <3>1
      <3> HIDE DEF Interrupted, Undisturbed
      <3>3. QED
        BY <2>1, <2>2, <3>1, <3>2
    <2>5. QED
      BY <2>3, <2>4
  <1>4. CASE QueueBuffer
    <2>1. /\ pc = "queue" /\ pc' = "queue" /\ i \in Nat /\ n_buffers \in Nat
          /\ timeouts_max \in Nat /\ timeouts_max' = timeouts_max /\ MostBuffers \in Nat
          /\ i' = i + 1 /\ n_buffers' = n_buffers
      BY <1>4 DEF QueueBuffer, Inv
    <2>2. QED
      BY <2>1
  <1>5. CASE InitRead \/ StreamOn
    <2>1. /\ pc' = "frame" /\ timeout_count' = timeouts_max /\ filled' = filled /\ avail' = avail
          /\ timeouts_max \in Nat /\ avail \in BOOLEAN
      BY <1>5 DEF InitRead, StreamOn, BeginGrabbing, Inv
    <2>2. filled = {}
      BY <1>5 DEF InitRead, StreamOn, Inv, Lent, Capturing, Waiting, Driver
    <2>3. Turns' = timeouts_max + (IF avail THEN 1 ELSE 0)
      BY <2>1, <2>2, FS_EmptySet DEF Turns
    <2>4. /\ Interrupted' = 6 + MostBuffers
          /\ Undisturbed' = 4 + MostBuffers + 7 * Turns' + 5
      BY <2>1 DEF LoopLeft, TurnLeft
    <2>5. /\ Interrupted >= 10 + MostBuffers
          /\ Undisturbed >= 4 + MostBuffers + 7 * (timeouts_max + 2)
      <3>1. pc = "init" \/ (pc = "queue" /\ i = n_buffers /\ i \in Nat)
        BY <1>5 DEF InitRead, StreamOn, Inv
      <3>2. QED
        BY <2>1, <3>1
    <2>6. QED
      BY <2>1, <2>3, <2>4, <2>5, StepsCounted DEF Counted
  <1>6. QED
    BY <1>1, <1>2, <1>3, <1>4, <1>5 DEF Setup

LEMMA ExitNears ==
  ASSUME Inv, Exit, pc \notin Ended
  PROVE  Nears
  <1>1. Interrupted' = 0 /\ Undisturbed' = 0
    BY DEF Exit, Interrupted, Undisturbed, StartUp, InLoop, Waiting, CleanUp
  <1>2. QED
    BY <1>1, StepsCounted DEF Counted, Nears

LEMMA LoopNears ==
  ASSUME Inv, Grab
  PROVE  Nears
  <1> USE DEF options, memory, lent, counters
  <1>0. /\ pc \in InLoop /\ MostBuffers \in Nat /\ Turns \in Nat /\ timeout_count \in Nat
        /\ Undisturbed = 4 + MostBuffers + 7 * Turns + TurnLeft
        /\ Interrupted = 4 + MostBuffers + LoopLeft
    BY BuffersSuffice, StepsCounted DEF Counted, Inv, TypeOK, Grab, NextFrame, Check, Readable,
       TimedOut, SelectTimeout, TryAgain, ReadImage, DequeueBuffer, ProcessImage, RequeueBuffer,
       InLoop, StartUp, Waiting, Interrupted, Undisturbed
  <1>1. CASE pc' \in InLoop
    <2>1. /\ Undisturbed' = 4 + MostBuffers + 7 * Turns' + TurnLeft'
          /\ Interrupted' = 4 + MostBuffers + LoopLeft'
      BY <1>1 DEF InLoop, StartUp, Waiting, Interrupted, Undisturbed
    <2>2. s_interrupted => LoopLeft' < LoopLeft
      <3>1. CASE NextFrame
        <4>1. LoopLeft = 2 /\ LoopLeft' = 1
          BY <1>1, <3>1 DEF NextFrame, LoopLeft, InLoop, Waiting
        <4>2. QED
          BY <4>1
      <3>2. CASE Check
        BY <1>1, <3>2 DEF Check, InLoop, Waiting
      <3>3. CASE Readable \/ TimedOut \/ SelectTimeout
        <4>1. LoopLeft = 6 /\ LoopLeft' = 5
          BY <1>1, <3>3 DEF Readable, TimedOut, SelectTimeout, Exit, LoopLeft, InLoop, Waiting
        <4>2. QED
          BY <4>1
      <3>4. CASE TryAgain \/ ReadImage \/ DequeueBuffer
        <4>1. LoopLeft = 5 /\ LoopLeft' \in {1, 4}
          BY <3>4 DEF TryAgain, ReadImage, DequeueBuffer, LoopLeft
        <4>2. QED
          BY <4>1
      <3>5. CASE ProcessImage
        <4>1. LoopLeft = 4 /\ LoopLeft' \in {2, 3}
          BY <3>5 DEF ProcessImage, LoopLeft
        <4>2. QED
          BY <4>1
      <3>6. CASE RequeueBuffer
        <4>1. LoopLeft = 3 /\ LoopLeft' = 2
          BY <3>6 DEF RequeueBuffer, LoopLeft
        <4>2. QED
          BY <4>1
      <3>7. QED
        BY <3>1, <3>2, <3>3, <3>4, <3>5, <3>6 DEF Grab
    <2>3. \/ Turns' = Turns /\ TurnLeft' < TurnLeft
          \/ Turns' = Turns - 1
      <3>1. CASE NextFrame \/ Check \/ Readable \/ TryAgain \/ ProcessImage
        BY <1>1, <3>1 DEF NextFrame, Check, Readable, TryAgain, ProcessImage, InLoop, Waiting,
           Turns, TurnLeft, Ready
      <3>2. CASE TimedOut
        BY <1>0, <3>2, FilledFinite DEF TimedOut, Turns, Inv
      <3>3. CASE ReadImage
        BY <1>0, <3>3, FilledFinite DEF ReadImage, Turns, Inv
      <3>4. CASE DequeueBuffer
        BY <1>0, <3>4, FilledFinite DEF DequeueBuffer, Turns, Inv
      <3>5. CASE RequeueBuffer
        BY <3>5 DEF RequeueBuffer, Turns, TurnLeft, Ready
      <3>6. CASE SelectTimeout
        BY <1>1, <3>6 DEF SelectTimeout, Exit, InLoop, Waiting
      <3>7. QED
        BY <3>1, <3>2, <3>3, <3>4, <3>5, <3>6 DEF Grab
    <2>4. TurnLeft \in 1 .. 7 /\ TurnLeft' \in 0 .. 7 /\ LoopLeft \in 0 .. 6 /\ LoopLeft' \in 0 .. 6
      BY <1>0 DEF TurnLeft, LoopLeft, InLoop, Waiting
    <2>5. QED
      <3>1. PICK turns, turn, loop : turns = Turns' /\ turn = TurnLeft' /\ loop = LoopLeft'
        OBVIOUS
      <3>2. /\ Undisturbed' = 4 + MostBuffers + 7 * turns + turn
            /\ Interrupted' = 4 + MostBuffers + loop
            /\ s_interrupted => loop < LoopLeft
            /\ (turns = Turns /\ turn < TurnLeft) \/ turns = Turns - 1
            /\ turn \in 0 .. 7 /\ loop \in 0 .. 6
        BY <2>1, <2>2, <2>3, <2>4, <3>1, Zenon
      <3>3. 4 + MostBuffers + 7 * turns + turn < Undisturbed
        <4>1. CASE turns = Turns /\ turn < TurnLeft
          BY <1>0, <2>4, <3>2, <4>1
        <4>2. CASE turns = Turns - 1
          <5>1. turn \in 0 .. 7 /\ TurnLeft \in 1 .. 7
            BY <2>4, <3>2
          <5>2. 7 * turns + turn < 7 * Turns + TurnLeft
            BY <1>0, <4>2, <5>1
          <5>3. QED
            BY <1>0, <4>2, <5>1, <5>2
        <4>3. QED
          BY <3>2, <4>1, <4>2
      <3>4. ASSUME s_interrupted PROVE 4 + MostBuffers + loop < Interrupted
        BY <1>0, <2>4, <3>2, <3>4
      <3>5. QED
        BY <3>2, <3>3, <3>4, Zenon DEF Nears
  <1>2. CASE pc' \notin InLoop
    <2>1. SelectTimeout \/ pc' = "stop"
      BY <1>2 DEF Grab, NextFrame, Check, Readable, TimedOut, TryAgain, ReadImage,
         DequeueBuffer, ProcessImage, RequeueBuffer, InLoop, Waiting
    <2>2. CASE SelectTimeout
      BY <2>2, ExitNears DEF SelectTimeout, Ended
    <2>3. CASE pc' = "stop"
      <3>1. Interrupted' = 4 + MostBuffers /\ Undisturbed' = 4 + MostBuffers
        BY <2>3 DEF Interrupted, Undisturbed, InLoop, StartUp, Waiting, CleanUp
      <3>2. LoopLeft \in 1 .. 6 /\ TurnLeft \in 1 .. 7
        BY <1>0 DEF LoopLeft, TurnLeft, InLoop, Waiting
      <3>3. QED
        BY <1>0, <3>1, <3>2 DEF Nears
    <2>4. QED
      BY <2>1, <2>2, <2>3
  <1>3. QED
    BY <1>1, <1>2

LEMMA CleanUpNears ==
  ASSUME Inv, Shutdown
  PROVE  Nears
  <1> USE BuffersSuffice DEF options, memory, lent, counters, Interrupted, Undisturbed, InLoop,
          StartUp, Waiting, CleanUp, Nears
  <1>1. CASE StopCapturing
    BY <1>1 DEF StopCapturing, Inv, TypeOK, Memory
  <1>2. CASE UninitDevice
    <2>1. i \in Nat /\ n_buffers \in Nat /\ pc = "uninit"
      BY <1>2 DEF UninitDevice, Inv, TypeOK
    <2>2. CASE io # "read" /\ i < n_buffers
      BY <1>2, <2>1, <2>2 DEF UninitDevice
    <2>3. CASE ~(io # "read" /\ i < n_buffers)
      BY <1>2, <2>1, <2>3 DEF UninitDevice
    <2>4. QED
      BY <2>2, <2>3
  <1>3. CASE CloseDevice
    BY <1>3 DEF CloseDevice
  <1>4. CASE CloseZmq
    BY <1>4 DEF CloseZmq
  <1>5. QED
    BY <1>1, <1>2, <1>3, <1>4 DEF Shutdown

LEMMA ProgramNears ==
  ASSUME Inv, Inv', Program
  PROVE  Nears
  <1>1. CASE DriverFails
    BY <1>1, ExitNears DEF DriverFails
  <1>2. QED
    BY <1>1, StartUpNears, LoopNears, CleanUpNears DEF Program

LEMMA DeliveredNears ==
  ASSUME Delivered
  PROVE  Remaining' < Remaining
  <1>1. Interrupted = 1 /\ Interrupted' = 0 /\ Undisturbed = 1 /\ Undisturbed' = 0
        /\ s_interrupted' = s_interrupted
    BY DEF Delivered, Interrupted, Undisturbed, StartUp, InLoop, Waiting, CleanUp
  <1>2. AfterSignal \in Nat
    BY BuffersSuffice DEF AfterSignal
  <1>3. AfterSignal' = AfterSignal
    BY DEF AfterSignal
  <1>4. QED
    BY <1>1, <1>2, <1>3 DEF Remaining

LEMMA InterruptNears ==
  ASSUME Inv, Interrupt
  PROVE  Remaining' <= Remaining
  <1> USE StepsCounted DEF Counted
  <1>1. s_interrupted' = TRUE /\ Remaining' = Interrupted' /\ MostBuffers \in Nat
    BY BuffersSuffice DEF Interrupt, Remaining
  <1>2. Interrupted' \in 0 .. Interrupted
    <2>1. CASE pc' = pc
      <3>1. Interrupted' = Interrupted
        BY <2>1 DEF Interrupt, options, memory, Interrupted, StartLeft, LoopLeft, CleanUp, Wanted
      <3>2. QED
        BY <3>1
    <2>2. CASE pc = "select" /\ pc' = "check"
      <3>1. Interrupted = 10 + MostBuffers /\ Interrupted' = 5 + MostBuffers
        BY <1>1, <2>2 DEF Interrupted, StartUp, InLoop, Waiting, LoopLeft
      <3>2. QED
        BY <1>1, <3>1
    <2>3. CASE pc = "linger" /\ pc' = "done"
      <3>1. Interrupted = 1 /\ Interrupted' = 0
        BY <1>1, <2>3 DEF Interrupted, StartUp, InLoop, Waiting, CleanUp
      <3>2. QED
        BY <3>1
    <2>4. QED
      BY <2>1, <2>2, <2>3 DEF Interrupt
  <1>3. Remaining >= Interrupted
    BY <1>1 DEF Remaining, AfterSignal
  <1>4. Remaining \in Nat /\ Interrupted \in Nat
    BY <1>1 DEF Remaining, AfterSignal
  <1>5. PICK n \in 0 .. Interrupted : n = Interrupted'
    BY <1>2
  <1>6. n <= Remaining
    BY <1>3, <1>4
  <1>7. QED
    BY <1>1, <1>5, <1>6, Zenon

LEMMA CaptureDelays ==
  ASSUME Inv, Capture
  PROVE  Remaining' <= Remaining + (IF s_interrupted THEN 0 ELSE 7)
  <1> USE StepsCounted DEF Counted
  <1>1. /\ UNCHANGED <<pc, s_interrupted, io, granted, n_buffers, i, timeout_count, timeouts_max>>
        /\ MostBuffers \in Nat
    BY BuffersSuffice DEF Capture, options, memory, counters
  <1>2. StartLeft' = StartLeft /\ LoopLeft' = LoopLeft /\ CleanUp' = CleanUp
    BY <1>1 DEF StartLeft, LoopLeft, CleanUp, Wanted
  <1>3. CASE s_interrupted
    <2>1. Remaining' = Interrupted' /\ Interrupted' = Interrupted /\ Remaining = Interrupted
      BY <1>1, <1>2, <1>3 DEF Remaining, Interrupted
    <2>2. QED
      BY <1>3, <2>1
  <1>4. CASE ~s_interrupted
    <2>1. Undisturbed' \in Nat /\ Undisturbed' <= Undisturbed + 7
      <3>1. CASE pc \in InLoop
        <4>1. Turns' \in {Turns, Turns + 1}
          <5>1. avail \in BOOLEAN /\ timeout_count \in Nat
            BY DEF Inv, TypeOK
          <5>2. CASE avail' = TRUE /\ UNCHANGED <<queued, filled>>
            BY <5>1, <5>2, <1>1, FilledFinite DEF Turns, Inv
          <5>3. CASE (\E b \in queued : queued' = queued \ {b} /\ filled' = filled \cup {b})
                     /\ UNCHANGED avail
            <6>1. PICK b \in queued : filled' = filled \cup {b}
              BY <5>3
            <6>2. b \notin filled
              BY DEF Inv, Lent
            <6>3. QED
              BY <5>1, <5>3, <6>1, <6>2, <1>1, FilledFinite DEF Turns, Inv
          <5>4. QED
            BY <5>2, <5>3 DEF Capture
        <4>2. TurnLeft' \in 0 .. TurnLeft
          <5>1. Ready => Ready'
            BY <1>1 DEF Capture, Ready
          <5>2. QED
            BY <5>1, <1>1, <3>1 DEF TurnLeft, InLoop, Waiting
        <4>3. PICK turns \in {Turns, Turns + 1}, turn \in 0 .. TurnLeft :
                turns = Turns' /\ turn = TurnLeft'
          BY <4>1, <4>2
        <4>4. /\ Undisturbed = 4 + MostBuffers + 7 * Turns + TurnLeft
              /\ Undisturbed' = 4 + MostBuffers + 7 * turns + turn
          BY <1>1, <3>1, <4>3 DEF Undisturbed, InLoop, StartUp, Waiting
        <4>5. QED
          BY <1>1, <4>4
      <3>2. CASE pc \notin InLoop
        <4>1. Undisturbed' = Undisturbed
          BY <1>1, <1>2, <3>2 DEF Undisturbed
        <4>2. QED
          BY <4>1
      <3>3. QED
        BY <3>1, <3>2
    <2>2. Remaining' = AfterSignal + Undisturbed' /\ Remaining = AfterSignal + Undisturbed
      BY <1>1, <1>4 DEF Remaining, AfterSignal
    <2>3. PICK n \in Nat : n = Undisturbed'
      BY <2>1
    <2>4. n <= Undisturbed + 7 /\ Remaining' = AfterSignal + n
      BY <2>1, <2>2, <2>3, Zenon
    <2>5. AfterSignal \in Nat
      BY <1>1 DEF AfterSignal
    <2>6. QED
      BY <1>4, <2>2, <2>4, <2>5
  <1>5. QED
    BY <1>3, <1>4

(* The end is never further than a number of the program's own steps: once *)
(* it is interrupted, no further than it takes to set up what it has not,  *)
(* to finish a frame and to give every buffer back.                        *)
THEOREM EndInSight ==
  Spec => [](Remaining \in Nat /\ (s_interrupted => Remaining <= 14 + 3 * MostBuffers))
  <1>1. Inv => Remaining \in Nat /\ (s_interrupted => Remaining <= 14 + 3 * MostBuffers)
    BY StepsCounted, BuffersSuffice DEF Counted, Remaining, AfterSignal
  <1>2. QED
    BY <1>1, SafeSpecInv, PTL DEF Spec

(* Every step of the program brings it nearer, whatever the driver answers *)
(* and also when it fails; a signal never takes it further away, an image  *)
(* only while there has been no signal, and subscribers by no step at all. *)
(* What InterruptEnds and SilenceEnds add to this is that the program      *)
(* takes its steps.                                                        *)
THEOREM EveryStepNearsEnd ==
  Spec => [][/\ Program => Remaining' < Remaining
             /\ Delivered => Remaining' < Remaining
             /\ Interrupt => Remaining' <= Remaining
             /\ Capture => Remaining' <= Remaining + (IF s_interrupted THEN 0 ELSE 7)]_vars
  <1>1. Inv /\ Inv' /\ Program => Remaining' < Remaining
    <2> SUFFICES ASSUME Inv, Inv', Program PROVE Remaining' < Remaining
      OBVIOUS
    <2>1. s_interrupted' = s_interrupted
      BY DEF Program, Setup, OpenDevice, InitRead, RequestBuffers, Allocate, QueueBuffer, StreamOn,
         Grab, NextFrame, Check, Readable, TimedOut, SelectTimeout, TryAgain, ReadImage,
         DequeueBuffer, ProcessImage, RequeueBuffer, Shutdown, StopCapturing, UninitDevice,
         CloseDevice, CloseZmq, DriverFails, Exit
    <2>2. Nears /\ Counted /\ Counted'
      BY ProgramNears, StepsCounted, StepsCountedNext
    <2>3. CASE s_interrupted
      BY <2>1, <2>2, <2>3 DEF Remaining, Nears
    <2>4. CASE ~s_interrupted
      <3>1. PICK n \in Nat : n = Undisturbed'
        BY <2>2 DEF Counted
      <3>2. Remaining' = AfterSignal + n /\ n < Undisturbed
        BY <2>1, <2>2, <2>4, <3>1 DEF Remaining, AfterSignal, Nears
      <3>3. AfterSignal \in Nat /\ Undisturbed \in Nat
        BY <2>2, BuffersSuffice DEF AfterSignal, Counted
      <3>4. Remaining = AfterSignal + Undisturbed
        BY <2>4 DEF Remaining
      <3>5. QED
        BY <3>2, <3>3, <3>4
    <2>5. QED
      BY <2>3, <2>4
  <1>2. Inv /\ Inv' /\ [Next]_vars =>
          [/\ Program => Remaining' < Remaining
           /\ Delivered => Remaining' < Remaining
           /\ Interrupt => Remaining' <= Remaining
           /\ Capture => Remaining' <= Remaining + (IF s_interrupted THEN 0 ELSE 7)]_vars
    BY <1>1, DeliveredNears, InterruptNears, CaptureDelays
  <1>3. QED
    BY <1>2, SafeSpecInv, PTL DEF Spec, SafeSpec
=============================================================================
