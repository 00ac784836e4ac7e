----------------------------- MODULE ImuReceiver -----------------------------
(***************************************************************************)
(* The IMU thread (init_imu) and the x-IMU decoder (processNewChar).       *)
(*                                                                         *)
(* The x-IMU streams packets as frames of 7-bit characters, the last of    *)
(* which carries the framing bit.  The thread reads a character at a time, *)
(* and publishes an orientation when a framing character ends a frame that *)
(* the decoder takes for a quaternion packet of the right size; there is   *)
(* no checksum.  Any character may be lost: on the line, while the cable   *)
(* is out, in the two seconds before a reconnect, and before the program   *)
(* started.  Nothing resets the decoder but a framing character.           *)
(*                                                                         *)
(* The contents of the buffer are abstracted to two facts: which packet    *)
(* header its first two cells spell, and whether the cells written since   *)
(* the index was last 0 hold the frame that is now arriving, in place.     *)
(***************************************************************************)
EXTENDS Integers, SerialPort

(* PacketLengths: bytes of the packets the device may send (raw and        *)
(* calibrated packets of a kind have one length).                          *)
LEN == [error |-> 4, command |-> 6, readRegister |-> 4, writeRegister |-> 8,
        readDateTime |-> 2, writeDateTime |-> 8, battery |-> 6, inertial |-> 20,
        quaternion |-> 10, digital |-> 4, analogue |-> 18, pwm |-> 10, adxl |-> 26]

CONSTANT Kinds    \* the kinds of packet the device sends

ASSUME KindsAssumption == Kinds \subseteq DOMAIN LEN /\ "quaternion" \in Kinds

VARIABLES kind, pos,   \* the device's frame, and the character of it that is next
          plugged, fd, \* the cable, and imu_fd
          bufIndex,    \* unsigned char: the next cell of buf
          head,        \* the header that buf[0] and buf[1] spell
          whole,       \* buf[0 .. bufIndex-1] are the first characters of this frame
          lost,        \* characters lost since a framing character was received, to 2
          vehicle_orientation  \* what it was computed from

device == <<kind, pos>>
decoder == <<bufIndex, head, whole>>
vars == <<device, plugged, fd, decoder, lost, vehicle_orientation>>

CELLS == 256        \* buf[256]; its index wraps
MaxLost == 2        \* the bound of lost

(* Characters of a frame of n bytes: seven bits in each. *)
Chars(n) == (8 * n + 6) \div 7
Last == pos = Chars(LEN[kind]) - 1

(* Slips that each break a property below; no action uses them. *)
PacketSizeUnfolded(i) == i - 1
NextIndexNoWrap(i) == i + 1
FitsAnySize(k, i) == k = "quaternion"

(* Bytes of a packet that ended with the character before index i. *)
PacketSize(i) == (i - 1) - ((i - 1) \div 8)

NextIndex(i) == (i + 1) % CELLS

(* A packet of kind k, ended at index i, is decoded as an orientation. *)
Fits(k, i) == k = "quaternion" /\ PacketSize(i) = LEN[k]

(* The header in the buffer once the character at pos is stored: both of   *)
(* the first two cells have a part in it.                                  *)
Head == CASE bufIndex = 0 -> IF pos = 0 THEN kind ELSE "garbled"
          [] bufIndex = 1 -> IF whole /\ pos = 1 THEN head ELSE "garbled"
          [] OTHER -> head

(* The kinds of packet a header may be decoded as. *)
Decoded(h) == IF h = "garbled" THEN DOMAIN LEN ELSE {h}

Whole == whole /\ pos = bufIndex

TypeOK == /\ kind \in Kinds /\ pos \in 0 .. (Chars(LEN[kind]) - 1)
          /\ plugged \in BOOLEAN /\ fd \in Descriptors
          /\ bufIndex \in 0 .. (CELLS - 1)
          /\ head \in DOMAIN LEN \cup {"garbled"} /\ whole \in BOOLEAN
          /\ lost \in 0 .. MaxLost
          /\ vehicle_orientation \in {"initial", "sample", "mixture"}

(* The program starts with the device in the middle of any frame. *)
Init == /\ kind \in Kinds /\ pos \in 0 .. (Chars(LEN[kind]) - 1)
        /\ plugged \in BOOLEAN /\ fd = Opened(plugged)
        /\ bufIndex = 0 /\ head = "garbled" /\ whole = TRUE
        /\ lost = IF pos <= MaxLost THEN pos ELSE MaxLost
        /\ vehicle_orientation = "initial"
-----------------------------------------------------------------------------
(* The device goes on to its next character, after the last one to a new   *)
(* frame of any kind.                                                      *)
Advance == IF Last THEN kind' \in Kinds /\ pos' = 0
                   ELSE kind' = kind /\ pos' = pos + 1

(* The thread receives a character that ends no frame. *)
Store ==
  /\ Accepts(fd) /\ ~Last
  /\ Advance
  /\ bufIndex' = NextIndex(bufIndex)
  /\ head' = IF bufIndex' = 0 THEN "garbled" ELSE Head
  /\ whole' = (bufIndex' = 0 \/ Whole)
  /\ UNCHANGED <<plugged, fd, lost, vehicle_orientation>>

(* What a packet that is decoded as a quaternion publishes. *)
Published == IF Whole THEN "sample" ELSE "mixture"

(* The missing reset: the next frame goes behind this one.  A slip. *)
StartAgainNot == bufIndex' = NextIndex(bufIndex) /\ head' = Head /\ whole' = FALSE

(* The decoder starts again at the first cell. *)
StartAgain == bufIndex' = 0 /\ head' = "garbled" /\ whole' = TRUE

(* It receives the framing character: the packet is decoded, and published *)
(* if it fits; in any case the decoder starts again.                       *)
EndFrame ==
  /\ Accepts(fd) /\ Last
  /\ Advance
  /\ \E k \in Decoded(Head) :
       vehicle_orientation' = IF Fits(k, NextIndex(bufIndex)) THEN Published
                                                              ELSE vehicle_orientation
  /\ StartAgain
  /\ lost' = 0
  /\ UNCHANGED <<plugged, fd>>

(* A character is lost.  If it is the last of its frame, what the buffer   *)
(* holds of that frame will be continued with the next one.                *)
Lose ==
  /\ Advance
  /\ whole' = IF Last THEN bufIndex = 0 ELSE whole
  /\ lost' = IF lost < MaxLost THEN lost + 1 ELSE MaxLost
  /\ UNCHANGED <<plugged, fd, bufIndex, head, vehicle_orientation>>

(* The probe that follows every read fails: close, wait, open again. *)
Reconnect ==
  /\ ~Accepts(fd)
  /\ fd' = AfterWrite(fd, plugged)
  /\ UNCHANGED <<device, plugged, decoder, lost, vehicle_orientation>>

(* The cable of the IMU is pulled out or put back. *)
Replug ==
  /\ plugged' = ~plugged
  /\ fd' = IF plugged THEN Orphaned(fd) ELSE fd
  /\ UNCHANGED <<device, decoder, lost, vehicle_orientation>>

Next == Store \/ EndFrame \/ Lose \/ Reconnect \/ Replug

(* The device streams and the thread loops.  Nothing need be lost. *)
Fairness == WF_vars(Store) /\ WF_vars(EndFrame) /\ WF_vars(Reconnect)

SafeSpec == Init /\ [][Next]_vars

Spec == SafeSpec /\ Fairness
-----------------------------------------------------------------------------
(* A framing character puts the decoder in step with the device, however   *)
(* long it was lost: the next frame, if it arrives complete and is a       *)
(* quaternion, is published as it was sent.                                *)
CompleteFramePublished ==
  [][EndFrame /\ lost = 0 /\ kind = "quaternion" => vehicle_orientation' = "sample"]_vars

(* The size check stands in for the missing checksum as far as this: a     *)
(* mixture of frames, or of misplaced characters, is never published       *)
(* unless two characters have been lost since the last framing character.  *)
OneLossDetected ==
  [][vehicle_orientation' = "mixture" /\ vehicle_orientation # "mixture" => lost >= 2]_vars

(* Unlike the Arduino threads, which only write on a change, the IMU       *)
(* thread probes in every turn: with the cable back it always reconnects.  *)
ImuReconnects == <>[]plugged => <>[](fd = "live")

(* A mixture does not outlive its cause: when nothing more is lost and     *)
(* quaternions keep coming, the orientation is a sample for good.          *)
OrientationHeals ==
  (<>[][~Lose]_vars /\ <>[]plugged /\ []<>(kind = "quaternion"))
    => <>[](vehicle_orientation = "sample")
=============================================================================
