------------------------- MODULE ImuReceiver_proofs -------------------------
(***************************************************************************)
(* Proofs about ImuReceiver: framing and the size check, for any kinds of  *)
(* packet of PacketLengths and any pattern of losses.                      *)
(***************************************************************************)
EXTENDS ImuReceiver, TLAPS

(* The size check of processNewChar accepts what the device sends: the     *)
(* packet size computed from the length of a frame of n bytes is n.        *)
THEOREM SizeOfFrame == ASSUME NEW n \in Nat \ {0} PROVE PacketSize(Chars(n)) = n
BY DEF PacketSize, Chars

(* The sizes of PacketLengths, as far as the proofs use them.              *)
LEMMA Lengths ==
  ASSUME NEW k \in DOMAIN LEN
  PROVE  /\ LEN[k] \in {2, 4, 6, 8, 10, 18, 20, 26}
         /\ Chars(LEN[k]) \in 3 .. 30
         /\ PacketSize(Chars(LEN[k]) - 1) # 10
<1>1. LEN[k] \in {2, 4, 6, 8, 10, 18, 20, 26}
  BY DEF LEN
<1> QED BY <1>1 DEF Chars, PacketSize

LEMMA Quaternion == LEN["quaternion"] = 10
BY DEF LEN

LEMMA TypeInit == Init => TypeOK
BY KindsAssumption, Lengths DEF Init, TypeOK, Opened, Descriptors, MaxLost, CELLS

LEMMA TypeStep == TypeOK /\ [Next]_vars => TypeOK'
<1> SUFFICES ASSUME TypeOK, [Next]_vars PROVE TypeOK'
  OBVIOUS
<1> USE KindsAssumption
<1>0. Advance => /\ kind' \in Kinds
                 /\ pos' \in 0 .. (Chars(LEN[kind']) - 1)
  BY Lengths DEF TypeOK, Advance, Last
<1>1. CASE Store
  <2>1. bufIndex' \in 0 .. (CELLS - 1)
    BY <1>1 DEF Store, TypeOK, NextIndex, CELLS
  <2>2. head' \in DOMAIN LEN \cup {"garbled"}
    BY <1>1 DEF Store, TypeOK, Head
  <2>3. whole' \in BOOLEAN
    BY <1>1 DEF Store
  <2> QED BY <1>0, <1>1, <2>1, <2>2, <2>3 DEF Store, TypeOK
<1>2. CASE EndFrame
  <2>1. vehicle_orientation' \in {"initial", "sample", "mixture"}
    BY <1>2, Zenon DEF EndFrame, TypeOK, Published
  <2> QED BY <1>0, <1>2, <2>1 DEF EndFrame, StartAgain, TypeOK, MaxLost, CELLS
<1>3. CASE Lose
  <2>1. whole' \in BOOLEAN
    BY <1>3 DEF Lose, TypeOK
  <2>2. lost' \in 0 .. MaxLost
    BY <1>3 DEF Lose, TypeOK, MaxLost
  <2> QED BY <1>0, <1>3, <2>1, <2>2 DEF Lose, TypeOK
<1>4. CASE Reconnect
  BY <1>4 DEF Reconnect, TypeOK, AfterWrite, Opened, Descriptors, device, decoder
<1>5. CASE Replug
  BY <1>5 DEF Replug, TypeOK, Orphaned, Descriptors, device, decoder
<1>6. CASE UNCHANGED vars
  BY <1>6 DEF vars, TypeOK, device, decoder
<1> QED BY <1>1, <1>2, <1>3, <1>4, <1>5, <1>6 DEF Next

(* Every variable keeps its type; the index never leaves the buffer.       *)
THEOREM ImuTypeOK == SafeSpec => []TypeOK
BY TypeInit, TypeStep, PTL DEF SafeSpec
-----------------------------------------------------------------------------
(* With nothing lost since the last framing character the buffer holds the *)
(* frame that is arriving.                                                 *)
InStep == lost = 0 => /\ bufIndex = pos /\ whole
                      /\ pos >= 1 => head = kind

(* With one character lost, either it was one of this frame, and the       *)
(* buffer is one character behind; or it was the framing character of the  *)
(* frame before, whose header the buffer still has.                        *)
Behind == pos >= 1 /\ bufIndex = pos - 1
Joined == head \in DOMAIN LEN /\ bufIndex = Chars(LEN[head]) - 1 + pos
OneOff == lost = 1 => Behind \/ Joined

IInv == TypeOK /\ InStep /\ OneOff

LEMMA InductiveInit == Init => IInv
<1> SUFFICES ASSUME Init PROVE IInv
  OBVIOUS
<1>1. TypeOK
  BY TypeInit
<1>2. pos \in Int
  BY KindsAssumption, Lengths DEF Init
<1> QED BY <1>1, <1>2 DEF Init, IInv, InStep, OneOff, Behind, MaxLost

LEMMA InductiveStep == IInv /\ [Next]_vars => IInv'
<1> SUFFICES ASSUME IInv, TypeOK', [Next]_vars PROVE InStep' /\ OneOff'
  BY TypeStep DEF IInv
<1> USE KindsAssumption
<1>0. /\ kind \in DOMAIN LEN /\ kind' \in DOMAIN LEN
      /\ pos \in 0 .. 29 /\ bufIndex \in 0 .. 255
  BY Lengths DEF IInv, TypeOK, CELLS
<1>1. CASE Store
  <2>1. kind' = kind /\ pos' = pos + 1 /\ lost' = lost
    BY <1>1 DEF Store, Advance
  <2>2. CASE lost = 0
    <3>1. bufIndex = pos /\ whole /\ (pos >= 1 => head = kind)
      BY <2>2 DEF IInv, InStep
    <3>2. NextIndex(bufIndex) = pos + 1
      BY <1>0, <3>1 DEF NextIndex, CELLS
    <3>3. Whole /\ Head = kind
      BY <1>0, <3>1 DEF Whole, Head
    <3>4. bufIndex' = pos + 1 /\ bufIndex' # 0
      BY <1>0, <1>1, <3>2 DEF Store
    <3>5. whole' /\ head' = kind
      BY <1>1, <3>3, <3>4 DEF Store
    <3> QED BY <2>1, <2>2, <3>4, <3>5 DEF InStep, OneOff
  <2>3. CASE lost = 1
    <3>1. Behind \/ Joined
      BY <2>3 DEF IInv, OneOff
    <3>2. bufIndex <= 60
      BY <1>0, <3>1, Lengths DEF Behind, Joined
    <3>3. bufIndex' = bufIndex + 1
      BY <1>0, <1>1, <3>2 DEF Store, NextIndex, CELLS
    <3>4. CASE Behind
      BY <1>0, <2>1, <2>3, <3>3, <3>4 DEF Behind, OneOff, InStep
    <3>5. CASE Joined
      <4>1. bufIndex >= 2
        BY <1>0, <3>5, Lengths DEF Joined
      <4>2. head' = head
        BY <1>0, <1>1, <3>3, <4>1 DEF Store, Head
      <4>3. Joined'
        BY <1>0, <2>1, <3>3, <3>5, <4>2, Lengths DEF Joined
      <4> QED BY <2>1, <2>3, <4>3 DEF OneOff, InStep
    <3> QED BY <3>1, <3>4, <3>5
  <2> QED BY <2>1, <2>2, <2>3 DEF InStep, OneOff
<1>2. CASE EndFrame
  BY <1>2 DEF EndFrame, StartAgain, Advance, InStep, OneOff
<1>3. CASE Lose
  <2>1. lost \in 0 .. 2 /\ lost' # 0 /\ (lost' = 1 => lost = 0)
    BY <1>3 DEF Lose, IInv, TypeOK, MaxLost
  <2>2. ASSUME lost = 0 PROVE Behind' \/ Joined'
    <3>1. bufIndex = pos /\ (pos >= 1 => head = kind) /\ bufIndex' = bufIndex /\ head' = head
      BY <1>3, <2>2 DEF Lose, IInv, InStep
    <3>2. CASE Last
      <4>1. pos = Chars(LEN[kind]) - 1 /\ pos' = 0
        BY <1>3, <3>2 DEF Lose, Advance, Last
      <4>2. pos >= 1
        BY <1>0, <4>1, Lengths
      <4> QED BY <1>0, <3>1, <4>1, <4>2 DEF Joined
    <3>3. CASE ~Last
      BY <1>0, <1>3, <3>1, <3>3 DEF Lose, Advance, Behind
    <3> QED BY <3>2, <3>3
  <2> QED BY <2>1, <2>2 DEF InStep, OneOff
<1>4. CASE Reconnect
  BY <1>4 DEF Reconnect, device, decoder, IInv, InStep, OneOff, Behind, Joined
<1>5. CASE Replug
  BY <1>5 DEF Replug, device, decoder, IInv, InStep, OneOff, Behind, Joined
<1>6. CASE UNCHANGED vars
  BY <1>6 DEF vars, device, decoder, IInv, InStep, OneOff, Behind, Joined
<1> QED BY <1>1, <1>2, <1>3, <1>4, <1>5, <1>6 DEF Next

LEMMA Inductive == SafeSpec => []IInv
BY InductiveInit, InductiveStep, PTL DEF SafeSpec
-----------------------------------------------------------------------------
(* A complete quaternion frame that follows a received framing character   *)
(* is published as it was sent.                                            *)
THEOREM CompleteFrameAlwaysPublished == SafeSpec => CompleteFramePublished
<1>1. IInv /\ EndFrame /\ lost = 0 /\ kind = "quaternion" => vehicle_orientation' = "sample"
  <2> SUFFICES ASSUME IInv, EndFrame, lost = 0, kind = "quaternion"
               PROVE  vehicle_orientation' = "sample"
    OBVIOUS
  <2>1. pos = 11
    BY Quaternion DEF EndFrame, Last, Chars
  <2>2. bufIndex = 11 /\ whole /\ head = "quaternion"
    BY <2>1 DEF IInv, InStep
  <2>3. Whole /\ Decoded(Head) = {"quaternion"}
    BY <2>1, <2>2 DEF Whole, Decoded, Head
  <2>4. Fits("quaternion", NextIndex(bufIndex))
    BY <2>2, Quaternion DEF Fits, PacketSize, NextIndex, CELLS
  <2> QED BY <2>3, <2>4 DEF EndFrame, Published
<1> QED BY <1>1, Inductive, PTL DEF CompleteFramePublished

(* No mixture is published unless two characters have been lost since the  *)
(* last framing character: what stands in for the missing checksum.        *)
THEOREM OneLossAlwaysDetected == SafeSpec => OneLossDetected
<1>1. IInv /\ [Next]_vars /\ vehicle_orientation' = "mixture" /\ vehicle_orientation # "mixture"
        => lost >= 2
  <2> SUFFICES ASSUME IInv, [Next]_vars,
                      vehicle_orientation' = "mixture", vehicle_orientation # "mixture"
               PROVE  lost >= 2
    OBVIOUS
  <2> USE KindsAssumption
  <2>1. EndFrame
    BY DEF Next, vars, Store, Lose, Reconnect, Replug
  <2>2. PICK k \in Decoded(Head) : Fits(k, NextIndex(bufIndex)) /\ ~Whole
    BY <2>1, Zenon DEF EndFrame, Published
  <2>3. k = "quaternion" /\ PacketSize(NextIndex(bufIndex)) = 10
    BY <2>2, Quaternion DEF Fits
  <2>4. /\ lost \in 0 .. 2 /\ kind \in DOMAIN LEN /\ bufIndex \in 0 .. 255
        /\ pos = Chars(LEN[kind]) - 1
    BY <2>1 DEF IInv, TypeOK, MaxLost, CELLS, EndFrame, Last
  <2>5. lost # 0
    BY <2>2 DEF IInv, InStep, Whole
  <2>6. ~(lost = 1 /\ Behind)
    <3> SUFFICES ASSUME lost = 1, Behind PROVE FALSE
      OBVIOUS
    <3>1. NextIndex(bufIndex) = Chars(LEN[kind]) - 1
      BY <2>4, Lengths DEF Behind, NextIndex, CELLS
    <3> QED BY <2>3, <2>4, <3>1, Lengths
  <2>7. ~(lost = 1 /\ Joined)
    <3> SUFFICES ASSUME lost = 1, Joined PROVE FALSE
      OBVIOUS
    <3>1. head \in DOMAIN LEN /\ bufIndex = Chars(LEN[head]) + Chars(LEN[kind]) - 2
      BY <2>4, Lengths DEF Joined
    <3>2. bufIndex \in 4 .. 58
      BY <2>4, <3>1, Lengths
    <3>3. Head = head /\ head # "garbled"
      BY <3>1, <3>2 DEF Head, LEN
    <3>4. head = "quaternion"
      BY <2>2, <2>3, <3>3 DEF Decoded
    <3>5. NextIndex(bufIndex) \in 14 .. 59
      BY <2>4, <3>1, <3>2, <3>4, Quaternion, Lengths DEF Chars, NextIndex, CELLS
    <3> QED BY <2>3, <3>5 DEF PacketSize
  <2> QED BY <2>4, <2>5, <2>6, <2>7 DEF IInv, OneOff
<1> QED BY <1>1, Inductive, PTL DEF OneLossDetected, SafeSpec

(* The safety half of OrientationHeals: an orientation that is a sample,   *)
(* with nothing lost since the last framing character, stays a sample      *)
(* until something is lost, whatever packets follow and however often the  *)
(* cable is pulled and put back in between two characters.                 *)
THEOREM HealedStaysHealed ==
  SafeSpec => [][lost = 0 /\ vehicle_orientation = "sample" /\ ~Lose
                   => lost' = 0 /\ vehicle_orientation' = "sample"]_vars
<1>1. IInv /\ [Next]_vars =>
        [lost = 0 /\ vehicle_orientation = "sample" /\ ~Lose
           => lost' = 0 /\ vehicle_orientation' = "sample"]_vars
  <2> SUFFICES ASSUME IInv, [Next]_vars, lost = 0, vehicle_orientation = "sample", ~Lose
               PROVE  lost' = 0 /\ vehicle_orientation' = "sample"
    OBVIOUS
  <2>1. CASE EndFrame
    <3>1. Whole
      BY <2>1 DEF IInv, InStep, Whole
    <3>2. Published = "sample"
      BY <3>1 DEF Published
    <3>3. vehicle_orientation' \in {Published, vehicle_orientation} /\ lost' = 0
      BY <2>1, Zenon DEF EndFrame
    <3> QED BY <3>2, <3>3
  <2>2. CASE Store \/ Reconnect \/ Replug \/ UNCHANGED vars
    BY <2>2 DEF Store, Reconnect, Replug, vars
  <2> QED BY <2>1, <2>2 DEF Next
<1> QED BY <1>1, Inductive, PTL DEF SafeSpec
=============================================================================
