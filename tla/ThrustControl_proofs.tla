------------------------ MODULE ThrustControl_proofs ------------------------
(***************************************************************************)
(* Proofs about ThrustControl, for any number of connections, any thrusts  *)
(* and controller outputs, and any faults.                                 *)
(***************************************************************************)
EXTENDS ThrustControl, FiniteSets, FiniteSetTheorems, TLAPS

(* What is on its way to vehicle_thrust was asked for by an operator. *)
ArmedAsked == \A w \in Workers : armed[w] # NoThrust => armed[w] \in OperatorThrust

(* Nobody acts before main has created the thread. *)
Created == /\ commanded => Done("workers")
           /\ started => Done("thruster")

(* The inductive invariant. *)
Inv == TypeOK /\ PrevIsSent /\ QuietStart /\ SurgeFromOneWriter /\ ArmedAsked /\ Created

(* The thrust is set before any of the threads is created. *)
LEMMA SetUpOrder ==
  ASSUME Inv
  PROVE  /\ ~Done("mode") => ~Done("thrust") /\ ~Done("workers")
         /\ ~Done("thrust") => ~Done("workers") /\ ~Done("thruster")
         /\ ~Done("workers") => ~Done("yaw") /\ ~Done("depth") /\ ~Done("thruster")
         /\ commanded => Done("thrust")
  BY DEF Inv, TypeOK, Done, SetUp, Created

(* int() of an integer number of halves is an integer, no further from 0. *)
LEMMA TruncType == \A x \in Int : Trunc(x) \in Int
  BY DEF Trunc

LEMMA CommandType == \A t \in Thrust : Command(t) \in Thrust
  BY TruncType DEF Thrust, Command

LEMMA ZeroType == Zero \in Thrust
  BY DEF Zero, Thrust

(* What opening, writing and pulling the cable make of a descriptor. *)
LEMMA DescriptorType ==
  ASSUME NEW f \in Descriptors, NEW p \in BOOLEAN
  PROVE  /\ Opened(p) \in Descriptors
         /\ AfterWrite(f, p) \in Descriptors
         /\ Orphaned(f) \in Descriptors
  BY DEF Descriptors, Opened, AfterWrite, Orphaned, Accepts

(* The values main gives the variables have the right types. *)
LEMMA BootType == /\ MODE_DISABLED \in Modes /\ MODE_MANUAL \in Modes
                  /\ Zero \in Thrust
                  /\ [w \in Workers |-> NoThrust] \in [Workers -> Thrust \cup {NoThrust}]
                  /\ "none" \in Descriptors
                  /\ 0 \in 0 .. SetUp.depth
                  /\ Garbage \subseteq Thrust
  BY ZeroType, ThrustAssumption DEF SetUp, Modes, MODE_DISABLED, MODE_MANUAL, MODE_AUTON_DEPTH, Descriptors

LEMMA InitInv == Init => Inv
  <1> SUFFICES ASSUME Init PROVE Inv
    OBVIOUS
  <1>1. TypeOK
    BY BootType DEF Init, TypeOK
  <1>2. PrevIsSent /\ QuietStart /\ ArmedAsked /\ Created
    BY DEF Init, PrevIsSent, QuietStart, ArmedAsked, Armed, Created, Done, SetUp
  <1>3. SurgeFromOneWriter
    BY DEF Init, SurgeFromOneWriter, SurgePairs, Done, SetUp
  <1> QED
    BY <1>1, <1>2, <1>3 DEF Inv

LEMMA SetThrustInv ==
  ASSUME Inv, NEW w \in Workers, SetThrust(w) PROVE Inv'
  <1> USE ThrustAssumption DEF Inv
  <1>1. PICK t \in OperatorThrust \cup {NoThrust} : armed' = [armed EXCEPT ![w] = t]
    BY DEF SetThrust
  <1>2. TypeOK'
    BY <1>1 DEF SetThrust, TypeOK
  <1>3. PrevIsSent' /\ QuietStart' /\ SurgeFromOneWriter' /\ Created'
    BY DEF SetThrust, PrevIsSent, QuietStart, SurgeFromOneWriter, Created, Done
  <1>4. ArmedAsked'
    BY <1>1 DEF TypeOK, ArmedAsked
  <1> QED
    BY <1>2, <1>3, <1>4

LEMMA StoreThrustInv ==
  ASSUME Inv, NEW w \in Workers, StoreThrust(w) PROVE Inv'
  <1> USE ThrustAssumption DEF Inv
  <1>1. armed[w] \in OperatorThrust
    BY DEF StoreThrust, ArmedAsked
  <1>2. TypeOK'
    BY <1>1 DEF StoreThrust, TypeOK
  <1>3. PrevIsSent' /\ ArmedAsked' /\ Created'
    BY DEF StoreThrust, PrevIsSent, ArmedAsked, TypeOK, Created, Done
  <1>4. QuietStart'
    BY DEF StoreThrust, QuietStart, Armed
  <1>5. SurgeFromOneWriter'
    BY <1>1 DEF StoreThrust, SurgeFromOneWriter, SurgePairs
  <1> QED
    BY <1>2, <1>3, <1>4, <1>5

LEMMA SetModeInv ==
  ASSUME Inv, NEW w \in Workers, SetMode(w) PROVE Inv'
  BY DEF Inv, SetMode, TypeOK, PrevIsSent, QuietStart, SurgeFromOneWriter, ArmedAsked,
         Created, Done

LEMMA TestInv ==
  ASSUME Inv, YawTest \/ DepthTest PROVE Inv'
  <1> USE DEF Inv
  <1>1. commanded
    BY SetUpOrder DEF QuietStart, YawTest, DepthTest, MODE_MANUAL, MODE_AUTON, MODE_AUTON_DEPTH
  <1>2. TypeOK'
    BY DEF YawTest, DepthTest, TypeOK
  <1>3. PrevIsSent' /\ QuietStart' /\ ArmedAsked'
    BY <1>1 DEF YawTest, DepthTest, PrevIsSent, QuietStart, ArmedAsked
  <1>4. SurgeFromOneWriter'
    BY DEF YawTest, DepthTest, SurgeFromOneWriter, Done
  <1>5. Created'
    BY DEF YawTest, DepthTest, Created, Done
  <1> QED
    BY <1>2, <1>3, <1>4, <1>5

LEMMA YawStoreInv ==
  ASSUME Inv, YawStore PROVE Inv'
  <1> USE ThrustAssumption DEF Inv
  <1>1. PICK o \in YawOutput :
          vehicle_thrust' = [vehicle_thrust EXCEPT !.surge_port = o.surge_port,
                                                   !.surge_starboard = o.surge_starboard]
    BY DEF YawStore
  <1>2. vehicle_thrust' \in Thrust /\ Surge(vehicle_thrust') = o
    BY <1>1 DEF TypeOK, Thrust, Surge
  <1>3. TypeOK'
    BY <1>2 DEF YawStore, TypeOK
  <1>4. SurgeFromOneWriter'
    BY <1>2 DEF YawStore, SurgeFromOneWriter, SurgePairs
  <1>5. PrevIsSent' /\ QuietStart' /\ ArmedAsked' /\ Created'
    BY DEF YawStore, PrevIsSent, QuietStart, ArmedAsked, Created, Done
  <1> QED
    BY <1>3, <1>4, <1>5

LEMMA DepthStoreInv ==
  ASSUME Inv, DepthStore PROVE Inv'
  <1> USE ThrustAssumption DEF Inv
  <1>1. PICK o \in DepthOutput : vehicle_thrust' = [vehicle_thrust EXCEPT !.heave_b = o]
    BY DEF DepthStore
  <1>2. vehicle_thrust' \in Thrust /\ Surge(vehicle_thrust') = Surge(vehicle_thrust)
    BY <1>1 DEF TypeOK, Thrust, Surge
  <1>3. TypeOK'
    BY <1>2 DEF DepthStore, TypeOK
  <1>4. SurgeFromOneWriter'
    BY <1>2 DEF DepthStore, SurgeFromOneWriter, Done
  <1>5. PrevIsSent' /\ QuietStart' /\ ArmedAsked' /\ Created'
    BY DEF DepthStore, PrevIsSent, QuietStart, ArmedAsked, Created, Done
  <1> QED
    BY <1>3, <1>4, <1>5

LEMMA ThrusterStartInv ==
  ASSUME Inv, ThrusterStart PROVE Inv'
  <1>1. TypeOK'
    BY DescriptorType DEF Inv, ThrusterStart, TypeOK
  <1>2. PrevIsSent' /\ QuietStart' /\ SurgeFromOneWriter' /\ ArmedAsked' /\ Created'
    BY DEF Inv, ThrusterStart, PrevIsSent, QuietStart, Armed, SurgeFromOneWriter, ArmedAsked,
           Created, Done
  <1> QED
    BY <1>1, <1>2 DEF Inv

LEMMA ThrusterCycleInv ==
  ASSUME Inv, ThrusterCycle PROVE Inv'
  <1> USE DEF Inv
  <1>1. commanded /\ Done("thrust")
    <2>1. Done("thrust")
      BY SetUpOrder DEF ThrusterCycle, Created
    <2> QED
      BY <2>1 DEF ThrusterCycle, QuietStart
  <1>2. TypeOK'
    BY DescriptorType, CommandType DEF ThrusterCycle, TypeOK
  <1>3. PrevIsSent'
    BY DEF ThrusterCycle, PrevIsSent, TypeOK
  <1>4. QuietStart' /\ SurgeFromOneWriter' /\ ArmedAsked' /\ Created'
    BY <1>1 DEF ThrusterCycle, QuietStart, SurgeFromOneWriter, ArmedAsked, Created, Done
  <1> QED
    BY <1>2, <1>3, <1>4

LEMMA ReplugInv ==
  ASSUME Inv, Replug PROVE Inv'
  <1>1. TypeOK'
    BY DescriptorType DEF Inv, Replug, TypeOK
  <1>2. PrevIsSent' /\ QuietStart' /\ SurgeFromOneWriter' /\ ArmedAsked' /\ Created'
    BY DEF Inv, Replug, PrevIsSent, QuietStart, Armed, SurgeFromOneWriter, ArmedAsked,
           Created, Done
  <1> QED
    BY <1>1, <1>2 DEF Inv

LEMMA MainStepInv ==
  ASSUME Inv, MainStep PROVE Inv'
  <1> USE DEF Inv
  <1>1. TypeOK'
    BY BootType DEF MainStep, TypeOK, Done, SetUp
  <1>2. QuietStart'
    BY DEF MainStep, QuietStart, Armed, TypeOK, Done, SetUp
  <1>3. SurgeFromOneWriter'
    BY DEF MainStep, SurgeFromOneWriter, SurgePairs, TypeOK, Done, SetUp
  <1>4. PrevIsSent' /\ ArmedAsked' /\ Created'
    BY DEF MainStep, PrevIsSent, ArmedAsked, Created, TypeOK, Done, SetUp
  <1> QED
    BY <1>1, <1>2, <1>3, <1>4

LEMMA RestartInv ==
  ASSUME Inv, Restart PROVE Inv'
  <1>1. TypeOK'
    BY BootType DEF Inv, Restart, TypeOK
  <1>2. PrevIsSent' /\ QuietStart' /\ ArmedAsked' /\ Created'
    BY DEF Restart, PrevIsSent, QuietStart, ArmedAsked, Armed, Created, Done, SetUp
  <1>3. SurgeFromOneWriter'
    BY DEF Restart, SurgeFromOneWriter, SurgePairs, Done, SetUp
  <1> QED
    BY <1>1, <1>2, <1>3 DEF Inv

LEMMA NextInv == Inv /\ [Next]_vars => Inv'
  <1> SUFFICES ASSUME Inv, [Next]_vars PROVE Inv'
    OBVIOUS
  <1>1. CASE \E w \in Workers : Worker(w)
    BY <1>1, SetThrustInv, StoreThrustInv, SetModeInv DEF Worker
  <1>2. CASE Controllers
    BY <1>2, TestInv, YawStoreInv, DepthStoreInv DEF Controllers
  <1>3. CASE ThrusterStart \/ ThrusterCycle
    BY <1>3, ThrusterStartInv, ThrusterCycleInv
  <1>4. CASE MainStep \/ Replug \/ Restart
    BY <1>4, MainStepInv, ReplugInv, RestartInv
  <1>5. CASE UNCHANGED vars
    BY <1>5 DEF vars, program, Inv, TypeOK, PrevIsSent, QuietStart, Armed,
                SurgeFromOneWriter, ArmedAsked, Created, Done
  <1> QED
    BY <1>1, <1>2, <1>3, <1>4, <1>5 DEF Next

LEMMA Invariance == Spec => []Inv
  BY InitInv, NextInv, PTL DEF Spec, SafeSpec

(* Modes, thrusts, descriptors and commands keep their types. *)
THEOREM ThrustTypeOK == Spec => []TypeOK
  BY Invariance, PTL DEF Inv

(* The thruster thread forgets a command only through a failed write. *)
THEOREM PrevIsSentAlways == Spec => []PrevIsSent
  BY Invariance, PTL DEF Inv

(* A program that has just started sends nothing until an operator acts. *)
THEOREM QuietStartAlways == Spec => []QuietStart
  BY Invariance, PTL DEF Inv

(* Port and starboard surge always come from the same writer. *)
THEOREM SurgeFromOneWriterAlways == Spec => []SurgeFromOneWriter
  BY Invariance, PTL DEF Inv
-----------------------------------------------------------------------------
(* One step of a vehicle that stays disabled. *)
LEMMA DisabledStep ==
  ASSUME Inv, [Next]_vars, Disabled, Disabled'
  PROVE  /\ Armed' \subseteq Armed /\ (yaw' => yaw) /\ (depth' => depth)
         /\ vehicle_thrust' # vehicle_thrust => <<Armed, yaw, depth>>' # <<Armed, yaw, depth>>
  <1> DEFINE Goal == /\ Armed' \subseteq Armed /\ (yaw' => yaw) /\ (depth' => depth)
                     /\ vehicle_thrust' # vehicle_thrust
                          => <<Armed, yaw, depth>>' # <<Armed, yaw, depth>>
  <1> USE ThrustAssumption DEF Inv, TypeOK, Disabled, MODE_DISABLED, MODE_MANUAL, MODE_AUTON,
          MODE_AUTON_DEPTH
  <1>1. ASSUME NEW w \in Workers, SetThrust(w) PROVE Goal
    <2>1. armed' = [armed EXCEPT ![w] = NoThrust]
      BY <1>1 DEF SetThrust
    <2> QED
      BY <1>1, <2>1 DEF SetThrust, Armed
  <1>2. ASSUME NEW w \in Workers, StoreThrust(w) PROVE Goal
    <2>1. w \in Armed /\ w \notin Armed' /\ Armed' \subseteq Armed
      BY <1>2 DEF StoreThrust, Armed
    <2> QED
      BY <1>2, <2>1 DEF StoreThrust
  <1>3. ASSUME NEW w \in Workers, SetMode(w) PROVE Goal
    BY <1>3 DEF SetMode, Armed
  <1>4. CASE Controllers
    <2>1. ~YawTest /\ ~DepthTest
      BY DEF YawTest, DepthTest
    <2>2. CASE YawStore
      BY <2>2 DEF YawStore, Armed
    <2>3. CASE DepthStore
      BY <2>3 DEF DepthStore, Armed
    <2> QED
      BY <1>4, <2>1, <2>2, <2>3 DEF Controllers
  <1>5. CASE ThrusterStart \/ ThrusterCycle \/ Replug
    BY <1>5 DEF ThrusterStart, ThrusterCycle, Replug, Armed
  <1>6. CASE MainStep
    BY <1>6 DEF MainStep, Armed, Done, SetUp
  <1>7. CASE Restart
    BY <1>7 DEF Restart, Done, SetUp
  <1>8. CASE UNCHANGED vars
    BY <1>8 DEF vars, program, Armed
  <1> QED
    BY <1>1, <1>2, <1>3, <1>4, <1>5, <1>6, <1>7, <1>8 DEF Next, Worker

(* After /set_mode 0 the writes still to come are those of the threads     *)
(* already past their mode test, one each.                                 *)
THEOREM LateWritesDrainAlways == Spec => LateWritesDrain
  <1>1. Inv /\ [Next]_vars =>
          [Disabled /\ Disabled' =>
             /\ Armed' \subseteq Armed /\ (yaw' => yaw) /\ (depth' => depth)
             /\ vehicle_thrust' # vehicle_thrust
                  => <<Armed, yaw, depth>>' # <<Armed, yaw, depth>>]_vars
    BY DisabledStep
  <1> QED
    BY <1>1, Invariance, PTL DEF Spec, SafeSpec, LateWritesDrain
-----------------------------------------------------------------------------
(* How far a disabled vehicle is from rest: each of those past their mode  *)
(* test has a store and a send to come, and a thrust may wait to be sent.  *)
One(b) == IF b THEN 1 ELSE 0
Unrest == 2 * (Cardinality(Armed) + One(yaw) + One(depth)) + One(prev # vehicle_thrust)

LEMMA OneType == \A b \in BOOLEAN : One(b) \in {0, 1}
  BY DEF One

LEMMA ArmedFinite ==
  ASSUME IsFiniteSet(Workers)
  PROVE  IsFiniteSet(Armed) /\ Cardinality(Armed) \in 0 .. Cardinality(Workers)
  <1>1. Armed \subseteq Workers
    BY DEF Armed
  <1> QED
    BY <1>1, FS_Subset, FS_CardinalityType

LEMMA UnrestType ==
  ASSUME IsFiniteSet(Workers), Inv
  PROVE  Unrest \in 0 .. 2 * Cardinality(Workers) + 5
  <1>1. One(yaw) \in {0, 1} /\ One(depth) \in {0, 1} /\ One(prev # vehicle_thrust) \in {0, 1}
    BY OneType DEF Inv, TypeOK
  <1>2. Cardinality(Armed) \in Int /\ 0 <= Cardinality(Armed)
        /\ Cardinality(Armed) <= Cardinality(Workers) /\ Cardinality(Workers) \in Nat
    BY ArmedFinite, FS_CardinalityType
  <1> QED
    BY <1>1, <1>2 DEF Unrest

Lands == (\E w \in Workers : StoreThrust(w)) \/ YawStore \/ DepthStore \/ ThrusterCycle

LEMMA RestNearer ==
  ASSUME IsFiniteSet(Workers), Inv, Inv', [Next]_vars,
         Disabled, Disabled'
  PROVE  /\ Unrest' <= Unrest
         /\ Lands => Unrest' < Unrest
  <1> DEFINE n == Cardinality(Armed)
             y == One(yaw)
             d == One(depth)
             c == One(prev # vehicle_thrust)
  <1>1. PICK n1, y1, d1, c1 : n1 = n' /\ y1 = y' /\ d1 = d' /\ c1 = c'
    OBVIOUS
  <1>2. Unrest = 2 * (n + y + d) + c /\ Unrest' = 2 * (n1 + y1 + d1) + c1
    BY <1>1, Zenon DEF Unrest
  <1>3. n \in Nat /\ y \in {0, 1} /\ d \in {0, 1} /\ c \in {0, 1}
    <2>1. n \in Nat
      BY ArmedFinite, FS_CardinalityType
    <2> QED BY <2>1, OneType DEF Inv, TypeOK
  <1>4. y1 \in {0, 1} /\ d1 \in {0, 1} /\ c1 \in {0, 1}
    <2>1. yaw' \in BOOLEAN /\ depth' \in BOOLEAN /\ (prev' # vehicle_thrust') \in BOOLEAN
      BY DEF Inv, TypeOK
    <2>2. One(yaw)' = One(yaw') /\ One(depth)' = One(depth')
          /\ One(prev # vehicle_thrust)' = One(prev' # vehicle_thrust')
      BY Zenon DEF One
    <2> QED BY <1>1, <2>1, <2>2, OneType
  <1> HIDE DEF n, y, d, c
  <1>5. ASSUME NEW w \in Workers, StoreThrust(w) PROVE n1 = n - 1 /\ y1 = y /\ d1 = d
    <2>1. UNCHANGED <<yaw, depth>> /\ w \in Armed /\ Armed' = Armed \ {w}
      BY <1>5, ThrustAssumption DEF StoreThrust, Armed, Inv, TypeOK
    <2>2. Cardinality(Armed \ {w}) = Cardinality(Armed) - 1
      BY <2>1, ArmedFinite, FS_RemoveElement
    <2>3. n1 = Cardinality(Armed \ {w})
      BY <1>1, <2>1, Zenon DEF n
    <2>4. y1 = y /\ d1 = d
      BY <1>1, <2>1, Zenon DEF y, d, One
    <2> QED BY <2>2, <2>3, <2>4 DEF n
  <1>6. CASE YawStore
    <2>1. n1 = n /\ d1 = d /\ yaw /\ ~yaw'
      BY <1>1, <1>6 DEF YawStore, n, d, One, Armed
    <2>2. y = 1 /\ y1 = 0
      BY <1>1, <2>1 DEF y, One
    <2> QED BY <1>2, <1>3, <1>4, <2>1, <2>2
  <1>7. CASE DepthStore
    <2>1. n1 = n /\ y1 = y /\ depth /\ ~depth'
      BY <1>1, <1>7 DEF DepthStore, n, y, One, Armed
    <2>2. d = 1 /\ d1 = 0
      BY <1>1, <2>1 DEF d, One
    <2> QED BY <1>2, <1>3, <1>4, <2>1, <2>2
  <1>8. CASE ThrusterCycle
    <2>1. n1 = n /\ y1 = y /\ d1 = d
      BY <1>1, <1>8 DEF ThrusterCycle, n, y, d, One, Armed
    <2>2. c = 1 /\ c1 = 0
      BY <1>1, <1>8 DEF ThrusterCycle, c, One
    <2> QED BY <1>2, <1>3, <1>4, <2>1, <2>2
  <1>9. ASSUME [Next]_vars, ~Lands PROVE n1 = n /\ y1 = y /\ d1 = d /\ c1 = c
    <2>1. armed' = armed /\ UNCHANGED <<yaw, depth, prev, vehicle_thrust>>
      <3>1. ASSUME NEW w \in Workers, SetThrust(w) PROVE armed' = armed
        BY <3>1 DEF SetThrust, Disabled, MODE_DISABLED, Inv, TypeOK
      <3>2. ~YawTest /\ ~DepthTest /\ ~Restart
        BY DEF YawTest, DepthTest, Restart, Disabled, MODE_DISABLED, MODE_AUTON,
               MODE_AUTON_DEPTH, Done, SetUp
      <3>3. MainStep => armed' = armed /\ UNCHANGED <<yaw, depth, prev, vehicle_thrust>>
        BY DEF MainStep, Disabled, Inv, TypeOK, Done, SetUp
      <3> QED
        BY <1>9, <3>1, <3>2, <3>3 DEF Next, Worker, Controllers, Lands, SetThrust, SetMode,
           ThrusterStart, Replug, vars, program
    <2> QED BY <1>1, <2>1, Zenon DEF n, y, d, c, One, Armed
  <1>10. CASE ~Lands
    BY <1>2, <1>9, <1>10
  <1>11. CASE \E w \in Workers : StoreThrust(w)
    BY <1>2, <1>3, <1>4, <1>5, <1>11
  <1> QED
    BY <1>6, <1>7, <1>8, <1>10, <1>11 DEF Lands

(* The safety half of DisableQuiesces, with a bound: with k connections a  *)
(* vehicle that stays disabled is never more than 2k + 5 steps of its      *)
(* threads from rest, each of their stores and sends brings it nearer, and *)
(* nothing an operator, a controller or a cable does takes it away again.  *)
THEOREM RestInSight ==
  ASSUME IsFiniteSet(Workers)
  PROVE  Spec => [][Disabled /\ Disabled' =>
                      /\ Unrest \in 0 .. 2 * Cardinality(Workers) + 5
                      /\ Unrest' <= Unrest
                      /\ Lands => Unrest' < Unrest]_vars
  <1>1. Inv /\ Inv' /\ [Next]_vars =>
          [Disabled /\ Disabled' =>
             /\ Unrest \in 0 .. 2 * Cardinality(Workers) + 5
             /\ Unrest' <= Unrest
             /\ Lands => Unrest' < Unrest]_vars
    BY UnrestType, RestNearer
  <1> QED
    BY <1>1, Invariance, PTL DEF Spec, SafeSpec
=============================================================================
