---------------------------- MODULE ThrustControl ----------------------------
(***************************************************************************)
(* The path of a thrust from whoever decides it to the thruster Arduino.   *)
(*                                                                         *)
(* Three kinds of threads write vehicle_thrust: a mission-control worker   *)
(* per connection (set_thrust), the yaw controller (the two surge fields)  *)
(* and the depth controller (heave_b).  Each first tests vehicle_mode      *)
(* under mode_mutex, releases it, and writes later under thrust_mutex: the *)
(* mode it tested may be gone by then.  The thruster thread compares       *)
(* vehicle_thrust with the last one it formatted, formats the new one as   *)
(* integers and writes it to the Arduino's serial port, whose cable may be *)
(* pulled at any moment; the whole program may die and be started again,   *)
(* and then main sets the shared variables and creates the threads anew.   *)
(*                                                                         *)
(* A critical section is one action: SharedStruct implements AtomicStruct. *)
(***************************************************************************)
EXTENDS Integers, SerialPort

CONSTANTS Workers,         \* mission-control connections
          OperatorThrust,  \* thrusts a /set_thrust may carry
          YawOutput,       \* surge pairs the yaw controller may compute
          DepthOutput,     \* heave_b values the depth controller may compute
          NoThrust,        \* a worker with no thrust to write
          NoCommand,       \* the Arduino has been sent nothing
          Garbage,         \* what malloc may leave in *vehicle_thrust
          Faults           \* which faults happen: "unplug", "restart"

(* perseus.h *)
MODE_DISABLED == 0
MODE_MANUAL == 1
MODE_AUTON == 2
MODE_AUTON_DEPTH == 3
Modes == MODE_DISABLED .. MODE_AUTON_DEPTH

(* A field of a thrust is a float: an integer number of halves stands for  *)
(* it, enough to tell a float from the integer that is sent for it.        *)
Thrust == [surge_port : Int, surge_starboard : Int, heave_a : Int, heave_b : Int]

ASSUME ThrustAssumption ==
  /\ OperatorThrust \subseteq Thrust /\ Garbage \subseteq Thrust
  /\ YawOutput \subseteq [surge_port : Int, surge_starboard : Int]
  /\ DepthOutput \subseteq Int
  /\ NoThrust \notin Thrust
  /\ NoCommand \notin Thrust

VARIABLES main,      \* how many steps of SetUp main has taken
          vehicle_mode,
          vehicle_thrust,
          armed,     \* armed[w]: the thrust worker w is about to write
          yaw,       \* the yaw controller has passed its mode test
          depth,     \* the depth controller has passed its mode test
          prev,      \* sp_prev, ss_prev, ha_prev, hb_prev
          started,   \* the thruster thread has opened its port
          fd,        \* arduino_fd
          plugged,   \* the Arduino is on the bus
          sent,      \* the last command the port accepted (survives a restart)
          unsent,    \* prev has not been accepted by the port
          commanded  \* a worker has acted since the program started

program == <<main, vehicle_mode, vehicle_thrust, armed, yaw, depth, prev, started, fd>>
vars == <<program, plugged, sent, unsent, commanded>>

Zero == [surge_port |-> 0, surge_starboard |-> 0, heave_a |-> 0, heave_b |-> 0]

(* int(x) of x halves: towards zero. *)
Trunc(x) == IF x >= 0 THEN x \div 2 ELSE -((-x) \div 2)

(* The line sent to the Arduino for a thrust: "%d,%d,%d,%d". *)
Command(t) == [surge_port |-> Trunc(t.surge_port),
               surge_starboard |-> Trunc(t.surge_starboard),
               heave_a |-> Trunc(t.heave_a), heave_b |-> Trunc(t.heave_b)]

(* A slip that breaks QuietStart; more of them below.  No action uses it. *)
SetUpThrusterFirst ==
  [mode |-> 1, thruster |-> 2, thrust |-> 3, workers |-> 4, yaw |-> 5, depth |-> 6]

(* The place in main of what this path depends on: setting the mode and    *)
(* the thrust, creating the threads.                                       *)
SetUp == [mode |-> 1, thrust |-> 2, workers |-> 3, thruster |-> 4, yaw |-> 5, depth |-> 6]

Done(s) == main >= SetUp[s]

Surge(t) == [surge_port |-> t.surge_port, surge_starboard |-> t.surge_starboard]

Armed == {w \in Workers : armed[w] # NoThrust}

TypeOK == /\ main \in 0 .. SetUp.depth
          /\ vehicle_mode \in Modes
          /\ vehicle_thrust \in Thrust /\ prev \in Thrust
          /\ armed \in [Workers -> Thrust \cup {NoThrust}]
          /\ fd \in Descriptors
          /\ sent \in Thrust \cup {NoCommand}
          /\ yaw \in BOOLEAN /\ depth \in BOOLEAN
          /\ started \in BOOLEAN /\ plugged \in BOOLEAN
          /\ unsent \in BOOLEAN /\ commanded \in BOOLEAN

(* Slips that each break a property below; no action uses them. *)
SetThrustUngated(w) ==
  /\ Done("workers")
  /\ armed[w] = NoThrust
  /\ commanded' = TRUE
  /\ \E t \in OperatorThrust : armed' = [armed EXCEPT ![w] = t]
  /\ UNCHANGED <<main, vehicle_mode, vehicle_thrust, yaw, depth, prev, started, fd,
                 plugged, sent, unsent>>

YawTestUngated ==
  /\ Done("yaw")
  /\ ~yaw
  /\ yaw' = TRUE
  /\ UNCHANGED <<main, vehicle_mode, vehicle_thrust, armed, depth, prev, started, fd,
                 plugged, sent, unsent, commanded>>

YawTestOtherMode == vehicle_mode = MODE_AUTON_DEPTH /\ YawTestUngated

YawStoreHalf ==
  /\ yaw
  /\ \E o \in YawOutput :
       vehicle_thrust' = [vehicle_thrust EXCEPT !.surge_starboard = o.surge_starboard]
  /\ yaw' = FALSE
  /\ UNCHANGED <<main, vehicle_mode, armed, depth, prev, started, fd, plugged,
                 sent, unsent, commanded>>

ThrusterCycleSurgeOnly ==
  /\ started
  /\ vehicle_thrust # prev
  /\ prev' = vehicle_thrust
  /\ LET changed == Surge(vehicle_thrust) # Surge(prev)
     IN  /\ sent' = IF changed /\ Accepts(fd) THEN Command(vehicle_thrust) ELSE sent
         /\ unsent' = IF changed THEN ~Accepts(fd) ELSE unsent
         /\ fd' = IF changed THEN AfterWrite(fd, plugged) ELSE fd
  /\ UNCHANGED <<main, vehicle_mode, vehicle_thrust, armed, yaw, depth, started,
                 plugged, commanded>>

(* A program that starts: a global int is 0, memory from malloc is not.    *)
Init == /\ main = 0
        /\ vehicle_mode = MODE_DISABLED
        /\ vehicle_thrust \in Garbage /\ prev = Zero
        /\ armed = [w \in Workers |-> NoThrust]
        /\ yaw = FALSE /\ depth = FALSE
        /\ started = FALSE /\ fd = "none" /\ plugged \in BOOLEAN
        /\ sent = NoCommand /\ unsent = TRUE
        /\ commanded = FALSE
-----------------------------------------------------------------------------
(* main goes on to its next step. *)
MainStep ==
  /\ ~Done("depth")
  /\ main' = main + 1
  /\ vehicle_mode' = IF main' = SetUp.mode THEN MODE_MANUAL ELSE vehicle_mode
  /\ vehicle_thrust' = IF main' = SetUp.thrust THEN Zero ELSE vehicle_thrust
  /\ UNCHANGED <<armed, yaw, depth, prev, started, fd, plugged, sent, unsent, commanded>>

(* /set_thrust, first half: the mode is tested under mode_mutex.  In       *)
(* MODE_DISABLED the command is dropped without an answer.                 *)
SetThrust(w) ==
  /\ Done("workers")
  /\ armed[w] = NoThrust
  /\ commanded' = TRUE
  /\ \E t \in OperatorThrust :
       armed' = [armed EXCEPT ![w] = IF vehicle_mode > MODE_DISABLED THEN t ELSE NoThrust]
  /\ UNCHANGED <<main, vehicle_mode, vehicle_thrust, yaw, depth, prev, started, fd,
                 plugged, sent, unsent>>

(* ... second half: the four fields, under thrust_mutex. *)
StoreThrust(w) ==
  /\ armed[w] # NoThrust
  /\ vehicle_thrust' = armed[w]
  /\ armed' = [armed EXCEPT ![w] = NoThrust]
  /\ UNCHANGED <<main, vehicle_mode, yaw, depth, prev, started, fd, plugged, sent,
                 unsent, commanded>>

(* /set_mode, with any integer: other values act as one of the four. *)
SetMode(w) ==
  /\ Done("workers")
  /\ armed[w] = NoThrust
  /\ commanded' = TRUE
  /\ vehicle_mode' \in Modes
  /\ UNCHANGED <<main, vehicle_thrust, armed, yaw, depth, prev, started, fd,
                 plugged, sent, unsent>>

(* The yaw controller finds MODE_AUTON and goes on to compute. *)
YawTest ==
  /\ Done("yaw")
  /\ ~yaw
  /\ vehicle_mode = MODE_AUTON
  /\ yaw' = TRUE
  /\ UNCHANGED <<main, vehicle_mode, vehicle_thrust, armed, depth, prev, started, fd,
                 plugged, sent, unsent, commanded>>

(* It stores what it computed in the two surge fields. *)
YawStore ==
  /\ yaw
  /\ \E o \in YawOutput :
       vehicle_thrust' = [vehicle_thrust EXCEPT !.surge_port = o.surge_port,
                                                !.surge_starboard = o.surge_starboard]
  /\ yaw' = FALSE
  /\ UNCHANGED <<main, vehicle_mode, armed, depth, prev, started, fd, plugged,
                 sent, unsent, commanded>>

(* The depth controller finds MODE_AUTON_DEPTH and goes on to compute. *)
DepthTest ==
  /\ Done("depth")
  /\ ~depth
  /\ vehicle_mode = MODE_AUTON_DEPTH
  /\ depth' = TRUE
  /\ UNCHANGED <<main, vehicle_mode, vehicle_thrust, armed, yaw, prev, started, fd,
                 plugged, sent, unsent, commanded>>

(* It stores what it computed in heave_b. *)
DepthStore ==
  /\ depth
  /\ \E o \in DepthOutput : vehicle_thrust' = [vehicle_thrust EXCEPT !.heave_b = o]
  /\ depth' = FALSE
  /\ UNCHANGED <<main, vehicle_mode, armed, yaw, prev, started, fd, plugged, sent,
                 unsent, commanded>>

(* The thruster thread opens its port. *)
ThrusterStart ==
  /\ Done("thruster")
  /\ ~started
  /\ started' = TRUE
  /\ fd' = Opened(plugged)
  /\ UNCHANGED <<main, vehicle_mode, vehicle_thrust, armed, yaw, depth, prev, plugged,
                 sent, unsent, commanded>>

(* One turn of its loop that finds a change.  The new thrust counts as the *)
(* previous one before the write; a write that fails is not repeated, the  *)
(* port is closed and reopened.                                            *)
ThrusterCycle ==
  /\ started
  /\ vehicle_thrust # prev
  /\ prev' = vehicle_thrust
  /\ sent' = IF Accepts(fd) THEN Command(vehicle_thrust) ELSE sent
  /\ unsent' = ~Accepts(fd)
  /\ fd' = AfterWrite(fd, plugged)
  /\ UNCHANGED <<main, vehicle_mode, vehicle_thrust, armed, yaw, depth, started,
                 plugged, commanded>>

(* The cable of the Arduino is pulled out or put back. *)
Replug ==
  /\ "unplug" \in Faults
  /\ plugged' = ~plugged
  /\ fd' = IF plugged THEN Orphaned(fd) ELSE fd
  /\ UNCHANGED <<main, vehicle_mode, vehicle_thrust, armed, yaw, depth, prev, started,
                 sent, unsent, commanded>>

(* The program dies and is started again; the Arduino keeps its command. *)
Restart ==
  /\ "restart" \in Faults
  /\ main' = 0
  /\ vehicle_mode' = MODE_DISABLED
  /\ vehicle_thrust' \in Garbage /\ prev' = Zero
  /\ armed' = [w \in Workers |-> NoThrust]
  /\ yaw' = FALSE /\ depth' = FALSE
  /\ started' = FALSE /\ fd' = "none"
  /\ unsent' = TRUE /\ commanded' = FALSE
  /\ UNCHANGED <<plugged, sent>>

Worker(w) == SetThrust(w) \/ StoreThrust(w) \/ SetMode(w)
Controllers == YawTest \/ YawStore \/ DepthTest \/ DepthStore
Next == \/ \E w \in Workers : Worker(w)
        \/ Controllers
        \/ ThrusterStart \/ ThrusterCycle
        \/ MainStep \/ Replug \/ Restart

(* Threads run on: the mutexes are granted in time, the sleeps end.  The   *)
(* operator need not command anything, faults need not happen.             *)
Fairness == /\ WF_vars(MainStep)
            /\ \A w \in Workers : WF_vars(StoreThrust(w))
            /\ WF_vars(YawTest) /\ WF_vars(YawStore)
            /\ WF_vars(DepthTest) /\ WF_vars(DepthStore)
            /\ WF_vars(ThrusterStart) /\ WF_vars(ThrusterCycle)

SafeSpec == Init /\ [][Next]_vars

Spec == SafeSpec /\ Fairness
-----------------------------------------------------------------------------
(* The thruster thread's memory of what it sent is right unless the write  *)
(* of that very thrust failed: replugging, reopening and superseding       *)
(* commands never leave prev and the Arduino silently apart.               *)
PrevIsSent == ~unsent => sent = Command(prev)

(* Until an operator acts, a program that has just started leaves the      *)
(* thrusters alone, in whatever order its threads get going: no controller *)
(* is past its mode test, and the thruster thread has taken up nothing     *)
(* ("if we start the control thread before setting the mode, the vehicle   *)
(* may take off in a random direction").                                   *)
QuietStart == ~commanded => /\ prev = Zero /\ Armed = {} /\ ~yaw /\ ~depth
                            /\ Done("mode") => vehicle_mode = MODE_MANUAL
                            /\ Done("thrust") => vehicle_thrust = Zero

(* The two surge fields always come from one writer, never port from the   *)
(* operator and starboard from the yaw controller; so does what was sent.  *)
SurgePairs == YawOutput \cup {Surge(t) : t \in OperatorThrust \cup {Zero}}
SurgeFromOneWriter == /\ Done("thrust") => Surge(vehicle_thrust) \in SurgePairs
                      /\ Surge(prev) \in SurgePairs

(* While the vehicle stays disabled nobody new gets past the mode test,    *)
(* and each of those already past it can change the thrust only once, by   *)
(* leaving: the late writes after /set_mode 0 are finitely many.           *)
Disabled == vehicle_mode = MODE_DISABLED /\ Done("workers")
LateWritesDrain ==
  [][Disabled /\ Disabled' =>
       /\ Armed' \subseteq Armed /\ (yaw' => yaw) /\ (depth' => depth)
       /\ vehicle_thrust' # vehicle_thrust => <<Armed, yaw, depth>>' # <<Armed, yaw, depth>>]_vars

(* A thrust that differs from the last one while the port is live reaches  *)
(* the Arduino, unless it is overwritten or the cable is pulled first.     *)
ChangeDelivered ==
  \A t \in OperatorThrust :
    (vehicle_thrust = t /\ prev # t /\ fd = "live")
      ~> (sent = Command(t) \/ vehicle_thrust # t \/ fd # "live")

(* With the Arduino back for good, and the thruster thread taking up one   *)
(* change after another, the port is live again for good.                  *)
Reconnects ==
  (<>[](plugged /\ started) /\ []<>(prev = Zero) /\ []<>(prev # Zero)) => <>[](fd = "live")

(* A vehicle that stays disabled comes to rest: every late write lands and *)
(* the thruster thread has taken up the last thrust.                       *)
DisableQuiesces ==
  <>[](vehicle_mode = MODE_DISABLED /\ started)
    => <>[](Armed = {} /\ ~yaw /\ ~depth /\ prev = vehicle_thrust)

(* In MODE_AUTON the yaw controller keeps the surge: set_thrust is not     *)
(* refused in that mode, but what it writes is overwritten.                *)
AutonSteers ==
  <>[](vehicle_mode = MODE_AUTON) => []<>(Surge(vehicle_thrust) \in YawOutput)
-----------------------------------------------------------------------------
(* thruster_control.cpp says "thrust has changed, update Arduino command". *)
(* As a claim about the Arduino: with the cable in place for good, a       *)
(* thrust that stays is the one it has.                                    *)
ChangeReachesArduino ==
  \A t \in OperatorThrust \ {Zero} :
    <>[](plugged /\ started /\ vehicle_thrust = t) => <>[](sent = Command(t))
=============================================================================
