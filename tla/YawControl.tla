----------------------------- MODULE YawControl -----------------------------
(***************************************************************************)
(* The yaw controller (init_vehicle_control) in closed loop with the       *)
(* vehicle: it samples the heading, computes a PID value over a ring of    *)
(* the last errors, and slows the thruster on the side it wants to turn    *)
(* to; the vehicle turns away from the stronger one.  The target is the    *)
(* heading that /set_current_orientation has stored.                       *)
(*                                                                         *)
(* Headings are multiples of Step degrees in -180 .. 180, as the IMU       *)
(* reports them (both ends occur, and are one heading).  Gains and thrust  *)
(* are in units of 1/2500, so that kp = 0.18 is 450 and kd = 0.04, divided *)
(* by the 50 ms between two samples, is 2.                                 *)
(***************************************************************************)
EXTENDS Integers

CONSTANTS NUM_ERRORS,  \* size of the ring
          Half,        \* steps in 180 degrees
          Gains,       \* the records [kp, ki, kd] that may be set
          Garbage,     \* what the ring, which is not initialised, may hold
          NoHeading, NoError

ASSUME YawAssumption ==
  /\ NUM_ERRORS \in Nat \ {0, 1}
  /\ Half \in Nat \ {0} /\ 180 % Half = 0
  /\ Gains \subseteq [kp : Nat, ki : Nat, kd : Nat]
  /\ Garbage \subseteq Int
  /\ NoHeading \notin Int /\ NoError \notin Int

VARIABLES vehicle_mode,
          yaw,        \* the vehicle's heading, and vehicle_orientation -> yaw
          target,     \* vehicle_initial_orientation -> yaw
          gains,      \* vehicle_pid_values
          pc,         \* where the controller is
          s_yaw,      \* its copy of the heading
          sd_yaw,     \* its copy of the target
          i, yaw_errors, yaw_prev_error,
          surge,      \* surge_port and surge_starboard
          last        \* last[k]: the error k samples ago; NoError before the first

controller == <<pc, s_yaw, sd_yaw, i, yaw_errors, yaw_prev_error, surge, last>>
command == <<vehicle_mode, target, gains>>
vars == <<yaw, controller, command>>

MODE_MANUAL == 1
MODE_AUTON == 2
Forward == 75000    \* 30: straight ahead
Most == 187500      \* 75: the cap

Step == 180 \div Half
Headings == {Step * h : h \in (-Half) .. Half}
Slots == 0 .. NUM_ERRORS - 1

Abs(x) == IF x < 0 THEN -x ELSE x
AtMost(x, m) == IF x > m THEN m ELSE x

(* The slot k places before slot j. *)
Back(j, k) == IF k <= j THEN j - k ELSE j - k + NUM_ERRORS

(* Slips that each break a property below; no action uses them. *)
NextSlotSkipsFirst(j) == IF j = NUM_ERRORS - 1 THEN 1 ELSE j + 1
NextSlotNoWrap(j) == j + 1
ClockwiseOnlyPositive(a, t) == a > 0 /\ Abs(t) < Abs(a)
ErrorSigned(a, t) == Abs(t) - Abs(a)

NextSlot(j) == (j + 1) % NUM_ERRORS

(* abs(abs(sd_yaw) - abs(s_yaw)) *)
Error(a, t) == Abs(Abs(t) - Abs(a))

(* arr_sum over the ring: sum[n] is the sum after n turns of its loop. *)
Total(ring) ==
  LET sum[n \in 0 .. NUM_ERRORS] == IF n = 0 THEN 0 ELSE sum[n - 1] + ring[n - 1]
  IN  sum[NUM_ERRORS]

Pid(g, e, ring, prev) == g.kp * e + g.ki * Total(ring) + g.kd * (e - prev)

(* The sign of cos(sd_yaw) - cos(s_yaw) tells which heading is nearer to   *)
(* 0: the target, when it is positive.                                     *)
Clockwise(a, t) == (a > 0 /\ Abs(t) < Abs(a)) \/ (a < 0 /\ Abs(t) > Abs(a))
Counterclockwise(a, t) == (a < 0 /\ Abs(t) < Abs(a)) \/ (a > 0 /\ Abs(t) > Abs(a))

(* The thrusters exchanged.  A slip. *)
ThrustsSwapped(a, t, pid) ==
  [port |-> AtMost(Forward - (IF Clockwise(a, t) THEN pid ELSE 0), Most),
   starboard |-> AtMost(Forward - (IF Counterclockwise(a, t) THEN pid ELSE 0), Most)]

(* The thruster on the side to turn to gives way by the PID value. *)
Thrusts(a, t, pid) ==
  [starboard |-> AtMost(Forward - (IF Clockwise(a, t) THEN pid ELSE 0), Most),
   port |-> AtMost(Forward - (IF Counterclockwise(a, t) THEN pid ELSE 0), Most)]

(* The heading after a turn by one step, to the side of the weaker         *)
(* thruster; yaw grows counterclockwise.                                   *)
Wrapped(h) == IF h > 180 THEN h - 360 ELSE IF h < -180 THEN h + 360 ELSE h
Turned(a, s) == CASE s.starboard > s.port -> Wrapped(a + Step)
                  [] s.starboard < s.port -> Wrapped(a - Step)
                  [] OTHER -> a

TypeOK == /\ vehicle_mode \in {MODE_MANUAL, MODE_AUTON}
          /\ yaw \in Headings /\ target \in Headings
          /\ s_yaw \in Headings \cup {NoHeading} /\ sd_yaw \in Headings \cup {NoHeading}
          /\ gains \in Gains
          /\ pc \in {"sample", "steer", "moving"}
          /\ i \in Slots /\ yaw_errors \in [Slots -> Int] /\ yaw_prev_error \in Int
          /\ surge \in [starboard : Int, port : Int]
          /\ last \in [Slots -> Int \cup {NoError}]

Init == /\ vehicle_mode = MODE_MANUAL
        /\ yaw \in Headings /\ target = 0 /\ s_yaw = NoHeading /\ sd_yaw = NoHeading
        /\ gains \in Gains
        /\ pc = "sample" /\ i = 0 /\ yaw_prev_error = 0
        /\ yaw_errors \in [Slots -> Garbage]
        /\ surge = [starboard |-> 0, port |-> 0]
        /\ last = [k \in Slots |-> NoError]
-----------------------------------------------------------------------------
(* The controller finds MODE_AUTON, takes the next slot, and copies the    *)
(* heading.                                                                *)
Sample ==
  /\ pc = "sample" /\ vehicle_mode = MODE_AUTON
  /\ i' = NextSlot(i)
  /\ s_yaw' = yaw
  /\ pc' = "steer"
  /\ UNCHANGED <<yaw, command, sd_yaw, yaw_errors, yaw_prev_error, surge, last>>

(* It reads the target, records the error, and stores the surge thrusts.   *)
Steer ==
  /\ pc = "steer"
  /\ LET e == Error(s_yaw, target)
     IN  /\ yaw_errors' = [yaw_errors EXCEPT ![i] = e]
         /\ surge' = Thrusts(s_yaw, target, Pid(gains, e, yaw_errors', yaw_prev_error))
         /\ yaw_prev_error' = e
         /\ sd_yaw' = target
         /\ last' = [k \in Slots |-> IF k = 0 THEN e ELSE last[k - 1]]
  /\ pc' = "moving"
  /\ UNCHANGED <<yaw, command, s_yaw, i>>

(* The controller's sleep ends; its copies are not used again. *)
Wake == /\ pc' = "sample"
        /\ s_yaw' = NoHeading /\ sd_yaw' = NoHeading
        /\ UNCHANGED <<i, yaw_errors, yaw_prev_error, surge, last>>

(* While it sleeps the vehicle turns, by a step ... *)
Turn ==
  /\ pc = "moving"
  /\ yaw' = Turned(yaw, surge)
  /\ Wake
  /\ UNCHANGED command

(* ... or not yet. *)
Coast ==
  /\ pc = "moving"
  /\ Wake
  /\ UNCHANGED <<yaw, command>>

(* Outside MODE_AUTON the operator turns the vehicle. *)
Drive ==
  /\ vehicle_mode # MODE_AUTON
  /\ yaw' \in Headings
  /\ UNCHANGED <<controller, command>>

SetMode ==
  /\ vehicle_mode' \in {MODE_MANUAL, MODE_AUTON}
  /\ UNCHANGED <<yaw, controller, target, gains>>

SetPidValues ==
  /\ gains' \in Gains
  /\ UNCHANGED <<yaw, controller, vehicle_mode, target>>

(* /set_current_orientation reads the heading under one mutex and stores   *)
(* it as the target under another: by then the vehicle may be anywhere, so *)
(* that the target may become any heading.                                 *)
SetCurrentOrientation ==
  /\ target' \in Headings
  /\ UNCHANGED <<yaw, controller, vehicle_mode, gains>>

Next == \/ Sample \/ Steer \/ Turn \/ Coast
        \/ Drive \/ SetMode \/ SetPidValues \/ SetCurrentOrientation

(* The controller loops, and the vehicle does not refuse to turn for ever. *)
Fairness == /\ WF_vars(Sample) /\ WF_vars(Steer)
            /\ WF_vars(Turn \/ Coast) /\ SF_vars(Turn)

SafeSpec == Init /\ [][Next]_vars

Spec == SafeSpec /\ Fairness
-----------------------------------------------------------------------------
(* Once the controller has taken as many samples as the ring has slots     *)
(* nothing is left of what was in the memory before: the ring is the       *)
(* window of the last errors, the newest at slot i.                        *)
RingIsWindow ==
  pc # "steer" => \A k \in Slots : last[k] # NoError => yaw_errors[Back(i, k)] = last[k]

Distance(a, t) == Abs(Abs(a) - Abs(t))
Settled(a, t) == Distance(a, t) = 0 \/ a = 0
SameSide(a, t) == (a > 0 /\ t > 0) \/ (a < 0 /\ t < 0)
WindowFull == last[NUM_ERRORS - 1] # NoError

(* From then on a turn that follows a fresh heading never takes the        *)
(* vehicle further from the target it was steered to: neither an error     *)
(* left from before a pause nor a jump of the target makes the PID value   *)
(* change sign.                                                            *)
ErrorNeverGrows ==
  [][Turn /\ WindowFull /\ yaw = s_yaw => Distance(yaw', sd_yaw) <= Distance(yaw, sd_yaw)]_vars

(* Nor does it take the vehicle across 0, to the side the target is not    *)
(* on: from 180 the controller turns back the way it came.                 *)
KeepsSide ==
  [][Turn /\ WindowFull /\ yaw = s_yaw /\ SameSide(yaw, sd_yaw) => SameSide(yaw', sd_yaw)]_vars

(* The controller has the vehicle for good, with one target. *)
LeftAlone == <>[](vehicle_mode = MODE_AUTON) /\ <>[][target' = target]_vars

(* However the ring began, a vehicle left to the controller comes to stand *)
(* at the target's distance from 0, or at 0 itself.                        *)
Settles == LeftAlone => <>[](Settled(yaw, target))
-----------------------------------------------------------------------------
(* vehicle_control.cpp says "perform a PID loop on state -> desired_state".*)
(* As a claim about the vehicle: left to it, it comes to the target.       *)
ReachesTarget == LeftAlone => <>[](Wrapped(yaw - target) = 0)
=============================================================================
