--------------------------- MODULE LinearActuator ---------------------------
(***************************************************************************)
(* /set_la and the thread that forwards it to the laser and linear         *)
(* actuator Arduino.  set_la stores under linear_actuator_mutex; the       *)
(* thread reads under thrust_mutex.  Neither excludes the other, so here   *)
(* every load and store of linear_actuator_state is a step of its own (a   *)
(* whole, untorn int each: the build's word size), and between two loads   *)
(* of the thread any store may come.                                       *)
(*                                                                         *)
(* The thread compares leds, laser and la with their remembered values,    *)
(* formats leds and la (never the laser) if one differs, remembers -- with *)
(* laser_prev taking leds_on -- and writes.  leds_on is 0 from main on and *)
(* set_la stores 0 again, so it is a constant here.                        *)
(***************************************************************************)
EXTENDS Integers, SerialPort

CONSTANTS Workers,      \* mission-control connections
          LaValues,     \* values of la_on an operator asks for
          NoWorker,     \* nobody holds linear_actuator_mutex
          NoCommand,    \* the Arduino has been sent nothing
          Unplugs       \* whether the cable is pulled and put back

ASSUME LaAssumption == /\ 0 \in LaValues
                       /\ NoWorker \notin Workers
                       /\ NoCommand \notin LaValues
                       /\ Unplugs \in BOOLEAN

leds_on == 0
LaserValues == {0, 1}

VARIABLES laser_on, la_on,
          owner,        \* the holder of linear_actuator_mutex
          asked,        \* the laser and la of the last set_la to take the mutex
          todo,         \* which of the two the holder has still to store
          pc,           \* the thread, in its loop
          buf,          \* the la it has formatted
          laser_prev, la_prev,
          fd, plugged,  \* la_fd, and whether the Arduino is on the bus
          sent,         \* the last la the port accepted
          raced,        \* la_on was stored between format and remember,
                        \*   since the thread last formatted
          unsent        \* the last write failed, or there was none

operator == <<laser_on, la_on, owner, asked, todo>>
thread == <<pc, buf, laser_prev, la_prev, fd, sent, unsent>>
vars == <<operator, thread, plugged, raced>>

Commands == [laser : LaserValues, la : LaValues]

TypeOK == /\ laser_on \in LaserValues /\ la_on \in LaValues
          /\ owner \in Workers \cup {NoWorker}
          /\ asked \in Commands
          /\ todo \in SUBSET {"laser", "la"}
          /\ pc \in {"start", "laser", "la", "format", "remember", "write"}
          /\ buf \in LaValues /\ la_prev \in LaValues /\ laser_prev \in LaserValues
          /\ fd \in Descriptors /\ plugged \in BOOLEAN
          /\ sent \in LaValues \cup {NoCommand}
          /\ raced \in BOOLEAN /\ unsent \in BOOLEAN

Init == /\ laser_on = 0 /\ la_on = 0
        /\ owner = NoWorker /\ asked = [laser |-> 0, la |-> 0] /\ todo = {}
        /\ pc = "start" /\ buf = 0
        /\ laser_prev = 0 /\ la_prev = 0
        /\ fd = "none" /\ plugged \in BOOLEAN
        /\ sent = NoCommand /\ raced = FALSE /\ unsent = TRUE
-----------------------------------------------------------------------------
(* Slips that each break a property below; no action uses them. *)
ReleaseLaEarly(w) ==
  /\ owner = w
  /\ owner' = NoWorker
  /\ UNCHANGED <<laser_on, la_on, asked, todo, thread, plugged, raced>>

CompareLaNever ==
  /\ pc = "la"
  /\ pc' = "laser"
  /\ UNCHANGED <<operator, buf, laser_prev, la_prev, fd, sent, unsent, plugged, raced>>

FormatRemembered ==
  /\ pc = "format"
  /\ buf' = la_prev
  /\ raced' = FALSE
  /\ pc' = "remember"
  /\ UNCHANGED <<operator, laser_prev, la_prev, fd, sent, unsent, plugged>>

RememberLaser ==
  /\ pc = "remember"
  /\ laser_prev' = laser_on
  /\ la_prev' = la_on
  /\ pc' = "write"
  /\ UNCHANGED <<operator, buf, fd, sent, unsent, plugged, raced>>
-----------------------------------------------------------------------------
(* /set_la takes linear_actuator_mutex. *)
SetLa(w) ==
  /\ owner = NoWorker
  /\ owner' = w
  /\ asked' \in Commands
  /\ todo' = {"laser", "la"}
  /\ UNCHANGED <<laser_on, la_on, thread, plugged, raced>>

StoreLaser(w) ==
  /\ owner = w /\ "laser" \in todo
  /\ laser_on' = asked.laser
  /\ todo' = todo \ {"laser"}
  /\ UNCHANGED <<la_on, owner, asked, thread, plugged, raced>>

StoreLa(w) ==
  /\ owner = w /\ "la" \in todo
  /\ la_on' = asked.la
  /\ todo' = todo \ {"la"}
  /\ raced' = (raced \/ (pc = "remember" /\ la_on' # la_on))
  /\ UNCHANGED <<laser_on, owner, asked, thread, plugged>>

(* ... and releases it. *)
ReleaseLa(w) ==
  /\ owner = w /\ todo = {}
  /\ owner' = NoWorker
  /\ UNCHANGED <<laser_on, la_on, asked, todo, thread, plugged, raced>>
-----------------------------------------------------------------------------
(* The thread opens its port, *)
Connect ==
  /\ pc = "start"
  /\ fd' = Opened(plugged)
  /\ pc' = "laser"
  /\ UNCHANGED <<operator, buf, laser_prev, la_prev, sent, unsent, plugged, raced>>

(* compares the laser, *)
CompareLaser ==
  /\ pc = "laser"
  /\ pc' = IF laser_prev # laser_on THEN "format" ELSE "la"
  /\ UNCHANGED <<operator, buf, laser_prev, la_prev, fd, sent, unsent, plugged, raced>>

(* then, if that is the same, la; nothing changed: the next turn, *)
CompareLa ==
  /\ pc = "la"
  /\ pc' = IF la_prev # la_on THEN "format" ELSE "laser"
  /\ UNCHANGED <<operator, buf, laser_prev, la_prev, fd, sent, unsent, plugged, raced>>

(* else formats what la_on is by now, *)
Format ==
  /\ pc = "format"
  /\ buf' = la_on
  /\ raced' = FALSE
  /\ pc' = "remember"
  /\ UNCHANGED <<operator, laser_prev, la_prev, fd, sent, unsent, plugged>>

(* remembers what it is then, *)
Remember ==
  /\ pc = "remember"
  /\ laser_prev' = leds_on
  /\ la_prev' = la_on
  /\ pc' = "write"
  /\ UNCHANGED <<operator, buf, fd, sent, unsent, plugged, raced>>

(* and writes what it formatted; a failed write reopens the port. *)
Write ==
  /\ pc = "write"
  /\ sent' = IF Accepts(fd) THEN buf ELSE sent
  /\ unsent' = ~Accepts(fd)
  /\ fd' = AfterWrite(fd, plugged)
  /\ pc' = "laser"
  /\ UNCHANGED <<operator, buf, laser_prev, la_prev, plugged, raced>>

(* The cable is pulled out or put back. *)
Replug ==
  /\ Unplugs
  /\ plugged' = ~plugged
  /\ fd' = IF plugged THEN Orphaned(fd) ELSE fd
  /\ UNCHANGED <<operator, pc, buf, laser_prev, la_prev, sent, unsent, raced>>

Operator(w) == SetLa(w) \/ StoreLaser(w) \/ StoreLa(w) \/ ReleaseLa(w)
Forward == Connect \/ CompareLaser \/ CompareLa \/ Format \/ Remember \/ Write
Next == (\E w \in Workers : Operator(w)) \/ Forward \/ Replug

(* The thread runs on, and so does a set_la that has the mutex. *)
Fairness == /\ WF_vars(Forward)
            /\ \A w \in Workers : WF_vars(StoreLaser(w) \/ StoreLa(w) \/ ReleaseLa(w))

SafeSpec == Init /\ [][Next]_vars

Spec == SafeSpec /\ Fairness
-----------------------------------------------------------------------------
(* Two set_la at once leave the laser and la of one of them, never one     *)
(* field of each.                                                          *)
PairFromOneCommand == owner = NoWorker => /\ laser_on = asked.laser
                                          /\ la_on = asked.la

(* Between two writes, what the thread remembers is what the Arduino has,  *)
(* unless the write failed or a set_la slipped between its two loads of    *)
(* la_on: no other interleaving can make it forget a command.              *)
RememberedIsSent ==
  pc \in {"laser", "la", "format"} /\ ~raced /\ ~unsent => sent = la_prev

(* With the laser on, laser_prev never matches, so the thread sends la on  *)
(* every turn: whatever was raced or lost before, la reaches the Arduino,  *)
(* and again after every replug.                                           *)
LaserOnResends ==
  \A v \in LaValues :
    <>[](laser_on = 1 /\ la_on = v /\ plugged) => <>[](sent = v)

(* With the laser off, a last la that met neither a race nor a failed      *)
(* write reaches the Arduino.                                              *)
LaReachesUnlessRaced ==
  \A v \in LaValues \ {0} :
    <>[](la_on = v /\ ~raced /\ fd = "live") => <>[](sent = v \/ unsent)
-----------------------------------------------------------------------------
(* init_la.cpp says "only update thrust command if there is a change" and  *)
(* "thrust has changed, update Arduino command".  As a claim about the     *)
(* Arduino, never unplugged: an la that stays is the one it has.           *)
LaReachesArduino ==
  \A v \in LaValues \ {0} : []plugged /\ <>[](la_on = v) => <>[](sent = v)
=============================================================================
