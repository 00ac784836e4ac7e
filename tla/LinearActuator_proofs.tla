------------------------ MODULE LinearActuator_proofs ------------------------
(***************************************************************************)
(* Proofs about LinearActuator, for any number of connections, any values  *)
(* of la_on, and a cable that is pulled or not.                            *)
(***************************************************************************)
EXTENDS LinearActuator, TLAPS

(* A field the holder of the mutex has stored is the one it asked for. *)
StoredIsAsked == /\ "laser" \notin todo => laser_on = asked.laser
                 /\ "la" \notin todo => la_on = asked.la
                 /\ owner = NoWorker => todo = {}

(* Unless a store came in between, what was formatted is what is there to  *)
(* remember, and then what is remembered.                                  *)
FormattedIsRemembered == /\ pc = "remember" /\ ~raced => buf = la_on
                         /\ pc = "write" /\ ~raced => buf = la_prev

(* Nothing is sent before the port is opened. *)
StartUnsent == pc = "start" => unsent

Inv == TypeOK /\ StoredIsAsked /\ FormattedIsRemembered /\ RememberedIsSent
       /\ StartUnsent

LEMMA InitInv == Init => Inv
  <1> SUFFICES ASSUME Init PROVE Inv
    OBVIOUS
  <1>1. TypeOK
    BY LaAssumption DEF Init, TypeOK, Commands, LaserValues, Descriptors
  <1>2. StoredIsAsked /\ FormattedIsRemembered /\ RememberedIsSent /\ StartUnsent
    BY DEF Init, StoredIsAsked, FormattedIsRemembered, RememberedIsSent, StartUnsent
  <1> QED
    BY <1>1, <1>2 DEF Inv

LEMMA OperatorInv ==
  ASSUME Inv, NEW w \in Workers, Operator(w) PROVE Inv'
  <1> USE LaAssumption DEF Inv, thread, StartUnsent
  <1>1. CASE SetLa(w)
    BY <1>1 DEF SetLa, TypeOK, StoredIsAsked, FormattedIsRemembered, RememberedIsSent
  <1>2. CASE StoreLaser(w)
    <2>1. TypeOK'
      BY <1>2 DEF StoreLaser, TypeOK, Commands
    <2> QED
      BY <1>2, <2>1 DEF StoreLaser, StoredIsAsked, FormattedIsRemembered, RememberedIsSent
  <1>3. CASE StoreLa(w)
    <2>1. TypeOK'
      <3>1. la_on' \in LaValues /\ todo' \in SUBSET {"laser", "la"}
        BY <1>3 DEF StoreLa, TypeOK, Commands
      <3>2. raced' \in BOOLEAN
        BY <1>3 DEF StoreLa, TypeOK
      <3> QED
        BY <1>3, <3>1, <3>2 DEF StoreLa, TypeOK
    <2>2. StoredIsAsked'
      BY <1>3 DEF StoreLa, StoredIsAsked
    <2>3. /\ pc' = pc /\ buf' = buf /\ la_prev' = la_prev
          /\ sent' = sent /\ unsent' = unsent
          /\ ~raced' => ~raced /\ (pc = "remember" => la_on' = la_on)
      BY <1>3 DEF StoreLa, TypeOK
    <2>4. FormattedIsRemembered'
      BY <2>3 DEF FormattedIsRemembered
    <2>5. RememberedIsSent'
      BY <2>3 DEF RememberedIsSent
    <2>6. StartUnsent'
      BY <2>3 DEF StartUnsent
    <2> QED
      BY <2>1, <2>2, <2>4, <2>5, <2>6
  <1>4. CASE ReleaseLa(w)
    BY <1>4 DEF ReleaseLa, TypeOK, StoredIsAsked, FormattedIsRemembered, RememberedIsSent
  <1> QED
    BY <1>1, <1>2, <1>3, <1>4 DEF Operator

LEMMA ForwardInv ==
  ASSUME Inv, Forward \/ Replug PROVE Inv'
  <1> USE DEF Inv, operator, StartUnsent, Descriptors, Opened, AfterWrite, Accepts, Orphaned
  <1>1. TypeOK'
    <2>1. CASE Connect \/ CompareLaser \/ CompareLa \/ Format \/ Remember
      BY <2>1 DEF Connect, CompareLaser, CompareLa, Format, Remember, TypeOK,
                  LaserValues, leds_on
    <2>2. CASE Write \/ Replug
      BY <2>2 DEF Write, Replug, TypeOK
    <2> QED
      BY <2>1, <2>2 DEF Forward
  <1>2. StoredIsAsked'
    BY DEF Forward, Connect, CompareLaser, CompareLa, Format, Remember, Write, Replug,
           StoredIsAsked
  <1>3. FormattedIsRemembered'
    BY DEF Forward, Connect, CompareLaser, CompareLa, Format, Remember, Write, Replug,
           FormattedIsRemembered
  <1>4. RememberedIsSent'
    <2>1. CASE Connect
      BY <2>1 DEF Connect, RememberedIsSent
    <2>2. CASE CompareLaser \/ CompareLa \/ Format \/ Remember \/ Replug
      BY <2>2 DEF CompareLaser, CompareLa, Format, Remember, Replug, RememberedIsSent
    <2>3. CASE Write
      BY <2>3 DEF Write, RememberedIsSent, FormattedIsRemembered
    <2> QED
      BY <2>1, <2>2, <2>3 DEF Forward
  <1>5. StartUnsent'
    BY DEF Forward, Connect, CompareLaser, CompareLa, Format, Remember, Write, Replug
  <1> QED
    BY <1>1, <1>2, <1>3, <1>4, <1>5

LEMMA NextInv == Inv /\ [Next]_vars => Inv'
  <1> SUFFICES ASSUME Inv, [Next]_vars PROVE Inv'
    OBVIOUS
  <1>1. CASE UNCHANGED vars
    BY <1>1 DEF vars, operator, thread, Inv, TypeOK, StoredIsAsked,
                FormattedIsRemembered, RememberedIsSent, StartUnsent
  <1> QED
    BY <1>1, OperatorInv, ForwardInv DEF Next

LEMMA Invariance == Spec => []Inv
  BY InitInv, NextInv, PTL DEF Spec, SafeSpec

(* The state of the actuator, of the thread and of the port keeps its type. *)
THEOREM LaTypeOK == Spec => []TypeOK
  BY Invariance, PTL DEF Inv

(* Concurrent /set_la commands never mix their laser and la. *)
THEOREM PairFromOneCommandAlways == Spec => []PairFromOneCommand
  <1>1. Inv => PairFromOneCommand
    BY DEF Inv, StoredIsAsked, PairFromOneCommand
  <1> QED
    BY <1>1, Invariance, PTL

(* A command is forgotten only through a failed write or a store between   *)
(* the thread's two loads of la_on.                                        *)
THEOREM RememberedIsSentAlways == Spec => []RememberedIsSent
  BY Invariance, PTL DEF Inv
-----------------------------------------------------------------------------
(* How many steps of the thread it takes until la reaches the Arduino and  *)
(* stays there.                                                            *)

(* The steps of a turn that are left, the write included.  With the laser  *)
(* on, comparing la is a detour; otherwise it comes after the laser.       *)
LitTurn == [start |-> 6, la |-> 5, laser |-> 4, format |-> 3, remember |-> 2, write |-> 1]
Turn == [start |-> 6, laser |-> 5, la |-> 4, format |-> 3, remember |-> 2, write |-> 1]

(* The laser is on, the operator wants v, and the Arduino is there. *)
Lit(v) == laser_on = 1 /\ la_on = v /\ plugged

(* v is sent, and nothing older is on its way. *)
Given(v) == sent = v /\ (pc \in {"remember", "write"} => buf = v)

(* This turn's write will fail, or send an older value. *)
Wasted(v) == \/ fd # "live" /\ pc # "start"
             \/ pc \in {"remember", "write"} /\ buf # v

LitAway(v) == IF Given(v) THEN 0 ELSE LitTurn[pc] + (IF Wasted(v) THEN 4 ELSE 0)

(* The operator wants v, no store of it has met the thread between its two *)
(* loads, and the port works.                                              *)
Unraced(v) == la_on = v /\ ~raced /\ fd = "live"

GivenUnless(v) == (sent = v \/ unsent) /\ (pc = "write" => buf = v)

Away(v) == IF GivenUnless(v) THEN 0
           ELSE Turn[pc] + (IF pc = "write" /\ buf # v THEN 5 ELSE 0)

(* laser_prev takes leds_on, which is 0: the laser is never remembered on. *)
LaserForgotten == laser_prev = 0

LEMMA AlwaysForgotten == Spec => []LaserForgotten
  <1>1. Init => LaserForgotten
    BY DEF Init, LaserForgotten
  <1>2. LaserForgotten /\ [Next]_vars => LaserForgotten'
    BY DEF LaserForgotten, Next, vars, thread, Operator, SetLa, StoreLaser, StoreLa, ReleaseLa,
           Forward, Connect, CompareLaser, CompareLa, Format, Remember, Write, Replug, leds_on
  <1> QED
    BY <1>1, <1>2, PTL DEF Spec, SafeSpec

(* What the steps that are not the thread's leave alone. *)
LEMMA OthersLeave ==
  ASSUME [Next]_vars, ~Forward
  PROVE  /\ UNCHANGED <<pc, buf, laser_prev, la_prev, sent, unsent>>
         /\ plugged' = plugged => fd' = fd
         /\ fd' = "live" => fd = "live"
  <1>1. CASE \E w \in Workers : Operator(w)
    BY <1>1 DEF Operator, SetLa, StoreLaser, StoreLa, ReleaseLa, thread
  <1>2. CASE Replug
    BY <1>2 DEF Replug, operator, Orphaned, TypeOK
  <1>3. CASE UNCHANGED vars
    BY <1>3 DEF vars, thread
  <1> QED
    BY <1>1, <1>2, <1>3 DEF Next

LEMMA LitStep ==
  ASSUME Inv, LaserForgotten, [Next]_vars, NEW v \in LaValues, Lit(v), Lit(v)'
  PROVE  /\ LitAway(v) \in 0 .. 9
         /\ LitAway(v)' <= LitAway(v)
         /\ Forward /\ LitAway(v) # 0 => LitAway(v)' < LitAway(v)
  <1> USE DEF LitAway, LitTurn, Given, Wasted
  <1>1. pc \in {"start", "laser", "la", "format", "remember", "write"}
        /\ fd \in {"none", "live", "stale"} /\ plugged \in BOOLEAN
    BY DEF Inv, TypeOK, Descriptors
  <1>2. LitAway(v) \in 0 .. 9
    BY <1>1
  <1>3. CASE ~Forward
    BY <1>1, <1>2, <1>3, OthersLeave DEF Lit
  <1>4. CASE Connect
    BY <1>4 DEF Connect, Lit, Opened
  <1>5. CASE CompareLaser
    BY <1>1, <1>5 DEF CompareLaser, Lit, LaserForgotten, operator
  <1>6. CASE CompareLa
    BY <1>1, <1>6 DEF CompareLa, Lit, operator
  <1>7. CASE Format
    BY <1>1, <1>7 DEF Format, Lit, operator
  <1>8. CASE Remember
    BY <1>1, <1>8 DEF Remember, Lit, operator
  <1>9. CASE Write
    BY <1>1, <1>9 DEF Write, Lit, operator, Accepts, AfterWrite, Opened
  <1> QED
    BY <1>2, <1>3, <1>4, <1>5, <1>6, <1>7, <1>8, <1>9 DEF Forward

(* The safety half of LaserOnResends, with a bound: while the laser is on  *)
(* and the Arduino is there, an la that stays is sent within nine steps of *)
(* the thread, and nothing else after it -- whatever was on its way        *)
(* before, and whether or not the port has to be reopened first.           *)
THEOREM ResentInNineSteps ==
  Spec => [][\A v \in LaValues : Lit(v) /\ Lit(v)' =>
               /\ LitAway(v) \in 0 .. 9
               /\ LitAway(v)' <= LitAway(v)
               /\ Forward /\ LitAway(v) # 0 => LitAway(v)' < LitAway(v)]_vars
  <1>1. Inv /\ LaserForgotten /\ [Next]_vars =>
          [\A v \in LaValues : Lit(v) /\ Lit(v)' =>
               /\ LitAway(v) \in 0 .. 9
               /\ LitAway(v)' <= LitAway(v)
               /\ Forward /\ LitAway(v) # 0 => LitAway(v)' < LitAway(v)]_vars
    BY LitStep
  <1> QED
    BY <1>1, Invariance, AlwaysForgotten, PTL DEF Spec, SafeSpec

LEMMA UnracedStep ==
  ASSUME Inv, Inv', [Next]_vars, NEW v \in LaValues, Unraced(v), Unraced(v)'
  PROVE  /\ Away(v) \in 0 .. 6
         /\ Away(v)' <= Away(v)
         /\ Forward /\ Away(v) # 0 => Away(v)' < Away(v)
  <1> USE DEF Away, Turn, GivenUnless
  <1>1. pc \in {"start", "laser", "la", "format", "remember", "write"}
        /\ unsent \in BOOLEAN
    BY DEF Inv, TypeOK
  <1>2. Away(v) \in 0 .. 6
    BY <1>1
  <1>3. CASE ~Forward
    BY <1>1, <1>2, <1>3, OthersLeave
  <1>4. CASE Connect \/ CompareLaser \/ Format
    BY <1>1, <1>4 DEF Connect, CompareLaser, Format
  <1>5. CASE CompareLa
    BY <1>1, <1>5 DEF CompareLa, Unraced, Inv, RememberedIsSent
  <1>6. CASE Remember
    BY <1>1, <1>6 DEF Remember, Unraced, Inv, FormattedIsRemembered
  <1>7. CASE Write
    BY <1>1, <1>7 DEF Write, Unraced, Accepts
  <1> QED
    BY <1>2, <1>3, <1>4, <1>5, <1>6, <1>7 DEF Forward

(* The safety half of LaReachesUnlessRaced, with a bound: while the port   *)
(* works, an la that no store has raced with is sent within six steps of   *)
(* the thread, unless the last write failed.                               *)
THEOREM SentInSixUnlessRaced ==
  Spec => [][\A v \in LaValues : Unraced(v) /\ Unraced(v)' =>
               /\ Away(v) \in 0 .. 6
               /\ Away(v)' <= Away(v)
               /\ Forward /\ Away(v) # 0 => Away(v)' < Away(v)]_vars
  <1>1. Inv /\ Inv' /\ [Next]_vars =>
          [\A v \in LaValues : Unraced(v) /\ Unraced(v)' =>
               /\ Away(v) \in 0 .. 6
               /\ Away(v)' <= Away(v)
               /\ Forward /\ Away(v) # 0 => Away(v)' < Away(v)]_vars
    BY UnracedStep
  <1> QED
    BY <1>1, Invariance, PTL DEF Spec, SafeSpec
=============================================================================
