------------------------- MODULE CameraFeeds_proofs -------------------------
(***************************************************************************)
(* What an interrupt does to the processes of CameraFeeds, for any number  *)
(* of cameras and of interrupts, and forks that may fail.                  *)
(***************************************************************************)
EXTENDS CameraFeeds, FiniteSetTheorems, TLAPS

(* A process has forked for none of the cameras still before it, so that   *)
(* its children are one fork further from main than it is.                 *)
ForkedInTurn == \A p \in Procs : Live(p) => \A c \in p : c < proc[p].next

(* InterruptsRetire, with the children whose grabber has not started yet.  *)
Retired(p) ==
  /\ Live(p) => Cardinality(p) >= interrupts
  /\ proc[p].stage \in {"born", "feed"} /\ ~proc[p].told => Cardinality(p) > interrupts
  /\ proc[p].told => proc[p].stage = "feed"

Inv == /\ TypeOK
       /\ ForkedInTurn
       /\ \A p \in Procs : Retired(p)
       /\ HeldOnlyBefore

LEMMA ProcCardinality ==
  ASSUME NEW p \in Procs
  PROVE  /\ IsFiniteSet(p) /\ Cardinality(p) \in Nat
         /\ Cardinality(p) <= N
  <1>1. N \in Nat /\ IsFiniteSet(Cameras) /\ Cardinality(Cameras) = N
    BY FS_Interval, FeedsAssumption DEF Cameras
  <1>2. IsFiniteSet(p) /\ Cardinality(p) <= N
    BY <1>1, FS_Subset DEF Procs
  <1>3. QED
    BY <1>2, FS_CardinalityType

LEMMA ChildCardinality ==
  ASSUME NEW p \in Procs, NEW c \in Cameras, c \notin p
  PROVE  p \cup {c} \in Procs /\ Cardinality(p \cup {c}) = Cardinality(p) + 1
  BY ProcCardinality, FS_AddElement DEF Procs

LEMMA MainCardinality == Main \in Procs /\ Cardinality(Main) = 0
  BY FS_EmptySet DEF Main, Procs

LEMMA NobodyIsProc == Nobody \in Proc
  BY FeedsAssumption DEF Nobody, Proc, Stages

-----------------------------------------------------------------------------
LEMMA InitInv == Init => Inv
  <1> SUFFICES ASSUME Init PROVE Inv
    OBVIOUS
  <1>1. \A p \in Procs : proc[p] = IF p = Main THEN [Nobody EXCEPT !.stage = "calls"] ELSE Nobody
    BY DEF Init
  <1>2. \A p \in Procs : proc[p] \in Proc
    BY <1>1, NobodyIsProc DEF Nobody, Proc, Stages
  <1>3. TypeOK
    <2>1. proc \in [Procs -> Proc]
      BY <1>2 DEF Init
    <2>2. listening \in BOOLEAN /\ restarted \in Restarts
      BY DEF Init, Restarts
    <2>3. interrupts \in 0 .. MaxInterrupts
      BY FeedsAssumption DEF Init
    <2>4. QED
      BY <2>1, <2>2, <2>3 DEF TypeOK
  <1>4. ForkedInTurn
    BY <1>1 DEF ForkedInTurn, Live, Nobody, Main
  <1>5. ASSUME NEW p \in Procs PROVE Retired(p)
    <2>1. interrupts = 0 /\ Cardinality(p) \in Nat
      BY ProcCardinality DEF Init
    <2>2. proc[p].stage \in {"none", "calls"} /\ ~proc[p].told
      BY <1>1 DEF Nobody
    <2>3. QED
      BY <2>1, <2>2 DEF Retired
  <1>6. HeldOnlyBefore
    BY DEF Init, HeldOnlyBefore
  <1>7. QED
    BY <1>3, <1>4, <1>5, <1>6 DEF Inv

(* A step that changes one process, in a way its type and its place among  *)
(* the forks allow.                                                        *)
LEMMA OneProcess ==
  ASSUME Inv, NEW p \in Procs, NEW r \in Proc, proc' = [proc EXCEPT ![p] = r],
         UNCHANGED interrupts, HeldOnlyBefore', restarted' \in Restarts,
         listening' \in BOOLEAN,
         r.stage # "none" => /\ Live(p)
                             /\ proc[p].next <= r.next,
         r.stage \in {"born", "feed"} /\ ~r.told =>
           proc[p].stage \in {"born", "feed"} /\ ~proc[p].told,
         r.told => r.stage = "feed"
  PROVE  Inv'
  <1>1. TypeOK'
    BY DEF Inv, TypeOK
  <1>2. proc'[p] = r /\ \A q \in Procs : q # p => proc'[q] = proc[q]
    BY DEF Inv, TypeOK
  <1>3. ForkedInTurn'
    <2> SUFFICES ASSUME NEW q \in Procs, Live(q)', NEW c \in q PROVE c < proc'[q].next
      BY DEF ForkedInTurn
    <2>1. CASE q = p
      <3>1. Live(p) /\ c < proc[p].next /\ proc[p].next <= r.next
        BY <1>2, <2>1 DEF Inv, ForkedInTurn, Live
      <3>2. c \in Int /\ proc[p].next \in Int /\ r.next \in Int
        BY FeedsAssumption DEF Inv, TypeOK, Proc, Procs, Cameras
      <3>3. QED
        BY <3>1, <3>2, <1>2, <2>1
    <2>2. CASE q # p
      BY <1>2, <2>2 DEF Inv, ForkedInTurn, Live
    <2>3. QED
      BY <2>1, <2>2
  <1>4. ASSUME NEW q \in Procs PROVE Retired(q)'
    BY <1>2 DEF Inv, Retired, Live
  <1>5. QED
    BY <1>1, <1>3, <1>4 DEF Inv

LEMMA ForkInv == ASSUME Inv, NEW p \in Procs, Fork(p) PROVE Inv'
  <1> DEFINE c == proc[p].next
             q == p \cup {c}
             child == [stage |-> "born", next |-> c + 1, told |-> FALSE, socket |-> proc[p].socket]
  <1>1. /\ N \in Nat /\ c \in 0 .. N /\ c < N /\ proc[p].stage = "calls" /\ proc[p] \in Proc
        /\ proc' = [proc EXCEPT ![p].next = c + 1, ![q] = child]
        /\ UNCHANGED <<listening, interrupts, restarted>>
    BY FeedsAssumption DEF Fork, Inv, TypeOK, Proc
  <1>2. c \in Cameras /\ c \notin p /\ \A x \in p : x < c
    BY <1>1 DEF Inv, ForkedInTurn, Live, Cameras
  <1>3. q \in Procs /\ q # p /\ Cardinality(q) = Cardinality(p) + 1
    BY <1>2, ChildCardinality
  <1> HIDE DEF q, child
  <1>4. /\ proc'[q] = child
        /\ proc'[p] = [proc[p] EXCEPT !.next = c + 1]
        /\ \A x \in Procs : x \notin {p, q} => proc'[x] = proc[x]
    BY <1>1, <1>3 DEF Inv, TypeOK
  <1>5. child \in Proc /\ child.stage = "born" /\ ~child.told /\ child.next = c + 1
    BY <1>1 DEF child, Proc, Stages
  <1>6. TypeOK'
    <2>1. \A x \in Procs : proc'[x] \in Proc
      BY <1>1, <1>4, <1>5 DEF Inv, TypeOK, Proc
    <2>2. proc' \in [Procs -> Proc]
      BY <1>1, <2>1 DEF Inv, TypeOK
    <2>3. QED
      BY <1>1, <2>2 DEF Inv, TypeOK
  <1>7. ForkedInTurn'
    <2> SUFFICES ASSUME NEW x \in Procs, Live(x)', NEW y \in x PROVE y < proc'[x].next
      BY DEF ForkedInTurn
    <2>1. CASE x = p
      <3>1. y < c /\ y \in Int
        BY <1>2, <2>1 DEF Procs, Cameras
      <3>2. proc'[x].next = c + 1
        BY <1>1, <1>4, <2>1 DEF Proc
      <3>3. QED
        BY <3>1, <3>2, <1>1
    <2>2. CASE x = q
      <3>1. y \in p \/ y = c
        BY <2>2 DEF q
      <3>2. y <= c /\ y \in Int
        BY <3>1, <1>1, <1>2 DEF Procs, Cameras
      <3>3. QED
        BY <3>2, <1>1, <1>4, <1>5, <2>2
    <2>3. CASE x \notin {p, q}
      BY <1>4, <2>3 DEF Inv, ForkedInTurn, Live
    <2>4. QED
      BY <2>1, <2>2, <2>3
  <1>8. ASSUME NEW x \in Procs PROVE Retired(x)'
    <2>1. CASE x = p
      BY <1>1, <1>4, <2>1 DEF Inv, Retired, Live, Proc
    <2>2. CASE x = q
      <3>1. Cardinality(p) >= interrupts
        BY <1>1 DEF Inv, Retired, Live
      <3>2. Cardinality(q) > interrupts /\ Cardinality(q) >= interrupts
        BY <3>1, <1>3, ProcCardinality, FeedsAssumption DEF Inv, TypeOK
      <3>3. QED
        BY <3>2, <1>1, <1>4, <1>5, <2>2 DEF Retired
    <2>3. CASE x \notin {p, q}
      BY <1>1, <1>4, <2>3 DEF Inv, Retired, Live
    <2>4. QED
      BY <2>1, <2>2, <2>3
  <1>9. QED
    BY <1>1, <1>6, <1>7, <1>8 DEF Inv, HeldOnlyBefore

LEMMA InterruptInv == ASSUME Inv, Interrupt PROVE Inv'
  <1>1. /\ \A p \in Procs : proc'[p] = IF Feeding(p) THEN [proc[p] EXCEPT !.told = TRUE] ELSE Nobody
        /\ proc' = [p \in Procs |-> proc'[p]]
        /\ restarted = "no" /\ UNCHANGED <<listening, restarted>>
    BY DEF Interrupt, Shielded
  <1>2. /\ interrupts \in Nat /\ interrupts' \in 0 .. MaxInterrupts
        /\ \/ interrupts' = interrupts
           \/ interrupts' = interrupts + 1 /\ \A p \in Procs : ~proc[p].told
    BY FeedsAssumption DEF Interrupt, Inv, TypeOK
  <1>3. ASSUME NEW p \in Procs
        PROVE  /\ proc'[p] \in Proc
               /\ Feeding(p) => /\ proc'[p].stage = "feed" /\ proc'[p].told
                                /\ proc'[p].next = proc[p].next
               /\ ~Feeding(p) => proc'[p].stage = "none" /\ ~proc'[p].told
    <2>1. proc[p] \in Proc
      BY DEF Inv, TypeOK
    <2>2. CASE Feeding(p)
      BY <1>1, <2>1, <2>2 DEF Proc, Feeding
    <2>3. CASE ~Feeding(p)
      <3>1. proc'[p] = Nobody
        BY <1>1, <2>3
      <3>2. QED
        BY <3>1, <2>3, NobodyIsProc DEF Nobody
    <2>4. QED
      BY <2>2, <2>3
  <1>4. TypeOK'
    BY <1>1, <1>2, <1>3 DEF Inv, TypeOK
  <1>5. ForkedInTurn'
    BY <1>3 DEF Inv, ForkedInTurn, Live, Feeding
  <1>6. ASSUME NEW p \in Procs PROVE Retired(p)'
    <2>1. CASE Feeding(p)
      <3>1. Cardinality(p) >= interrupts /\ (~proc[p].told => Cardinality(p) > interrupts)
        BY <2>1 DEF Inv, Retired, Live, Feeding
      <3>2. Cardinality(p) >= interrupts'
        BY <3>1, <1>2, ProcCardinality
      <3>3. QED
        BY <3>2, <1>3, <2>1 DEF Retired
    <2>2. CASE ~Feeding(p)
      BY <1>3, <2>2 DEF Retired, Live
    <2>3. QED
      BY <2>1, <2>2
  <1>7. HeldOnlyBefore'
    BY <1>1 DEF HeldOnlyBefore
  <1>8. QED
    BY <1>4, <1>5, <1>6, <1>7 DEF Inv

LEMMA NextInv == Inv /\ [Next]_vars => Inv'
  <1> SUFFICES ASSUME Inv, [Next]_vars PROVE Inv'
    OBVIOUS
  <1> USE FeedsAssumption
  <1>1. CASE Listen
    <2>1. Main \in Procs /\ proc[Main] \in Proc
      BY MainCardinality DEF Inv, TypeOK
    <2> DEFINE r == [proc[Main] EXCEPT !.socket = TRUE]
    <2>2. /\ proc' = [proc EXCEPT ![Main] = r] /\ Live(Main)
          /\ r \in Proc /\ r.next = proc[Main].next
          /\ r.stage = proc[Main].stage /\ r.told = proc[Main].told
      BY <1>1, <2>1 DEF Listen, Proc
    <2> HIDE DEF r
    <2>3. r.next <= r.next /\ Retired(Main)
      BY <2>1, <2>2 DEF Inv, Proc
    <2>4. QED
      BY <1>1, <2>1, <2>2, <2>3, OneProcess DEF Listen, Inv, TypeOK, HeldOnlyBefore, Retired
  <1>2. CASE Interrupt
    BY <1>2, InterruptInv
  <1>3. CASE MainDies
    <2>1. Main \in Procs
      BY MainCardinality
    <2>2. QED
      BY <1>3, <2>1, NobodyIsProc, OneProcess DEF MainDies, Inv, TypeOK, HeldOnlyBefore, Nobody
  <1>4. CASE Restart
    <2>1. ASSUME restarted' = "held" PROVE interrupts <= N
      <3>1. PICK p \in Procs : Live(p)
        BY <1>4, <2>1 DEF Restart
      <3>2. QED
        BY <3>1, ProcCardinality DEF Inv, Retired, TypeOK
    <2>2. QED
      BY <1>4, <2>1 DEF Restart, Restarts, Inv, TypeOK, ForkedInTurn, Retired, Live, HeldOnlyBefore
  <1>5. ASSUME NEW p \in Procs, Runs(p) PROVE Inv'
    <2>1. proc[p] \in Proc /\ Retired(p)
      BY DEF Inv, TypeOK
    <2>2. CASE Fork(p)
      BY <2>2, ForkInv
    <2>3. CASE ForkFails(p)
      <3> DEFINE r == [proc[p] EXCEPT !.next = @ + 1]
      <3>1. /\ proc' = [proc EXCEPT ![p] = r] /\ Live(p) /\ r \in Proc
            /\ proc[p].next <= r.next /\ r.stage = "calls" /\ r.told = proc[p].told
        BY <2>1, <2>3 DEF ForkFails, Proc, Live
      <3> HIDE DEF r
      <3>2. QED
        BY <2>1, <2>3, <3>1, OneProcess DEF ForkFails, Inv, TypeOK, HeldOnlyBefore, Retired
    <2>4. CASE Feed(p)
      <3> DEFINE r == [proc[p] EXCEPT !.stage = "feed"]
      <3>1. /\ proc' = [proc EXCEPT ![p] = r] /\ Live(p) /\ r \in Proc /\ proc[p].stage = "born"
            /\ proc[p].next <= r.next /\ r.stage = "feed" /\ r.told = proc[p].told
        BY <2>1, <2>4 DEF Feed, Proc, Live, Stages
      <3> HIDE DEF r
      <3>2. UNCHANGED <<listening, interrupts, restarted>>
        BY <2>4 DEF Feed
      <3>3. HeldOnlyBefore' /\ listening' \in BOOLEAN /\ restarted' \in Restarts
        BY <3>2 DEF Inv, TypeOK, HeldOnlyBefore
      <3>4. r.stage \in {"born", "feed"} /\ ~r.told => proc[p].stage \in {"born", "feed"} /\ ~proc[p].told
        BY <3>1
      <3>5. r.told => r.stage = "feed"
        BY <3>1
      <3>6. QED
        BY <3>1, <3>2, <3>3, <3>4, <3>5, OneProcess
    <2>5. CASE GrabberEnds(p)
      <3> DEFINE r == [proc[p] EXCEPT !.stage = "calls", !.told = FALSE]
      <3>1. proc' = [proc EXCEPT ![p] = r] /\ Live(p)
        BY <2>1, <2>5 DEF GrabberEnds, Feeding, Proc, Live
      <3>2. r \in Proc /\ r.next = proc[p].next /\ r.stage = "calls" /\ ~r.told
        BY <2>1 DEF Proc, Stages
      <3>3. proc[p].next <= r.next
        BY <2>1, <3>2 DEF Proc
      <3> HIDE DEF r
      <3>4. QED
        BY <2>1, <2>5, <3>1, <3>2, <3>3, OneProcess DEF GrabberEnds, Inv, TypeOK, HeldOnlyBefore
    <2>6. CASE JoinReturns(p)
      BY <2>6, NobodyIsProc, OneProcess DEF JoinReturns, Inv, TypeOK, HeldOnlyBefore, Nobody
    <2>7. QED
      BY <1>5, <2>2, <2>3, <2>4, <2>5, <2>6 DEF Runs
  <1>6. CASE UNCHANGED vars
    BY <1>6 DEF vars, Inv, TypeOK, ForkedInTurn, Retired, Live, HeldOnlyBefore
  <1>7. QED
    BY <1>1, <1>2, <1>3, <1>4, <1>5, <1>6 DEF Next

-----------------------------------------------------------------------------
(* The processes of the feeds always have the form TypeOK gives them: no   *)
(* child calls init_camera_feed once more than main does.                  *)
THEOREM FeedsTypeOK == Spec => []TypeOK
  <1>1. Inv => TypeOK
    BY DEF Inv
  <1>2. QED
    BY InitInv, NextInv, <1>1, PTL DEF Spec, SafeSpec

(* However the forks, the grabbers and the interrupts interleave, k of     *)
(* these leave only processes that are k forks away from main; so that a   *)
(* program started again can find its port held by its predecessor's       *)
(* children only while there have been no more interrupts than cameras.    *)
THEOREM InterruptsRetireAlways == Spec => []InterruptsRetire
  <1>1. Inv => InterruptsRetire
    BY DEF Inv, Retired, InterruptsRetire, ProcessesRetire, Feeding
  <1>2. QED
    BY InitInv, NextInv, <1>1, PTL DEF Spec, SafeSpec

-----------------------------------------------------------------------------
LEMMA NoneBegins ==
  ASSUME Inv, [Next]_vars, interrupts >= N, NEW p \in Procs, Feeding(p)'
  PROVE  Feeding(p)
  <1>1. Cardinality(p) <= interrupts /\ Cardinality(p) \in Nat /\ interrupts \in Nat
    BY ProcCardinality, FeedsAssumption DEF Inv, TypeOK
  <1>2. proc[p].stage # "born" /\ proc \in [Procs -> Proc]
    BY <1>1 DEF Inv, Retired, TypeOK
  <1>3. CASE Interrupt
    BY <1>3 DEF Interrupt, Shielded, Feeding, Nobody
  <1>4. CASE Listen \/ MainDies \/ Restart \/ UNCHANGED vars
    BY <1>2, <1>4, MainCardinality DEF Listen, MainDies, Restart, vars, Feeding, Nobody, Proc
  <1>5. ASSUME NEW q \in Procs, Runs(q) PROVE Feeding(p)
    <2>1. CASE Fork(q)
      <3>1. proc[q].stage = "calls" /\ proc[q].next < N /\ proc[q].next \in 0 .. N
        BY <1>2, <2>1 DEF Fork, Proc
      <3>2. proc[q].next \in Cameras
        BY <3>1, FeedsAssumption DEF Cameras
      <3>3. q \cup {proc[q].next} \in Procs
        BY <3>2 DEF Procs
      <3>4. QED
        BY <1>2, <2>1, <3>3 DEF Fork, Feeding, Proc
    <2>2. CASE Feed(q)
      BY <1>2, <2>2 DEF Feed, Feeding, Proc
    <2>3. CASE ForkFails(q) \/ GrabberEnds(q) \/ JoinReturns(q)
      BY <1>2, <2>3 DEF ForkFails, GrabberEnds, JoinReturns, Feeding, Nobody, Proc
    <2>4. QED
      BY <1>5, <2>1, <2>2, <2>3 DEF Runs
  <1>6. QED
    BY <1>3, <1>4, <1>5 DEF Next

(* Once there have been as many interrupts as cameras no feed begins any   *)
(* more, although processes may still fork: every grabber that still runs  *)
(* has been told to end.  That these do end, and so FeedsStop, is left to  *)
(* their fairness.                                                         *)
THEOREM NoFeedBegins ==
  Spec => /\ [](interrupts >= N => \A p \in Procs : Feeding(p) => proc[p].told)
          /\ [][interrupts >= N => \A p \in Procs : Feeding(p)' => Feeding(p)]_vars
  <1>1. Inv => (interrupts >= N => \A p \in Procs : Feeding(p) => proc[p].told)
    <2> SUFFICES ASSUME Inv, interrupts >= N, NEW p \in Procs, Feeding(p) PROVE proc[p].told
      OBVIOUS
    <2>1. Cardinality(p) <= interrupts /\ Cardinality(p) \in Nat /\ interrupts \in Nat
      BY ProcCardinality, FeedsAssumption DEF Inv, TypeOK
    <2>2. QED
      BY <2>1 DEF Inv, Retired, Feeding
  <1>2. Inv /\ [Next]_vars =>
          [interrupts >= N => \A p \in Procs : Feeding(p)' => Feeding(p)]_vars
    BY NoneBegins
  <1>3. QED
    BY <1>1, <1>2, InitInv, NextInv, PTL DEF Spec, SafeSpec
=============================================================================
