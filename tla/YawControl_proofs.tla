-------------------------- MODULE YawControl_proofs --------------------------
(***************************************************************************)
(* Proofs about YawControl: the ring of errors, for any size of the ring   *)
(* and whatever its memory held, and the steering law, for any step.       *)
(***************************************************************************)
EXTENDS YawControl, WellFoundedInduction, TLAPS

LEMMA NextSlotIs ==
  ASSUME NEW j \in Slots
  PROVE  /\ NextSlot(j) = IF j = NUM_ERRORS - 1 THEN 0 ELSE j + 1
         /\ NextSlot(j) \in Slots
<1>1. NUM_ERRORS \in Nat /\ NUM_ERRORS >= 2
  BY YawAssumption
<1>2. CASE j = NUM_ERRORS - 1
  BY <1>1, <1>2 DEF NextSlot, Slots
<1>3. CASE j # NUM_ERRORS - 1
  BY <1>1, <1>3 DEF NextSlot, Slots
<1> QED BY <1>2, <1>3

(* Going back from the next slot: the slot itself, then the ones before.   *)
LEMMA BackFromNext ==
  ASSUME NEW j \in Slots, NEW k \in Slots, k # 0
  PROVE  /\ Back(NextSlot(j), k) = Back(j, k - 1)
         /\ Back(NextSlot(j), k) # NextSlot(j)
         /\ Back(j, k) \in Slots /\ Back(j, k) # j
BY NextSlotIs, YawAssumption DEF Back, Slots

(* The shape of the ring and of its history.                               *)
RingOK == /\ i \in Slots
          /\ yaw_errors = [j \in Slots |-> yaw_errors[j]]
          /\ last = [k \in Slots |-> last[k]]

(* Between Sample and Steer slot i is the oldest, about to be overwritten: *)
(* the newest error is in the slot before.                                 *)
WindowBehind ==
  pc = "steer" => \A k \in Slots \ {0} :
                    last[k - 1] # NoError => yaw_errors[Back(i, k)] = last[k - 1]

IInv == RingOK /\ RingIsWindow /\ WindowBehind

LEMMA InductiveInit == Init => IInv
<1> SUFFICES ASSUME Init PROVE IInv
  OBVIOUS
<1>1. RingOK
  BY YawAssumption DEF Init, RingOK, Slots
<1>2. RingIsWindow /\ WindowBehind
  BY DEF Init, RingIsWindow, WindowBehind
<1> QED BY <1>1, <1>2 DEF IInv

LEMMA InductiveStep == IInv /\ [Next]_vars => IInv'
<1> SUFFICES ASSUME IInv, [Next]_vars PROVE IInv'
  OBVIOUS
<1>1. CASE Sample
  <2>1. i' = NextSlot(i) /\ i' \in Slots
    BY <1>1, NextSlotIs DEF Sample, IInv, RingOK
  <2>2. RingOK'
    BY <1>1, <2>1 DEF Sample, IInv, RingOK
  <2>3. ASSUME NEW k \in Slots \ {0}, last[k - 1] # NoError
        PROVE  yaw_errors[Back(i', k)] = last[k - 1]
    <3>1. k - 1 \in Slots
      BY YawAssumption DEF Slots
    <3>2. Back(i', k) = Back(i, k - 1)
      BY <2>1, BackFromNext DEF IInv, RingOK
    <3> QED BY <1>1, <2>3, <3>1, <3>2 DEF Sample, IInv, RingIsWindow
  <2>4. RingIsWindow' /\ WindowBehind'
    BY <1>1, <2>3 DEF Sample, RingIsWindow, WindowBehind
  <2> QED BY <2>2, <2>4 DEF IInv
<1>2. CASE Steer
  <2> DEFINE e == Error(s_yaw, target)
  <2>1. /\ yaw_errors' = [yaw_errors EXCEPT ![i] = e]
        /\ last' = [k \in Slots |-> IF k = 0 THEN e ELSE last[k - 1]]
        /\ i' = i /\ pc = "steer" /\ pc' = "moving"
    BY <1>2 DEF Steer
  <2>2. i \in Slots /\ yaw_errors = [j \in Slots |-> yaw_errors[j]]
    BY DEF IInv, RingOK
  <2> HIDE DEF e
  <2>3. RingOK'
    BY <2>1, <2>2 DEF RingOK
  <2>4. ASSUME NEW k \in Slots, last'[k] # NoError
        PROVE  yaw_errors'[Back(i', k)] = last'[k]
    <3>1. CASE k = 0
      BY <2>1, <2>2, <3>1 DEF Back, Slots
    <3>2. CASE k # 0
      <4>1. last'[k] = last[k - 1]
        BY <2>1, <3>2
      <4>2. Back(i, k) \in Slots /\ Back(i, k) # i
        BY <2>2, <3>2, BackFromNext
      <4>3. yaw_errors[Back(i, k)] = last[k - 1]
        BY <2>1, <2>4, <3>2, <4>1 DEF IInv, WindowBehind
      <4> QED BY <2>1, <2>2, <4>1, <4>2, <4>3
    <3> QED BY <3>1, <3>2
  <2>5. RingIsWindow' /\ WindowBehind'
    BY <2>1, <2>4 DEF RingIsWindow, WindowBehind
  <2> QED BY <2>3, <2>5 DEF IInv
<1>3. CASE Turn \/ Coast
  <2>1. pc = "moving" /\ pc' = "sample" /\ UNCHANGED <<i, yaw_errors, last>>
    BY <1>3 DEF Turn, Coast, Wake
  <2> QED BY <2>1 DEF IInv, RingOK, RingIsWindow, WindowBehind
<1>4. CASE Drive \/ SetMode \/ SetPidValues \/ SetCurrentOrientation \/ UNCHANGED vars
  <2>1. UNCHANGED <<pc, i, yaw_errors, last>>
    BY <1>4 DEF Drive, SetMode, SetPidValues, SetCurrentOrientation, vars, controller
  <2> QED BY <2>1 DEF IInv, RingOK, RingIsWindow, WindowBehind
<1> QED BY <1>1, <1>2, <1>3, <1>4 DEF Next

(* The sum of the integral part is over the last errors and nothing else   *)
(* as soon as there have been enough of them, whatever memory the ring was *)
(* given and however often the mode was changed in between.                *)
THEOREM RingIsWindowAlways == SafeSpec => []RingIsWindow
<1>1. IInv => RingIsWindow
  BY DEF IInv
<1> QED BY <1>1, InductiveInit, InductiveStep, PTL DEF SafeSpec
-----------------------------------------------------------------------------
(* Induction over the naturals, for a set: NatInduction, whose parameter   *)
(* is an operator, says the same.                                          *)
LEMMA SetInduction ==
  ASSUME NEW S \in SUBSET Nat, 0 \in S, \A n \in S : n + 1 \in S
  PROVE  S = Nat
<1> DEFINE T == Nat \ S
           R == OpToRel(<, Nat)
<1>1. SUFFICES ASSUME T # {} PROVE FALSE
  OBVIOUS
<1>2. IsWellFoundedOn(R, Nat)
  BY NatLessThanWellFounded
<1>3. PICK x \in T : \A y \in T : <<y, x>> \notin R
  <2> HIDE DEF R
  <2>1. T \subseteq Nat
    OBVIOUS
  <2> HIDE DEF T
  <2> QED BY <1>1, <1>2, <2>1, WFMin
<1>4. x # 0 /\ x - 1 \in Nat /\ x - 1 + 1 = x
  OBVIOUS
<1>5. x - 1 \in T
  BY <1>4
<1>6. <<x - 1, x>> \in R
  BY <1>4, <1>5 DEF OpToRel
<1> QED BY <1>3, <1>5, <1>6

(* s[n] is the sum of the first n slots of ring, up to n = m.              *)
PartialSums(s, ring, m) ==
  /\ s \in [0 .. m -> Int]
  /\ s[0] = 0
  /\ \A n \in 1 .. m : s[n] = s[n - 1] + ring[n - 1]

LEMMA PartialSumsExist ==
  ASSUME NEW ring \in [Slots -> Int]
  PROVE  \E s : PartialSums(s, ring, NUM_ERRORS)
<1> DEFINE S == {m \in Nat : m <= NUM_ERRORS => \E s : PartialSums(s, ring, m)}
<1>1. NUM_ERRORS \in Nat
  BY YawAssumption
<1>2. 0 \in S
  <2>1. PartialSums([n \in 0 .. 0 |-> 0], ring, 0)
    BY DEF PartialSums
  <2> QED BY <2>1
<1>3. ASSUME NEW m \in S PROVE m + 1 \in S
  <2>1. SUFFICES ASSUME m + 1 <= NUM_ERRORS
                 PROVE  \E s : PartialSums(s, ring, m + 1)
    OBVIOUS
  <2>2. PICK s : PartialSums(s, ring, m)
    BY <1>1, <1>3, <2>1
  <2>3. m \in Slots /\ m \in Nat
    BY <1>1, <1>3, <2>1 DEF Slots
  <2> DEFINE t == [n \in 0 .. m + 1 |-> IF n = m + 1 THEN s[m] + ring[m] ELSE s[n]]
  <2>4. s[m] + ring[m] \in Int
    BY <2>2, <2>3 DEF PartialSums
  <2>5. t \in [0 .. m + 1 -> Int] /\ t[0] = 0
    BY <2>2, <2>3, <2>4 DEF PartialSums
  <2>6. ASSUME NEW n \in 1 .. m + 1 PROVE t[n] = t[n - 1] + ring[n - 1]
    BY <2>2, <2>3 DEF PartialSums
  <2> QED BY <2>5, <2>6 DEF PartialSums
<1> HIDE DEF S
<1>4. NUM_ERRORS \in S
  <2>1. S \in SUBSET Nat
    BY DEF S
  <2> QED BY <1>1, <1>2, <1>3, <2>1, SetInduction
<1> QED BY <1>4 DEF S

(* What the function in Total is: it exists, and is a table of such sums.  *)
LEMMA TotalIs ==
  ASSUME NEW ring \in [Slots -> Int]
  PROVE  \E s : PartialSums(s, ring, NUM_ERRORS) /\ Total(ring) = s[NUM_ERRORS]
<1> DEFINE Loop(s) == s = [n \in 0 .. NUM_ERRORS |-> IF n = 0 THEN 0 ELSE s[n - 1] + ring[n - 1]]
           sum == CHOOSE s : Loop(s)
<1>1. NUM_ERRORS \in Nat
  BY YawAssumption
<1>2. Total(ring) = sum[NUM_ERRORS]
  BY DEF Total
<1>3. PICK s : PartialSums(s, ring, NUM_ERRORS)
  BY PartialSumsExist
<1>4. Loop(s)
  <2> DEFINE f == [n \in 0 .. NUM_ERRORS |-> IF n = 0 THEN 0 ELSE s[n - 1] + ring[n - 1]]
  <2>1. s = [n \in 0 .. NUM_ERRORS |-> s[n]]
    BY <1>3 DEF PartialSums
  <2>2. ASSUME NEW n \in 0 .. NUM_ERRORS PROVE s[n] = f[n]
    <3>1. CASE n = 0
      BY <1>3, <3>1 DEF PartialSums
    <3>2. CASE n # 0
      <4>1. n \in 1 .. NUM_ERRORS
        BY <1>1, <3>2
      <4> QED BY <1>3, <3>2, <4>1 DEF PartialSums
    <3> QED BY <3>1, <3>2
  <2> QED BY <2>1, <2>2
<1>5. Loop(sum)
  BY <1>4
<1> HIDE DEF sum
<1>6. sum[0] = 0 /\ \A n \in 1 .. NUM_ERRORS : sum[n] = sum[n - 1] + ring[n - 1]
  <2> DEFINE f == [n \in 0 .. NUM_ERRORS |-> IF n = 0 THEN 0 ELSE sum[n - 1] + ring[n - 1]]
  <2>1. sum = f
    BY <1>5
  <2>2. f[0] = 0
    BY <1>1
  <2>3. ASSUME NEW n \in 1 .. NUM_ERRORS PROVE f[n] = sum[n - 1] + ring[n - 1]
    <3>1. n # 0 /\ n \in 0 .. NUM_ERRORS
      BY <1>1
    <3> HIDE DEF sum
    <3> QED BY <3>1, Zenon
  <2> HIDE DEF f
  <2> QED BY <2>1, <2>2, <2>3
<1> DEFINE S == {n \in Nat : n <= NUM_ERRORS => sum[n] \in Int}
<1>7. 0 \in S
  BY <1>6
<1>8. ASSUME NEW n \in S PROVE n + 1 \in S
  <2>1. SUFFICES ASSUME n + 1 <= NUM_ERRORS PROVE sum[n + 1] \in Int
    OBVIOUS
  <2>2. sum[n] \in Int /\ ring[n] \in Int /\ n + 1 \in 1 .. NUM_ERRORS /\ n + 1 - 1 = n
    BY <1>1, <1>8, <2>1 DEF Slots
  <2>3. sum[n + 1] = sum[n] + ring[n]
    BY <1>6, <2>2
  <2> QED BY <2>2, <2>3
<1>9. S = Nat
  <2>1. S \in SUBSET Nat
    OBVIOUS
  <2> HIDE DEF S
  <2> QED BY <1>7, <1>8, <2>1, SetInduction
<1>10. sum \in [0 .. NUM_ERRORS -> Int]
  <2>1. ASSUME NEW n \in 0 .. NUM_ERRORS PROVE sum[n] \in Int
    BY <1>1, <1>9
  <2> QED BY <1>5, <2>1
<1> QED BY <1>2, <1>6, <1>10 DEF PartialSums

LEMMA TotalType ==
  ASSUME NEW ring \in [Slots -> Int]
  PROVE  Total(ring) \in Int
<1>1. NUM_ERRORS \in 0 .. NUM_ERRORS
  BY YawAssumption
<1> QED BY <1>1, TotalIs DEF PartialSums

(* A sum of errors is at least that of any two of them, and exactly that   *)
(* when the others are 0.                                                  *)
LEMMA TotalOfTwo ==
  ASSUME NEW ring \in [Slots -> Nat],
         NEW j \in Slots, NEW k \in Slots, j # k
  PROVE  /\ Total(ring) \in Int
         /\ Total(ring) >= ring[j] + ring[k]
         /\ (\A l \in Slots \ {j, k} : ring[l] = 0) => Total(ring) = ring[j] + ring[k]
<1> DEFINE OthersZero == \A l \in Slots \ {j, k} : ring[l] = 0
           Passed(n, p) == IF p < n THEN ring[p] ELSE 0
           Two(n) == Passed(n, j) + Passed(n, k)
<1>1. NUM_ERRORS \in Nat /\ j \in Nat /\ k \in Nat /\ j < NUM_ERRORS /\ k < NUM_ERRORS
  BY YawAssumption DEF Slots
<1>2. PICK s : PartialSums(s, ring, NUM_ERRORS) /\ Total(ring) = s[NUM_ERRORS]
  BY TotalIs
<1> DEFINE S == {n \in Nat : n <= NUM_ERRORS =>
                               s[n] >= Two(n) /\ (OthersZero => s[n] = Two(n))}
<1>3. 0 \in S
  BY <1>1, <1>2 DEF PartialSums
<1>4. ASSUME NEW n \in S PROVE n + 1 \in S
  <2>1. SUFFICES ASSUME n + 1 <= NUM_ERRORS
                 PROVE  s[n + 1] >= Two(n + 1) /\ (OthersZero => s[n + 1] = Two(n + 1))
    OBVIOUS
  <2>2. /\ n \in Nat /\ n \in Slots /\ n + 1 \in 1 .. NUM_ERRORS /\ n + 1 - 1 = n
        /\ n \in 0 .. NUM_ERRORS
    BY <1>1, <1>4, <2>1 DEF Slots
  <2>3. s[n + 1] = s[n] + ring[n] /\ s[n] \in Int /\ ring[n] \in Nat
    BY <1>2, <2>2 DEF PartialSums
  <2>4. s[n] >= Two(n) /\ (OthersZero => s[n] = Two(n))
    BY <1>4, <2>1, <2>2
  <2>5. ring[j] \in Nat /\ ring[k] \in Nat
    OBVIOUS
  <2>6. CASE n = j
    BY <1>1, <2>2, <2>3, <2>4, <2>5, <2>6
  <2>7. CASE n = k
    BY <1>1, <2>2, <2>3, <2>4, <2>5, <2>7
  <2>8. CASE n # j /\ n # k
    BY <1>1, <2>2, <2>3, <2>4, <2>5, <2>8
  <2> QED BY <2>6, <2>7, <2>8
<1>5. S = Nat
  <2>1. S \in SUBSET Nat
    OBVIOUS
  <2> HIDE DEF S
  <2> QED BY <1>3, <1>4, <2>1, SetInduction
<1>6. s[NUM_ERRORS] >= Two(NUM_ERRORS) /\ (OthersZero => s[NUM_ERRORS] = Two(NUM_ERRORS))
  BY <1>1, <1>5
<1>7. Total(ring) \in Int
  BY TotalType
<1> QED BY <1>1, <1>2, <1>6, <1>7
-----------------------------------------------------------------------------
LEMMA StepIs == Step \in Nat \ {0} /\ Step * Half = 180
BY YawAssumption DEF Step

LEMMA HeadingsApart ==
  ASSUME NEW x \in Int, NEW y \in Int, Step * x < Step * y
  PROVE  Step * x + Step <= Step * y
<1>1. Step \in Nat \ {0}
  BY StepIs
<1>2. x < y
  <2> SUFFICES ASSUME x >= y PROVE FALSE
    OBVIOUS
  <2>1. Step * (x - y) >= 0
    BY <1>1
  <2> QED BY <1>1, <2>1
<1>3. Step * (y - x - 1) >= 0
  BY <1>1, <1>2
<1> QED BY <1>1, <1>3

(* Two distances from 0 that differ, differ by a step at least.            *)
LEMMA DistancesApart ==
  ASSUME NEW a \in Headings, NEW t \in Headings, Abs(a) < Abs(t)
  PROVE  /\ a \in Int /\ t \in Int /\ Abs(a) + Step <= Abs(t)
         /\ Abs(t) <= 180
<1>1. PICK h \in (-Half) .. Half : a = Step * h
  BY DEF Headings
<1>2. PICK g \in (-Half) .. Half : t = Step * g
  BY DEF Headings
<1>3. Half \in Nat /\ Step \in Nat \ {0} /\ Step * Half = 180
  BY StepIs, YawAssumption
<1>4. Abs(a) = Step * Abs(h) /\ Abs(h) \in Int
  BY <1>1, <1>3 DEF Abs
<1>5. Abs(t) = Step * Abs(g) /\ Abs(g) \in Int /\ Abs(g) <= Half
  BY <1>2, <1>3 DEF Abs
<1>6. Abs(a) + Step <= Abs(t)
  BY <1>4, <1>5, HeadingsApart
<1>7. Step * (Half - Abs(g)) >= 0
  BY <1>3, <1>5
<1> QED BY <1>1, <1>2, <1>3, <1>5, <1>6, <1>7

(* The steering law and the thrusters' assignment agree with the way the   *)
(* vehicle turns: unless the PID value is negative, a turn by one step     *)
(* never takes it further from the target's distance from 0, nor to the    *)
(* other side of 0 when the target is on this one.                         *)
THEOREM SteersTowards ==
  ASSUME NEW a \in Headings, NEW t \in Headings, NEW pid \in Int,
         pid >= 0 \/ Error(a, t) = 0
  PROVE  LET b == Turned(a, Thrusts(a, t, pid))
         IN  /\ Distance(b, t) <= Distance(a, t)
             /\ SameSide(a, t) => SameSide(b, t)
<1> DEFINE b == Turned(a, Thrusts(a, t, pid))
<1>1. a \in Int /\ t \in Int /\ Step \in Nat \ {0}
  BY StepIs, YawAssumption DEF Headings
<1>2. CASE Abs(a) = Abs(t) \/ pid = 0
  <2>1. Abs(a) = Abs(t) => ~Clockwise(a, t) /\ ~Counterclockwise(a, t)
    BY <1>1 DEF Clockwise, Counterclockwise, Abs
  <2>2. b = a
    BY <1>2, <2>1 DEF Turned, Thrusts, AtMost, Forward, Most
  <2> QED BY <1>1, <2>2 DEF Distance, Abs
<1>3. CASE Abs(a) < Abs(t) /\ pid > 0
  <2>1. Abs(a) + Step <= Abs(t) /\ Abs(t) <= 180
    BY <1>3, DistancesApart
  <2>2. b = IF a > 0 THEN a + Step ELSE IF a < 0 THEN a - Step ELSE a
    BY <1>1, <1>3, <2>1 DEF Turned, Thrusts, AtMost, Forward, Most,
                             Clockwise, Counterclockwise, Wrapped, Abs
  <2> QED BY <1>1, <2>1, <2>2 DEF Distance, Abs, SameSide
<1>4. CASE Abs(t) < Abs(a) /\ pid > 0
  <2>1. Abs(t) + Step <= Abs(a) /\ Abs(a) <= 180
    BY <1>4, DistancesApart
  <2>2. b = IF a > 0 THEN a - Step ELSE a + Step
    BY <1>1, <1>4, <2>1 DEF Turned, Thrusts, AtMost, Forward, Most,
                             Clockwise, Counterclockwise, Wrapped, Abs
  <2> QED BY <1>1, <2>1, <2>2 DEF Distance, Abs, SameSide
<1>5. pid < 0 => Abs(a) = Abs(t)
  BY <1>1 DEF Error, Abs
<1> QED BY <1>1, <1>2, <1>3, <1>4, <1>5 DEF Abs

-----------------------------------------------------------------------------
LEMMA StepPositive == Step \in Nat \ {0}
BY StepIs

LEMMA HeadingFacts ==
  ASSUME NEW a \in Headings
  PROVE  /\ a \in Int
         /\ Wrapped(a + Step) \in Headings
         /\ Wrapped(a - Step) \in Headings
<1>1. PICK h \in (-Half) .. Half : a = Step * h
  BY DEF Headings
<1>2. Half \in Nat \ {0} /\ Step \in Nat \ {0} /\ Step * Half = 180
  BY StepIs, YawAssumption
<1>3. ASSUME NEW g \in Int, Step * g > 180 PROVE g > Half
  <2>1. g <= Half => Step * (Half - g) >= 0
    BY <1>2
  <2> QED BY <1>2, <1>3, <2>1
<1>4. ASSUME NEW g \in Int, Step * g <= 180 PROVE g <= Half
  <2>1. g > Half => Step * (g - Half) > 0
    BY <1>2
  <2> QED BY <1>2, <1>4, <2>1
<1>5. ASSUME NEW g \in Int, Step * g < -180 PROVE g < -Half
  <2>1. Step * (-g) > 180
    BY <1>2, <1>5
  <2> QED BY <1>2, <1>3, <2>1
<1>6. ASSUME NEW g \in Int, Step * g >= -180 PROVE g >= -Half
  <2>1. Step * (-g) <= 180
    BY <1>2, <1>6
  <2> QED BY <1>2, <1>4, <2>1
<1>7. ASSUME NEW g \in (-Half - 1) .. (Half + 1) PROVE Wrapped(Step * g) \in Headings
  <2>1. CASE Step * g > 180
    <3>1. g = Half + 1
      BY <1>2, <1>3, <1>7, <2>1
    <3>2. Step * (Half + 1) = 180 + Step /\ Step * (1 - Half) = Step - 180
      BY <1>2
    <3>3. Wrapped(180 + Step) = Step - 180
      BY StepPositive DEF Wrapped
    <3>4. 1 - Half \in (-Half) .. Half
      BY <1>2
    <3>5. Step - 180 \in Headings
      BY <3>2, <3>4 DEF Headings
    <3> QED BY <3>1, <3>2, <3>3, <3>5, Zenon
  <2>2. CASE Step * g < -180
    <3>1. g = -Half - 1
      BY <1>2, <1>5, <1>7, <2>2
    <3>2. Step * (-Half - 1) = -180 - Step /\ Step * (Half - 1) = 180 - Step
      BY <1>2
    <3>3. Wrapped(-180 - Step) = 180 - Step
      BY StepPositive DEF Wrapped
    <3>4. Half - 1 \in (-Half) .. Half
      BY <1>2
    <3>5. 180 - Step \in Headings
      BY <3>2, <3>4 DEF Headings
    <3> QED BY <3>1, <3>2, <3>3, <3>5, Zenon
  <2>3. CASE ~(Step * g > 180) /\ ~(Step * g < -180)
    <3>1. g \in (-Half) .. Half
      BY <1>2, <1>4, <1>6, <1>7, <2>3
    <3> QED BY <2>3, <3>1 DEF Wrapped, Headings
  <2> QED BY <2>1, <2>2, <2>3
<1>8. a + Step = Step * (h + 1) /\ a - Step = Step * (h - 1)
  BY <1>1, <1>2
<1>9. h + 1 \in (-Half - 1) .. (Half + 1) /\ h - 1 \in (-Half - 1) .. (Half + 1)
  BY <1>1, YawAssumption
<1>10. a \in Int
  BY <1>1, <1>2
<1> QED BY <1>7, <1>8, <1>9, <1>10, Zenon

LEMMA TurnedType ==
  ASSUME NEW a \in Headings, NEW s PROVE Turned(a, s) \in Headings
<1>1. CASE s.starboard > s.port
  BY <1>1, HeadingFacts DEF Turned
<1>2. CASE s.starboard < s.port /\ ~(s.starboard > s.port)
  BY <1>2, HeadingFacts DEF Turned
<1>3. CASE ~(s.starboard > s.port) /\ ~(s.starboard < s.port)
  BY <1>3 DEF Turned
<1> QED BY <1>1, <1>2, <1>3

(* An error is between 0 and 180, and one that is not 0 is a step at least.*)
LEMMA ErrorIs ==
  ASSUME NEW a \in Headings, NEW t \in Headings
  PROVE  /\ Error(a, t) \in 0 .. 180
         /\ Error(a, t) # 0 => Error(a, t) >= Step
         /\ Error(a, t) = Distance(a, t)
<1>1. a \in Int /\ t \in Int /\ Step \in Nat \ {0}
  BY HeadingFacts, StepIs
<1>2. CASE Abs(a) < Abs(t)
  BY <1>1, <1>2, DistancesApart DEF Error, Distance, Abs
<1>3. CASE Abs(t) < Abs(a)
  BY <1>1, <1>3, DistancesApart DEF Error, Distance, Abs
<1>4. CASE Abs(t) = Abs(a)
  BY <1>1, <1>4 DEF Error, Distance, Abs
<1> QED BY <1>1, <1>2, <1>3, <1>4 DEF Abs

LEMMA PidType ==
  ASSUME NEW g \in Gains, NEW e \in Int, NEW ring \in [Slots -> Int], NEW prev \in Int
  PROVE  Pid(g, e, ring, prev) \in Int
<1>1. g.kp \in Nat /\ g.ki \in Nat /\ g.kd \in Nat
  BY YawAssumption
<1> QED BY <1>1, TotalType DEF Pid

LEMMA ThrustsType ==
  ASSUME NEW a, NEW t, NEW pid \in Int
  PROVE  Thrusts(a, t, pid) \in [starboard : Int, port : Int]
<1>1. \A b \in BOOLEAN : AtMost(Forward - (IF b THEN pid ELSE 0), Most) \in Int
  BY DEF AtMost, Forward, Most
<1>2. Clockwise(a, t) \in BOOLEAN /\ Counterclockwise(a, t) \in BOOLEAN
  BY DEF Clockwise, Counterclockwise
<1> QED BY <1>1, <1>2 DEF Thrusts

(* The copies the controller steers by are headings whenever it uses them. *)
Sampled == /\ pc # "sample" => s_yaw \in Headings
           /\ pc = "moving" => sd_yaw \in Headings

TInv == TypeOK /\ Sampled

LEMMA TypeInit == Init => TInv
<1> SUFFICES ASSUME Init PROVE TInv
  OBVIOUS
<1>1. 0 \in Slots /\ Slots \subseteq Nat
  BY YawAssumption DEF Slots
<1>2. 0 \in Headings
  <2>1. 0 \in (-Half) .. Half /\ Step * 0 = 0
    BY YawAssumption, StepIs
  <2> QED BY <2>1 DEF Headings
<1>3. yaw_errors \in [Slots -> Int]
  BY YawAssumption DEF Init
<1> QED BY <1>1, <1>2, <1>3 DEF Init, TInv, TypeOK, Sampled

LEMMA TypeStep == TInv /\ [Next]_vars => TInv'
<1> SUFFICES ASSUME TInv, [Next]_vars PROVE TInv'
  OBVIOUS
<1> USE DEF TInv, TypeOK, Sampled
<1>1. CASE Sample
  BY <1>1, NextSlotIs DEF Sample, command
<1>2. CASE Steer
  <2> DEFINE e == Error(s_yaw, target)
             pid == Pid(gains, e, yaw_errors', yaw_prev_error)
  <2>1. /\ yaw_errors' = [yaw_errors EXCEPT ![i] = e]
        /\ surge' = Thrusts(s_yaw, target, pid)
        /\ yaw_prev_error' = e /\ sd_yaw' = target
        /\ last' = [k \in Slots |-> IF k = 0 THEN e ELSE last[k - 1]]
        /\ pc = "steer" /\ pc' = "moving"
        /\ UNCHANGED <<yaw, vehicle_mode, target, gains, s_yaw, i>>
    BY <1>2 DEF Steer, command
  <2>2. e \in Int
    BY <2>1, ErrorIs
  <2>3. yaw_errors' \in [Slots -> Int]
    BY <2>1, <2>2
  <2>4. surge' \in [starboard : Int, port : Int]
    <3>1. pid \in Int
      BY <2>2, <2>3, PidType
    <3> QED BY <2>1, <3>1, ThrustsType
  <2>5. last' \in [Slots -> Int \cup {NoError}]
    <3>1. \A k \in Slots \ {0} : k - 1 \in Slots
      BY YawAssumption DEF Slots
    <3> HIDE DEF e
    <3> QED BY <2>1, <2>2, <3>1
  <2> QED BY <2>1, <2>2, <2>3, <2>4, <2>5
<1>3. CASE Turn
  BY <1>3, TurnedType DEF Turn, Wake, command
<1>4. CASE Coast
  BY <1>4 DEF Coast, Wake, command
<1>5. CASE Drive
  BY <1>5 DEF Drive, controller, command
<1>6. CASE SetMode \/ SetPidValues \/ SetCurrentOrientation
  BY <1>6 DEF SetMode, SetPidValues, SetCurrentOrientation, controller
<1>7. CASE UNCHANGED vars
  BY <1>7 DEF vars, controller, command
<1> QED BY <1>1, <1>2, <1>3, <1>4, <1>5, <1>6, <1>7 DEF Next

(* Types: the heading stays one of the headings however the vehicle turns, *)
(* and the thrusts are numbers whatever the ring was given to begin with.  *)
THEOREM YawTypeOK == SafeSpec => []TypeOK
<1>1. TInv => TypeOK
  BY DEF TInv
<1> QED BY <1>1, TypeInit, TypeStep, PTL DEF SafeSpec

-----------------------------------------------------------------------------
(* The gains with which the derivative part never outweighs the others:    *)
(* the error can have fallen from 180 to a single step between two         *)
(* samples, and the integral part has both of these in its sum.            *)
Prevails(g) == (g.kp + g.ki + g.kd) * Step >= (g.kd - g.ki) * 180

(* ... and outweighs them by m, which is 0 or 1. *)
PrevailsBy(g, m) == (g.kp + g.ki + g.kd) * Step >= (g.kd - g.ki) * 180 + m

LEMMA PrevailsByNone ==
  ASSUME NEW g \in Gains, Prevails(g) PROVE PrevailsBy(g, 0)
<1>1. g.kp \in Int /\ g.ki \in Int /\ g.kd \in Int
  BY YawAssumption
<1> DEFINE few == (g.kp + g.ki + g.kd) * Step
           many == (g.kd - g.ki) * 180
<1>2. few \in Int /\ many \in Int
  <2> HIDE DEF Step
  <2> QED BY <1>1, StepPositive
<1>3. few >= many
  BY DEF Prevails
<1> HIDE DEF few, many
<1>4. few >= many + 0
  BY <1>2, <1>3
<1> QED BY <1>4 DEF few, many, PrevailsBy

(* The PID value where the sum is at least that of the last two errors.    *)
LEMMA PidAtLeast ==
  ASSUME NEW g \in [kp : Nat, ki : Nat, kd : Nat], NEW m \in {0, 1}, PrevailsBy(g, m),
         NEW e \in 0 .. 180, e >= Step, NEW prev \in 0 .. 180,
         NEW sum \in Int, sum >= e + prev
  PROVE  g.kp * e + g.ki * sum + g.kd * (e - prev) >= m
<1> DEFINE kp == g.kp
           ki == g.ki
           kd == g.kd
<1>0. kp \in Nat /\ ki \in Nat /\ kd \in Nat
      /\ (kp + ki + kd) * Step >= (kd - ki) * 180 + m
  BY DEF PrevailsBy
<1> HIDE DEF kp, ki, kd
<1> USE <1>0
<1>1. Step \in Nat \ {0}
  BY StepPositive
<1> HIDE DEF Step
<1>2. ki * (sum - (e + prev)) >= 0
  BY SMT
<1>3. ki * sum = ki * (sum - (e + prev)) + ki * e + ki * prev
  BY SMT
<1>4. kd * (e - prev) = kd * e - kd * prev
  BY SMT
<1>5. (kp + ki + kd) * e = kp * e + ki * e + kd * e
  BY SMT
<1>6. (kp + ki + kd) * e + ki * prev - kd * prev >= m
  <2> DEFINE all == kp + ki + kd
  <2>1. all \in Nat
    OBVIOUS
  <2> HIDE DEF all
  <2>2. all * (e - Step) >= 0 /\ all * e >= 0
    BY <1>1, <2>1
  <2>3. all * e >= all * Step
    BY <1>1, <2>1, <2>2
  <2>4. CASE kd <= ki
    <3>1. (ki - kd) * prev >= 0
      BY <2>4
    <3>2. ki * prev - kd * prev >= 0
      BY <3>1
    <3>3. all * Step >= m
      <4>1. CASE all = 0
        <5>1. kd = 0 /\ ki = 0 /\ kp = 0
          BY <4>1 DEF all
        <5> QED BY <1>1, <5>1 DEF all
      <4>2. CASE all >= 1
        <5>1. (all - 1) * Step >= 0
          BY <1>1, <2>1, <4>2
        <5>2. all * Step >= Step
          BY <1>1, <2>1, <5>1
        <5> QED BY <1>1, <2>1, <5>2
      <4> QED BY <2>1, <4>1, <4>2
    <3> QED BY <1>1, <2>1, <2>3, <3>2, <3>3 DEF all
  <2>5. CASE kd > ki
    <3>1. (kd - ki) * (180 - prev) >= 0
      BY <2>5
    <3>2. (kd - ki) * 180 >= kd * prev - ki * prev
      BY <3>1
    <3>3. all * Step >= (kd - ki) * 180 + m
      BY DEF all
    <3> QED BY <1>1, <2>1, <2>3, <3>2, <3>3 DEF all
  <2> QED BY <2>4, <2>5
<1>7. ki * sum \in Int /\ kp * e \in Int /\ ki * e \in Int /\ kd * e \in Int
      /\ ki * prev \in Int /\ kd * prev \in Int
  OBVIOUS
<1>8. kp * e + ki * sum + kd * (e - prev) >= m
  BY <1>2, <1>3, <1>4, <1>5, <1>6, <1>7
<1> QED BY <1>8 DEF kp, ki, kd

(* The history: no gaps, errors only, and the controller's previous error  *)
(* is the newest.                                                          *)
HistoryOK ==
  /\ \A j, k \in Slots : j <= k /\ last[k] # NoError => last[j] # NoError
  /\ \A k \in Slots : last[k] # NoError => last[k] \in 0 .. 180
  /\ last[0] # NoError => yaw_prev_error = last[0]

(* Once the window is full, the thrusts in use are those of a PID value    *)
(* that is at least m, unless there was no error to act on.                *)
Steered(m) ==
  pc = "moving" /\ WindowFull =>
    \E pid \in Int : /\ pid >= m \/ Error(s_yaw, sd_yaw) = 0
                     /\ surge = Thrusts(s_yaw, sd_yaw, pid)

PInv(m) == HistoryOK /\ Steered(m)

LEMMA BackCovers ==
  ASSUME NEW j \in Slots, NEW l \in Slots
  PROVE  \E k \in Slots : l = Back(j, k)
<1> DEFINE k == IF l <= j THEN j - l ELSE j - l + NUM_ERRORS
<1>1. k \in Slots /\ Back(j, k) = l
  BY YawAssumption DEF Back, Slots
<1> HIDE DEF k
<1> QED BY <1>1

(* What Steer computes when its error completes a full window.             *)
LEMMA SteerWithFullWindow ==
  ASSUME NEW m \in {0, 1}, \A g \in Gains : PrevailsBy(g, m),
         TInv, HistoryOK, IInv', HistoryOK', WindowFull', Steer
  PROVE  LET e == Error(s_yaw, target)
         IN  Pid(gains, e, yaw_errors', yaw_prev_error) >= m \/ e = 0
<1> DEFINE e == Error(s_yaw, target)
           ring == yaw_errors'
           prev == yaw_prev_error
<1>1. /\ ring = [yaw_errors EXCEPT ![i] = e]
      /\ last' = [k \in Slots |-> IF k = 0 THEN e ELSE last[k - 1]]
      /\ pc = "steer" /\ pc' = "moving" /\ i' = i
  BY DEF Steer
<1>2. /\ i \in Slots /\ yaw_errors \in [Slots -> Int] /\ gains \in Gains
      /\ e \in 0 .. 180 /\ (e # 0 => e >= Step)
  BY <1>1, ErrorIs DEF TInv, TypeOK, Sampled
<1>3. NUM_ERRORS \in Nat /\ NUM_ERRORS >= 2 /\ {0, 1, NUM_ERRORS - 1} \subseteq Slots
  BY YawAssumption DEF Slots
<1>4. \A k \in Slots : last'[k] # NoError /\ last'[k] \in 0 .. 180
  BY <1>3 DEF HistoryOK, WindowFull, Slots
<1> HIDE DEF e
<1>5. prev = last[0] /\ last'[1] = last[0]
  <2>1. last'[1] = last[0]
    BY <1>1, <1>3
  <2> QED BY <1>3, <1>4, <2>1 DEF HistoryOK
<1>6. \A k \in Slots : ring[Back(i, k)] = last'[k]
  BY <1>1, <1>4 DEF IInv, RingIsWindow
<1>7. ring \in [Slots -> Nat]
  <2>1. ASSUME NEW l \in Slots PROVE ring[l] \in Nat
    <3>1. PICK k \in Slots : l = Back(i, k)
      BY <1>2, BackCovers
    <3> QED BY <1>4, <1>6, <3>1
  <2> QED BY <1>1, <1>2, <2>1
<1>8. ring[i] = e /\ ring[Back(i, 1)] = prev /\ Back(i, 1) \in Slots /\ Back(i, 1) # i
  <2>1. Back(i, 1) \in Slots /\ Back(i, 1) # i
    BY <1>2, <1>3, BackFromNext
  <2> QED BY <1>1, <1>2, <1>3, <1>5, <1>6, <2>1
<1>9. Total(ring) \in Int /\ Total(ring) >= e + prev
  <2> HIDE DEF ring
  <2> QED BY <1>2, <1>7, <1>8, TotalOfTwo
<1>10. CASE e # 0
  <2>1. prev \in 0 .. 180
    BY <1>3, <1>4, <1>5
  <2>2. gains \in [kp : Nat, ki : Nat, kd : Nat] /\ PrevailsBy(gains, m)
    BY <1>2, YawAssumption
  <2> HIDE DEF ring, prev
  <2>3. gains.kp * e + gains.ki * Total(ring) + gains.kd * (e - prev) >= m
    <3> DEFINE total == Total(ring)
    <3>1. total \in Int /\ total >= e + prev /\ e >= Step
      BY <1>2, <1>9, <1>10
    <3> HIDE DEF total, Step
    <3>2. gains.kp * e + gains.ki * total + gains.kd * (e - prev) >= m
      <4>1. e \in 0 .. 180 /\ e >= Step /\ prev \in 0 .. 180 /\ total \in Int
            /\ total >= e + prev
        BY <1>2, <2>1, <3>1
      <4> QED BY <2>2, <4>1, PidAtLeast
    <3> QED BY <3>2 DEF total
  <2>4. Pid(gains, e, ring, prev) >= m
    BY <2>3 DEF Pid
  <2> QED BY <2>4 DEF e, ring, prev
<1> QED BY <1>10 DEF e

LEMMA SteeredInit == ASSUME NEW m \in {0, 1} PROVE Init => PInv(m)
BY YawAssumption DEF Init, PInv, HistoryOK, Steered, WindowFull, Slots

LEMMA SteeredStep ==
  ASSUME NEW m \in {0, 1}, \A g \in Gains : PrevailsBy(g, m)
  PROVE  TInv /\ IInv' /\ PInv(m) /\ [Next]_vars => PInv(m)'
<1> SUFFICES ASSUME TInv, IInv', PInv(m), [Next]_vars PROVE PInv(m)'
  OBVIOUS
<1>1. CASE Steer
  <2> DEFINE e == Error(s_yaw, target)
             pid == Pid(gains, e, yaw_errors', yaw_prev_error)
  <2>1. /\ yaw_errors' = [yaw_errors EXCEPT ![i] = e]
        /\ surge' = Thrusts(s_yaw, target, pid)
        /\ yaw_prev_error' = e /\ sd_yaw' = target
        /\ last' = [k \in Slots |-> IF k = 0 THEN e ELSE last[k - 1]]
        /\ pc = "steer" /\ pc' = "moving" /\ UNCHANGED <<s_yaw, i, gains>>
    BY <1>1 DEF Steer, command
  <2>2. /\ e \in 0 .. 180 /\ i \in Slots /\ yaw_errors \in [Slots -> Int]
        /\ gains \in Gains /\ yaw_prev_error \in Int
    BY <2>1, ErrorIs DEF TInv, TypeOK, Sampled
  <2>3. pid \in Int
    <3>1. yaw_errors' \in [Slots -> Int]
      BY <2>1, <2>2
    <3>2. e \in Int
      BY <2>2
    <3> HIDE DEF e
    <3> QED BY <2>2, <3>1, <3>2, PidType
  <2>4. HistoryOK'
    <3>1. \A k \in Slots \ {0} : k - 1 \in Slots /\ last'[k] = last[k - 1]
      BY <2>1, YawAssumption DEF Slots
    <3>2. 0 \in Slots /\ last'[0] = e /\ e # NoError
      <4>1. 0 \in Slots
        BY YawAssumption DEF Slots
      <4>2. e # NoError
        <5> HIDE DEF e
        <5> QED BY <2>2, YawAssumption
      <4> QED BY <2>1, <4>1, <4>2
    <3> HIDE DEF e
    <3>3. ASSUME NEW j \in Slots, NEW k \in Slots, j <= k, last'[k] # NoError
          PROVE  last'[j] # NoError
      <4>1. CASE j = 0
        BY <3>2, <4>1
      <4>2. CASE j # 0
        <5>1. j \in Slots \ {0} /\ k \in Slots \ {0} /\ j - 1 <= k - 1
          BY <3>3, <4>2 DEF Slots
        <5> QED BY <3>1, <3>3, <5>1 DEF PInv, HistoryOK
      <4> QED BY <4>1, <4>2
    <3>4. ASSUME NEW k \in Slots, last'[k] # NoError PROVE last'[k] \in 0 .. 180
      BY <2>2, <3>1, <3>2, <3>4 DEF PInv, HistoryOK
    <3> QED BY <2>1, <3>2, <3>3, <3>4 DEF HistoryOK
  <2>5. Steered(m)'
    <3>1. WindowFull' => pid >= m \/ e = 0
      BY <1>1, <2>4, SteerWithFullWindow DEF PInv
    <3> HIDE DEF pid
    <3> QED BY <2>1, <2>3, <3>1 DEF Steered
  <2> QED BY <2>4, <2>5 DEF PInv
<1>2. CASE Sample \/ Turn \/ Coast
  <2>1. pc' # "moving" /\ UNCHANGED <<last, yaw_prev_error>>
    BY <1>2 DEF Sample, Turn, Coast, Wake
  <2> QED BY <2>1 DEF PInv, HistoryOK, Steered
<1>3. CASE Drive \/ SetMode \/ SetPidValues \/ SetCurrentOrientation \/ UNCHANGED vars
  <2>1. UNCHANGED <<pc, last, yaw_prev_error, surge, s_yaw, sd_yaw>>
    BY <1>3 DEF Drive, SetMode, SetPidValues, SetCurrentOrientation, vars, controller
  <2> QED BY <2>1 DEF PInv, HistoryOK, Steered, WindowFull
<1> QED BY <1>1, <1>2, <1>3 DEF Next

LEMMA TurnsTowards ==
  ASSUME TInv, PInv(0), Turn, WindowFull, yaw = s_yaw
  PROVE  /\ Distance(yaw', sd_yaw) <= Distance(yaw, sd_yaw)
         /\ SameSide(yaw, sd_yaw) => SameSide(yaw', sd_yaw)
<1>1. pc = "moving" /\ yaw' = Turned(yaw, surge) /\ yaw \in Headings /\ sd_yaw \in Headings
  BY DEF Turn, TInv, TypeOK, Sampled
<1>2. PICK pid \in Int : /\ pid >= 0 \/ Error(yaw, sd_yaw) = 0
                         /\ surge = Thrusts(yaw, sd_yaw, pid)
  BY <1>1 DEF PInv, Steered
<1> QED BY <1>1, <1>2, SteersTowards

(* With gains that prevail the vehicle is never steered away from the      *)
(* target's distance from 0, once as many errors have been recorded as the *)
(* ring has slots: whatever the target does between two samples, whenever  *)
(* the mode and the gains are changed, and whatever memory the ring was    *)
(* given.                                                                  *)
THEOREM ErrorNeverGrowsAlways ==
  ASSUME \A g \in Gains : Prevails(g)
  PROVE  SafeSpec => ErrorNeverGrows
<1>1. TInv /\ PInv(0) /\ [Next]_vars =>
        [Turn /\ WindowFull /\ yaw = s_yaw => Distance(yaw', sd_yaw) <= Distance(yaw, sd_yaw)]_vars
  BY TurnsTowards
<1>2. Init => PInv(0)
  BY SteeredInit
<1>3. TInv /\ IInv' /\ PInv(0) /\ [Next]_vars => PInv(0)'
  <2>1. \A g \in Gains : PrevailsBy(g, 0)
    BY PrevailsByNone
  <2> QED BY <2>1, SteeredStep
<1> QED BY <1>1, <1>2, <1>3, TypeInit, TypeStep, InductiveInit, InductiveStep, PTL
        DEF SafeSpec, ErrorNeverGrows

(* Nor across 0, away from the side the target is on.                      *)
THEOREM KeepsSideAlways ==
  ASSUME \A g \in Gains : Prevails(g)
  PROVE  SafeSpec => KeepsSide
<1>1. TInv /\ PInv(0) /\ [Next]_vars =>
        [Turn /\ WindowFull /\ yaw = s_yaw /\ SameSide(yaw, sd_yaw) => SameSide(yaw', sd_yaw)]_vars
  BY TurnsTowards
<1>2. Init => PInv(0)
  BY SteeredInit
<1>3. TInv /\ IInv' /\ PInv(0) /\ [Next]_vars => PInv(0)'
  <2>1. \A g \in Gains : PrevailsBy(g, 0)
    BY PrevailsByNone
  <2> QED BY <2>1, SteeredStep
<1> QED BY <1>1, <1>2, <1>3, TypeInit, TypeStep, InductiveInit, InductiveStep, PTL
        DEF SafeSpec, KeepsSide

(* A turn with a positive PID value comes a step closer.                   *)
LEMMA StepsCloser ==
  ASSUME NEW a \in Headings, NEW t \in Headings, NEW pid \in Int, pid > 0, ~Settled(a, t)
  PROVE  Distance(Turned(a, Thrusts(a, t, pid)), t) <= Distance(a, t) - Step
<1> DEFINE b == Turned(a, Thrusts(a, t, pid))
<1>1. a \in Int /\ t \in Int /\ Step \in Nat \ {0}
  BY StepIs, YawAssumption DEF Headings
<1>2. a # 0 /\ Abs(a) # Abs(t)
  BY <1>1 DEF Settled, Distance, Abs
<1>3. CASE Abs(a) < Abs(t)
  <2>1. Abs(a) + Step <= Abs(t) /\ Abs(t) <= 180
    BY <1>3, DistancesApart
  <2>2. b = IF a > 0 THEN a + Step ELSE a - Step
    BY <1>1, <1>2, <1>3, <2>1 DEF Turned, Thrusts, AtMost, Forward, Most,
                                   Clockwise, Counterclockwise, Wrapped, Abs
  <2> QED BY <1>1, <1>2, <2>1, <2>2 DEF Distance, Abs
<1>4. CASE Abs(t) < Abs(a)
  <2>1. Abs(t) + Step <= Abs(a) /\ Abs(a) <= 180
    BY <1>4, DistancesApart
  <2>2. b = IF a > 0 THEN a - Step ELSE a + Step
    BY <1>1, <1>2, <1>4, <2>1 DEF Turned, Thrusts, AtMost, Forward, Most,
                                   Clockwise, Counterclockwise, Wrapped, Abs
  <2> QED BY <1>1, <1>2, <2>1, <2>2 DEF Distance, Abs
<1> QED BY <1>1, <1>2, <1>3, <1>4 DEF Abs

(* The safety half of Settles: with gains that prevail by any margin every *)
(* such turn of a vehicle that has not settled brings it a whole step      *)
(* closer, so that 180 degrees of error are gone after Half turns.         *)
THEOREM EveryTurnCounts ==
  ASSUME \A g \in Gains : PrevailsBy(g, 1)
  PROVE  SafeSpec => [][Turn /\ WindowFull /\ yaw = s_yaw /\ ~Settled(yaw, sd_yaw)
                          => Distance(yaw', sd_yaw) <= Distance(yaw, sd_yaw) - Step]_vars
<1>1. TInv /\ PInv(1) /\ [Next]_vars =>
        [Turn /\ WindowFull /\ yaw = s_yaw /\ ~Settled(yaw, sd_yaw)
           => Distance(yaw', sd_yaw) <= Distance(yaw, sd_yaw) - Step]_vars
  <2> SUFFICES ASSUME TInv, PInv(1), Turn, WindowFull, yaw = s_yaw, ~Settled(yaw, sd_yaw)
               PROVE  Distance(yaw', sd_yaw) <= Distance(yaw, sd_yaw) - Step
    OBVIOUS
  <2>1. pc = "moving" /\ yaw' = Turned(yaw, surge) /\ yaw \in Headings /\ sd_yaw \in Headings
    BY DEF Turn, TInv, TypeOK, Sampled
  <2>2. Error(yaw, sd_yaw) # 0
    <3>1. yaw \in Int /\ sd_yaw \in Int
      BY <2>1, StepIs, YawAssumption DEF Headings
    <3> QED BY <3>1 DEF Settled, Distance, Error, Abs
  <2>3. PICK pid \in Int : pid >= 1 /\ surge = Thrusts(yaw, sd_yaw, pid)
    BY <2>1, <2>2 DEF PInv, Steered
  <2>4. pid > 0
    BY <2>3
  <2> QED BY <2>1, <2>3, <2>4, StepsCloser
<1>2. Init => PInv(1)
  BY SteeredInit
<1>3. TInv /\ IInv' /\ PInv(1) /\ [Next]_vars => PInv(1)'
  BY SteeredStep
<1> QED BY <1>1, <1>2, <1>3, TypeInit, TypeStep, InductiveInit, InductiveStep, PTL
        DEF SafeSpec

(* The gains main sets prevail, by a margin, however fine the headings.    *)
THEOREM MainGainsPrevail ==
  LET main == [kp |-> 450, ki |-> 25, kd |-> 2] IN Prevails(main) /\ PrevailsBy(main, 1)
BY StepPositive DEF Prevails, PrevailsBy

(* No weaker condition will do.  With gains that do not prevail, the first *)
(* error of one step after an error of 180 and a ring that is 0 elsewhere  *)
(* steers the vehicle away from its target.                                *)
THEOREM OthersSteerAway ==
  ASSUME Half >= 2,
         NEW g \in [kp : Nat, ki : Nat, kd : Nat], ~Prevails(g),
         NEW j \in Slots, NEW k \in Slots, j # k,
         NEW ring \in [Slots -> Nat], ring[j] = Step, ring[k] = 180,
         \A l \in Slots \ {j, k} : ring[l] = 0
  PROVE  LET t == 180
             a == 180 - Step
             b == Turned(a, Thrusts(a, t, Pid(g, Error(a, t), ring, 180)))
         IN  a \in Headings /\ t \in Headings /\ Distance(b, t) > Distance(a, t)
<1> DEFINE a == 180 - Step
           pid == Pid(g, Error(a, 180), ring, 180)
<1>1. Step \in Nat \ {0} /\ Step * Half = 180 /\ Half \in Nat
  BY StepIs, YawAssumption
<1>2. Step + Step <= 180
  <2>1. Step * (Half - 2) >= 0
    BY <1>1
  <2> QED BY <1>1, <2>1
<1>3. a \in Headings /\ 180 \in Headings
  <2>1. Step * (Half - 1) = a
    BY <1>1
  <2>2. Half - 1 \in (-Half) .. Half /\ Half \in (-Half) .. Half
    BY <1>1
  <2>3. Step * (Half - 1) \in Headings /\ Step * Half \in Headings
    BY <2>2, Zenon DEF Headings
  <2>4. Step * Half = 180
    BY <1>1
  <2> HIDE DEF a
  <2> QED BY <2>1, <2>3, <2>4, Zenon
<1>4. Error(a, 180) = Step
  BY <1>1, <1>2 DEF Error, Abs
<1>5. pid < 0 /\ pid \in Int
  <2>1. Total(ring) = Step + 180
    BY TotalOfTwo
  <2> DEFINE kp == g.kp
             ki == g.ki
             kd == g.kd
  <2>2. kp \in Nat /\ ki \in Nat /\ kd \in Nat
    OBVIOUS
  <2>3. (kp + ki + kd) * Step < (kd - ki) * 180
    BY <1>1, <2>2 DEF Prevails
  <2>4. pid = kp * Step + ki * (Step + 180) + kd * (Step - 180)
    BY <1>4, <2>1 DEF Pid
  <2> HIDE DEF kp, ki, kd, pid
  <2>5. kp * Step + ki * (Step + 180) + kd * (Step - 180) < 0
    BY <1>1, <2>2, <2>3
  <2> QED BY <1>1, <2>2, <2>4, <2>5
<1> HIDE DEF pid
<1>6. Turned(a, Thrusts(a, 180, pid)) = a - Step
  BY <1>1, <1>2, <1>5 DEF Turned, Thrusts, AtMost, Forward, Most,
                           Clockwise, Counterclockwise, Wrapped, Abs
<1>7. Distance(a - Step, 180) > Distance(a, 180)
  BY <1>1, <1>2 DEF Distance, Abs
<1> QED BY <1>3, <1>6, <1>7 DEF pid
-----------------------------------------------------------------------------
(* The controller does not know which side of 0 its target is on: the      *)
(* mirrored target gives the same error and the same thrusts, and so,      *)
(* step by step, the same voyage.                                          *)
THEOREM BlindToSide ==
  ASSUME NEW a \in Int, NEW t \in Int, NEW pid
  PROVE  Error(a, t) = Error(a, -t) /\ Thrusts(a, t, pid) = Thrusts(a, -t, pid)
<1>1. Abs(-t) = Abs(t)
  BY DEF Abs
<1>2. /\ Clockwise(a, t) = Clockwise(a, -t)
      /\ Counterclockwise(a, t) = Counterclockwise(a, -t)
  BY <1>1 DEF Clockwise, Counterclockwise
<1> QED BY <1>1, <1>2 DEF Error, Thrusts

(* Whatever the PID value, the thrusts in use are those of the law.        *)
ByTheLaw == pc = "moving" => \E pid : surge = Thrusts(s_yaw, sd_yaw, pid)

LEMMA ByTheLawStep == ByTheLaw /\ [Next]_vars => ByTheLaw'
<1> SUFFICES ASSUME ByTheLaw, [Next]_vars PROVE ByTheLaw'
  OBVIOUS
<1>1. CASE Steer
  BY <1>1 DEF Steer, ByTheLaw
<1>2. CASE Sample \/ Turn \/ Coast
  BY <1>2 DEF Sample, Turn, Coast, Wake, ByTheLaw
<1>3. CASE Drive \/ SetMode \/ SetPidValues \/ SetCurrentOrientation \/ UNCHANGED vars
  BY <1>3 DEF Drive, SetMode, SetPidValues, SetCurrentOrientation, vars, controller, ByTheLaw
<1> QED BY <1>1, <1>2, <1>3 DEF Next

(* Where the vehicle may come to rest it rests: at the target's distance   *)
(* from 0, and at 0 itself wherever the target is, a fresh sample never    *)
(* turns it, with any gains and any ring.                                  *)
THEOREM SettledStays ==
  SafeSpec => [][Turn /\ yaw = s_yaw /\ Settled(yaw, sd_yaw) => yaw' = yaw]_vars
<1>1. Init => ByTheLaw
  BY DEF Init, ByTheLaw
<1>2. TInv /\ ByTheLaw /\ [Next]_vars =>
        [Turn /\ yaw = s_yaw /\ Settled(yaw, sd_yaw) => yaw' = yaw]_vars
  <2> SUFFICES ASSUME TInv, ByTheLaw, Turn, yaw = s_yaw, Settled(yaw, sd_yaw)
               PROVE  yaw' = yaw
    OBVIOUS
  <2>1. pc = "moving" /\ yaw' = Turned(yaw, surge) /\ yaw \in Int /\ sd_yaw \in Int
    BY HeadingFacts DEF Turn, TInv, TypeOK, Sampled
  <2>2. PICK pid : surge = Thrusts(yaw, sd_yaw, pid)
    BY <2>1 DEF ByTheLaw
  <2>3. ~Clockwise(yaw, sd_yaw) /\ ~Counterclockwise(yaw, sd_yaw)
    BY <2>1 DEF Settled, Distance, Clockwise, Counterclockwise, Abs
  <2>4. surge.starboard = Forward /\ surge.port = Forward
    BY <2>2, <2>3 DEF Thrusts, AtMost, Forward, Most
  <2> QED BY <2>1, <2>4 DEF Turned, Forward
<1> QED BY <1>1, <1>2, TypeInit, TypeStep, ByTheLawStep, PTL DEF SafeSpec
=============================================================================
