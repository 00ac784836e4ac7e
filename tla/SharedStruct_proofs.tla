------------------------- MODULE SharedStruct_proofs -------------------------
(***************************************************************************)
(* Proofs about SharedStruct, for any threads, fields and values: the      *)
(* mutex keeps every read and every write of the structure whole, and the  *)
(* structure implements AtomicStruct.                                      *)
(***************************************************************************)
EXTENDS SharedStruct, TLAPS

(* A reader has nothing in the locals of the fields it does not read. *)
ReaderBlank == \A t \in Threads \ Writers :
                 \A f \in Fields \ Access[t] : local[t][f] = Zero

(* The inductive invariant: types, the mutex, and the two halves of "a     *)
(* critical section is not disturbed".                                     *)
Inv == /\ TypeOK
       /\ HolderInside
       /\ Snapshot
       /\ WholeWrite
       /\ \A t \in Threads : /\ todo[t] \subseteq Access[t]
                             /\ pc[t] # "inside" => todo[t] = {}
       /\ ReaderBlank

LEMMA BlankType == Blank \in [Fields -> Values]
  BY StructAssumption DEF Blank

(* The initial state satisfies the inductive invariant. *)
LEMMA InitInv == Init => Inv
  <1> SUFFICES ASSUME Init PROVE Inv
    OBVIOUS
  <1>1. TypeOK
    BY BlankType, StructAssumption DEF Init, TypeOK
  <1>2. HolderInside
    BY StructAssumption DEF Init, HolderInside
  <1>3. Snapshot /\ WholeWrite
    BY StructAssumption DEF Init, Snapshot, WholeWrite
  <1>4. \A t \in Threads : todo[t] \subseteq Access[t] /\ (pc[t] # "inside" => todo[t] = {})
    BY DEF Init
  <1>5. ReaderBlank
    BY DEF Init, ReaderBlank, Blank
  <1> QED
    BY <1>1, <1>2, <1>3, <1>4, <1>5 DEF Inv

(* Every step of a thread keeps the inductive invariant. *)
LEMMA NextInv == Inv /\ [Next]_vars => Inv'
  <1> SUFFICES ASSUME Inv, [Next]_vars PROVE Inv'
    OBVIOUS
  <1> USE StructAssumption DEF Inv
  <1>1. ASSUME NEW t \in Threads, Call(t) PROVE Inv'
    <2>1. local' \in [Threads -> [Fields -> Values]]
      BY <1>1 DEF Call, TypeOK, Requests
    <2>2. TypeOK'
      BY <1>1, <2>1 DEF Call, TypeOK
    <2>3. HolderInside'
      BY <1>1 DEF Call, TypeOK, HolderInside
    <2>4. \A u \in Threads : pc'[u] = "inside" => pc[u] = "inside" /\ local'[u] = local[u]
      BY <1>1 DEF Call, TypeOK
    <2>5. Snapshot'
      BY <1>1, <2>4 DEF Call, Snapshot
    <2>6. WholeWrite'
      BY <1>1, <2>4 DEF Call, WholeWrite
    <2>7. (\A u \in Threads : todo[u] \subseteq Access[u] /\ (pc[u] # "inside" => todo[u] = {}))'
      BY <1>1 DEF Call, TypeOK
    <2>8. ReaderBlank'
      BY <1>1 DEF Call, TypeOK, ReaderBlank
    <2> QED
      BY <2>2, <2>3, <2>5, <2>6, <2>7, <2>8
  <1>2. ASSUME NEW t \in Threads, Lock(t) PROVE Inv'
    <2>1. TypeOK'
      BY <1>2 DEF Lock, TypeOK
    <2>2. HolderInside'
      BY <1>2 DEF Lock, TypeOK, HolderInside
    <2>3. \A u \in Threads : pc'[u] = "inside" => u = t /\ todo'[u] = Access[u]
      BY <1>2 DEF Lock, TypeOK, HolderInside
    <2>4. Snapshot' /\ WholeWrite'
      BY <2>3 DEF Snapshot, WholeWrite
    <2>5. (\A u \in Threads : todo[u] \subseteq Access[u] /\ (pc[u] # "inside" => todo[u] = {}))'
      BY <1>2 DEF Lock, TypeOK
    <2>6. ReaderBlank'
      BY <1>2 DEF Lock, ReaderBlank
    <2> QED
      BY <2>1, <2>2, <2>4, <2>5, <2>6
  <1>3. ASSUME NEW t \in Threads, NEW f \in Fields, AccessField(t, f) PROVE Inv'
    <2>1. TypeOK'
      <3>1. cell' \in [Fields -> Values] /\ todo' \in [Threads -> SUBSET Fields]
        BY <1>3 DEF AccessField, TypeOK
      <3>2. [local[t] EXCEPT ![f] = cell[f]] \in [Fields -> Values]
        BY DEF TypeOK
      <3>3. local' \in [Threads -> [Fields -> Values]]
        BY <1>3, <3>2 DEF AccessField, TypeOK
      <3> QED
        BY <1>3, <3>1, <3>3 DEF AccessField, TypeOK
    <2>2. HolderInside'
      BY <1>3 DEF AccessField, TypeOK, HolderInside
    <2>3. \A u \in Threads : pc'[u] = "inside" => u = t
      BY <1>3 DEF AccessField, HolderInside
    <2>4. Snapshot'
      BY <1>3, <2>3 DEF AccessField, TypeOK, Snapshot
    <2>5. WholeWrite'
      BY <1>3, <2>3 DEF AccessField, TypeOK, WholeWrite
    <2>6. (\A u \in Threads : todo[u] \subseteq Access[u] /\ (pc[u] # "inside" => todo[u] = {}))'
      BY <1>3 DEF AccessField, TypeOK
    <2>7. ReaderBlank'
      BY <1>3 DEF AccessField, TypeOK, ReaderBlank
    <2> QED
      BY <2>1, <2>2, <2>4, <2>5, <2>6, <2>7
  <1>4. ASSUME NEW t \in Threads, Unlock(t) PROVE Inv'
    <2>1. TypeOK'
      BY <1>4, BlankType DEF Unlock, TypeOK
    <2>2. \A u \in Threads : pc'[u] # "inside"
      BY <1>4 DEF Unlock, TypeOK, HolderInside
    <2>3. HolderInside'
      BY <1>4, <2>2 DEF Unlock, HolderInside
    <2>4. Snapshot' /\ WholeWrite'
      BY <2>2 DEF Snapshot, WholeWrite
    <2>5. (\A u \in Threads : todo[u] \subseteq Access[u] /\ (pc[u] # "inside" => todo[u] = {}))'
      BY <1>4 DEF Unlock, TypeOK
    <2>6. ReaderBlank'
      BY <1>4 DEF Unlock, TypeOK, ReaderBlank, Blank
    <2> QED
      BY <2>1, <2>3, <2>4, <2>5, <2>6
  <1>5. CASE UNCHANGED vars
    BY <1>5 DEF vars, TypeOK, HolderInside, Snapshot, WholeWrite, ReaderBlank
  <1> QED
    BY <1>1, <1>2, <1>3, <1>4, <1>5 DEF Next, Step

LEMMA Invariance == SafeSpec => []Inv
  BY InitInv, NextInv, PTL DEF SafeSpec

(* The memory, the mutex and the locals of the threads keep their types. *)
THEOREM SharedTypeOK == Spec => []TypeOK
  BY Invariance, PTL DEF Inv, Spec

(* No read of a mutex-guarded structure is ever torn. *)
THEOREM NoTornRead == Spec => []Snapshot
  BY Invariance, PTL DEF Inv, Spec

(* No write of a mutex-guarded structure is ever interleaved with another. *)
THEOREM NoTornWrite == Spec => []WholeWrite
  BY Invariance, PTL DEF Inv, Spec
-----------------------------------------------------------------------------
(* The locked structure starts as the atomic one does. *)
LEMMA InitRefines == Init => Atomic!Init
  BY StructAssumption DEF Init, Atomic!Init, absVal, absBuf, absGiven, absStage, Blank, Atomic!Blank

(* Every step of the locked structure is a step of the atomic one or none. *)
LEMMA StepRefines == Inv /\ Inv' /\ [Next]_vars => [Atomic!Next]_(Atomic!vars)
  <1> SUFFICES ASSUME Inv, Inv', [Next]_vars PROVE [Atomic!Next]_(Atomic!vars)
    OBVIOUS
  <1> USE StructAssumption DEF Inv
  <1>1. ASSUME NEW t \in Threads, Call(t) PROVE Atomic!Call(t)
    <2>1. absStage[t] = "idle" /\ absStage' = [absStage EXCEPT ![t] = "called"]
      BY <1>1 DEF Call, TypeOK, absStage
    <2>2. absVal' = absVal
      BY <1>1 DEF Call, TypeOK, absVal, HolderInside
    <2>3. CASE t \in Writers
      <3>1. PICK r \in Requests(t) : local' = [local EXCEPT ![t] = r]
        BY <1>1, <2>3 DEF Call
      <3>2. r \in Atomic!Requests(t)
        BY <3>1 DEF Requests, Atomic!Requests
      <3>3. r = [f \in Fields |-> r[f]]
        BY <3>1 DEF Requests
      <3>4. \A u \in Threads \ {t} : absGiven(u)' = absGiven(u)
        BY <1>1, <3>1 DEF Call, TypeOK, absGiven
      <3>5. absGiven(t)' = r
        BY <1>1, <2>3, <3>1, <3>3 DEF Call, TypeOK, absGiven
      <3>6. absBuf' = [absBuf EXCEPT ![t] = r]
        BY <3>4, <3>5 DEF absBuf
      <3> QED
        BY <2>1, <2>2, <2>3, <3>2, <3>6 DEF Atomic!Call
    <2>4. CASE t \notin Writers
      <3>1. absBuf' = absBuf
        BY <1>1, <2>4 DEF Call, TypeOK, absBuf, absGiven
      <3> QED
        BY <2>1, <2>2, <2>4, <3>1 DEF Atomic!Call
    <2> QED
      BY <2>3, <2>4
  <1>2. ASSUME NEW t \in Threads, Lock(t) PROVE Atomic!Take(t)
    <2>1. absStage[t] = "called" /\ absStage' = [absStage EXCEPT ![t] = "done"]
      BY <1>2 DEF Lock, TypeOK, absStage
    <2>2. absVal = cell
      BY <1>2 DEF Lock, TypeOK, absVal
    <2>3. absBuf[t] = local[t]
      <3>1. local[t] = [f \in Fields |-> local[t][f]] /\ todo[t] = {}
        BY <1>2 DEF Lock, TypeOK
      <3> QED
        BY <3>1 DEF absBuf, absGiven
    <2>4. CASE t \in Writers
      <3>1. absVal' = [f \in Fields |-> IF f \in Access[t] THEN absBuf[t][f] ELSE absVal[f]]
        BY <1>2, <2>2, <2>3, <2>4 DEF Lock, TypeOK, absVal
      <3>2. absBuf' = absBuf
        BY <1>2, <2>4 DEF Lock, TypeOK, absBuf, absGiven
      <3> QED
        BY <2>1, <2>4, <3>1, <3>2 DEF Atomic!Take
    <2>5. CASE t \notin Writers
      <3>1. absVal' = absVal
        BY <1>2, <2>2, <2>5 DEF Lock, TypeOK, absVal
      <3>2. \A f \in Fields \ Access[t] : local[t][f] = Zero
        BY <1>2, <2>5 DEF Lock, ReaderBlank
      <3>3. \A u \in Threads \ {t} : absGiven(u)' = absGiven(u)
        BY <1>2 DEF Lock, TypeOK, absGiven
      <3>4. absGiven(t)' = [f \in Fields |-> IF f \in Access[t] THEN cell[f] ELSE Zero]
        BY <1>2, <2>5, <3>2 DEF Lock, TypeOK, absGiven
      <3>5. absBuf' = [absBuf EXCEPT ![t] =
                         [f \in Fields |-> IF f \in Access[t] THEN absVal[f] ELSE Zero]]
        BY <2>2, <3>3, <3>4 DEF absBuf
      <3> QED
        BY <2>1, <2>5, <3>1, <3>5 DEF Atomic!Take
    <2> QED
      BY <2>4, <2>5
  <1>3. ASSUME NEW t \in Threads, NEW f \in Fields, AccessField(t, f)
        PROVE  UNCHANGED Atomic!vars
    <2>1. absStage' = absStage
      BY <1>3 DEF AccessField, absStage
    <2>2. owner = t /\ owner' = t
      BY <1>3 DEF AccessField, HolderInside
    <2>3. absVal' = absVal
      BY <1>3, <2>2 DEF AccessField, TypeOK, absVal
    <2>4. \A u \in Threads \ {t} : absGiven(u)' = absGiven(u)
      <3> SUFFICES ASSUME NEW u \in Threads \ {t} PROVE absGiven(u)' = absGiven(u)
        OBVIOUS
      <3>1. todo[u] = {} /\ todo'[u] = {} /\ local'[u] = local[u]
        BY <1>3, <2>2 DEF AccessField, TypeOK, HolderInside
      <3> QED
        BY <3>1 DEF absGiven
    <2>5. absGiven(t)' = absGiven(t)
      BY <1>3 DEF AccessField, TypeOK, absGiven
    <2>6. absBuf' = absBuf
      BY <2>4, <2>5 DEF absBuf
    <2> QED
      BY <2>1, <2>3, <2>6 DEF Atomic!vars
  <1>4. ASSUME NEW t \in Threads, Unlock(t) PROVE Atomic!Return(t)
    <2>1. absStage[t] = "done" /\ absStage' = [absStage EXCEPT ![t] = "idle"]
      BY <1>4 DEF Unlock, TypeOK, absStage
    <2>2. owner = t
      BY <1>4 DEF Unlock, HolderInside
    <2>3. absVal' = absVal
      BY <1>4, <2>2 DEF Unlock, absVal
    <2>4. \A u \in Threads \ {t} : absGiven(u)' = absGiven(u)
      BY <1>4 DEF Unlock, TypeOK, absGiven
    <2>5. absGiven(t)' = Blank
      BY <1>4 DEF Unlock, TypeOK, absGiven, Blank
    <2>6. absBuf' = [absBuf EXCEPT ![t] = Blank]
      BY <2>4, <2>5 DEF absBuf
    <2> QED
      BY <2>1, <2>3, <2>6 DEF Atomic!Return, Blank, Atomic!Blank
  <1>5. ASSUME UNCHANGED vars PROVE UNCHANGED Atomic!vars
    BY <1>5 DEF vars, Atomic!vars, absVal, absBuf, absGiven, absStage
  <1> QED
    BY <1>1, <1>2, <1>3, <1>4, <1>5 DEF Next, Step, Atomic!Next

(* Any number of threads that lock the mutex of a structure, access its    *)
(* fields in any order and unlock behave as if each call were one step:    *)
(* the ground for the one-action critical sections of the other modules.   *)
THEOREM Implements == Spec => ImplementsAtomic
  BY Invariance, InitRefines, StepRefines, PTL
     DEF Spec, SafeSpec, ImplementsAtomic, Atomic!Spec
=============================================================================
