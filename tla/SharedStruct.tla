---------------------------- MODULE SharedStruct ----------------------------
(***************************************************************************)
(* A global structure of the vehicle (thrust, orientation, PID values, ...)*)
(* as the code accesses it: field by field, between the lock and the unlock*)
(* of the structure's pthread mutex.  Inside the critical section the      *)
(* accesses come in any order, as the compiler may reorder plain loads and *)
(* stores between the two calls; only the mutex orders anything.  The      *)
(* names below are those of vehicle_thrust; orientation_mutex,             *)
(* pid_values_mutex, position_mutex, dst_mutex and                         *)
(* initial_orientation_mutex guard their structures in the same way.       *)
(***************************************************************************)
EXTENDS FiniteSets

CONSTANTS Threads, Writers, Fields, Access, Values, Zero,
          NoThread   \* the owner of a free mutex

ASSUME StructAssumption == /\ Writers \subseteq Threads
                           /\ Access \in [Threads -> SUBSET Fields]
                           /\ Zero \in Values
                           /\ NoThread \notin Threads

VARIABLES cell,      \* the memory of the structure
          owner,     \* the thread that holds the mutex
          pc,        \* pc[t]: "idle", "called" (before the lock), "inside"
          local,     \* local[t]: arguments of a writer, locals of a reader
          todo       \* todo[t]: the fields t has still to access

vars == <<cell, owner, pc, local, todo>>

Blank == [f \in Fields |-> Zero]

Requests(t) == {r \in [Fields -> Values] : \A f \in Fields \ Access[t] : r[f] = Zero}

TypeOK == /\ cell \in [Fields -> Values]
          /\ owner \in Threads \cup {NoThread}
          /\ pc \in [Threads -> {"idle", "called", "inside"}]
          /\ local \in [Threads -> [Fields -> Values]]
          /\ todo \in [Threads -> SUBSET Fields]

(* Slips that each break a property below; no action uses them. *)
InitUnset == /\ cell \in [Fields \ {CHOOSE f \in Fields : TRUE} -> {Zero}]
             /\ owner = NoThread
             /\ pc = [t \in Threads |-> "idle"]
             /\ local = [t \in Threads |-> Blank]
             /\ todo = [t \in Threads |-> {}]

LockUnguarded(t) ==
  /\ pc[t] = "called"
  /\ owner' = t
  /\ pc' = [pc EXCEPT ![t] = "inside"]
  /\ todo' = [todo EXCEPT ![t] = Access[t]]
  /\ UNCHANGED <<cell, local>>

UnlockEarly(t) ==
  /\ pc[t] = "inside"
  /\ owner' = NoThread
  /\ pc' = [pc EXCEPT ![t] = "idle"]
  /\ local' = [local EXCEPT ![t] = Blank]
  /\ todo' = [todo EXCEPT ![t] = {}]
  /\ UNCHANGED cell

UnlockForgotten(t) ==
  /\ pc[t] = "inside"
  /\ todo[t] = {}
  /\ pc' = [pc EXCEPT ![t] = "idle"]
  /\ local' = [local EXCEPT ![t] = Blank]
  /\ UNCHANGED <<cell, owner, todo>>

Init == /\ cell = Blank
        /\ owner = NoThread
        /\ pc = [t \in Threads |-> "idle"]
        /\ local = [t \in Threads |-> Blank]
        /\ todo = [t \in Threads |-> {}]

(* The function is entered: a writer with the values it was passed. *)
Call(t) ==
  /\ pc[t] = "idle"
  /\ pc' = [pc EXCEPT ![t] = "called"]
  /\ IF t \in Writers THEN \E r \in Requests(t) : local' = [local EXCEPT ![t] = r]
                      ELSE local' = local
  /\ UNCHANGED <<cell, owner, todo>>

(* pthread_mutex_lock *)
Lock(t) ==
  /\ pc[t] = "called"
  /\ owner = NoThread
  /\ owner' = t
  /\ pc' = [pc EXCEPT ![t] = "inside"]
  /\ todo' = [todo EXCEPT ![t] = Access[t]]
  /\ UNCHANGED <<cell, local>>

(* One field is stored by a writer, or loaded by a reader. *)
AccessField(t, f) ==
  /\ pc[t] = "inside"
  /\ f \in todo[t]
  /\ todo' = [todo EXCEPT ![t] = @ \ {f}]
  /\ IF t \in Writers
     THEN cell' = [cell EXCEPT ![f] = local[t][f]] /\ local' = local
     ELSE local' = [local EXCEPT ![t] = [@ EXCEPT ![f] = cell[f]]] /\ cell' = cell
  /\ UNCHANGED <<owner, pc>>

(* pthread_mutex_unlock, and the return that drops the locals *)
Unlock(t) ==
  /\ pc[t] = "inside"
  /\ todo[t] = {}
  /\ owner' = NoThread
  /\ pc' = [pc EXCEPT ![t] = "idle"]
  /\ local' = [local EXCEPT ![t] = Blank]
  /\ UNCHANGED <<cell, todo>>

Step(t) == Call(t) \/ Lock(t) \/ (\E f \in Fields : AccessField(t, f)) \/ Unlock(t)

Next == \E t \in Threads : Step(t)

(* Nobody is obliged to call.  A holder runs on to its unlock; the mutex   *)
(* is granted to every thread that keeps asking (no pthread_mutex_lock     *)
(* starves), which is what the liveness below assumes of the scheduler.    *)
Fairness == \A t \in Threads : /\ SF_vars(Lock(t))
                               /\ WF_vars(Unlock(t) \/ \E f \in Fields : AccessField(t, f))

SafeSpec == Init /\ [][Next]_vars

Spec == SafeSpec /\ Fairness
-----------------------------------------------------------------------------
(* The mutex is owned by the one thread that is between lock and unlock. *)
HolderInside == \A t \in Threads : pc[t] = "inside" <=> owner = t

(* No torn read: a reader in the middle of its critical section holds, for *)
(* every field it has loaded, what the structure holds now, so that the    *)
(* four loads of get_vehicle_thrust or of the thruster thread come from    *)
(* one state of the structure although a set_thrust may be waiting.        *)
Snapshot == \A t \in Threads \ Writers :
              pc[t] = "inside" =>
                \A f \in Access[t] \ todo[t] : local[t][f] = cell[f]

(* No torn write: the fields that a set_thrust has already stored are not  *)
(* touched by anyone until it unlocks.                                     *)
WholeWrite == \A t \in Writers :
                pc[t] = "inside" =>
                  \A f \in Access[t] \ todo[t] : cell[f] = local[t][f]

(* Every call returns: no thread is left waiting for a structure. *)
CallsReturn == \A t \in Threads : pc[t] = "called" ~> pc[t] = "idle"
-----------------------------------------------------------------------------
(* The structure seen as an atomic one.  A call takes effect when it locks *)
(* the mutex: a field that the holder has still to store already counts as *)
(* stored, and one it has still to load as loaded.                         *)
absVal == [f \in Fields |->
             IF owner \in Writers /\ f \in todo[owner] THEN local[owner][f] ELSE cell[f]]

absGiven(t) == [f \in Fields |->
                  IF t \notin Writers /\ f \in todo[t] THEN cell[f] ELSE local[t][f]]

absBuf == [t \in Threads |-> absGiven(t)]

absStage == [t \in Threads |-> IF pc[t] = "inside" THEN "done" ELSE pc[t]]

Atomic == INSTANCE AtomicStruct WITH val <- absVal, stage <- absStage, buf <- absBuf

(* The locked structure implements the atomic one: this is what lets the   *)
(* other modules of the project write a critical section as one action.    *)
ImplementsAtomic == Atomic!Spec
=============================================================================
