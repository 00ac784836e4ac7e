---------------------------- MODULE AtomicStruct ----------------------------
(***************************************************************************)
(* What a global structure of the vehicle promises to the threads that     *)
(* share it: a call that writes some of its fields, or reads some of them, *)
(* takes effect in one indivisible step between its call and its return.   *)
(* SharedStruct, the structure behind its pthread mutex, implements this.  *)
(***************************************************************************)
CONSTANTS Threads,   \* the threads that call
          Writers,   \* those of them that write; the others read
          Fields,    \* the fields of the structure
          Access,    \* Access[t]: the fields that the call of thread t names
          Values,    \* what a field may hold
          Zero       \* what main stores in every field before any thread runs

VARIABLES val,       \* the structure
          stage,     \* stage[t]: "idle", "called" or "done"
          buf        \* buf[t]: what a writer asks for, what a reader was given

vars == <<val, stage, buf>>

Blank == [f \in Fields |-> Zero]

(* Only the fields the call of t names carry a request or a result. *)
Requests(t) == {r \in [Fields -> Values] : \A f \in Fields \ Access[t] : r[f] = Zero}

Init == /\ val = Blank
        /\ stage = [t \in Threads |-> "idle"]
        /\ buf = [t \in Threads |-> Blank]

Call(t) ==
  /\ stage[t] = "idle"
  /\ stage' = [stage EXCEPT ![t] = "called"]
  /\ IF t \in Writers THEN \E r \in Requests(t) : buf' = [buf EXCEPT ![t] = r]
                      ELSE buf' = buf
  /\ val' = val

(* The whole effect of the call. *)
Take(t) ==
  /\ stage[t] = "called"
  /\ stage' = [stage EXCEPT ![t] = "done"]
  /\ IF t \in Writers
     THEN /\ val' = [f \in Fields |-> IF f \in Access[t] THEN buf[t][f] ELSE val[f]]
          /\ buf' = buf
     ELSE /\ buf' = [buf EXCEPT ![t] =
                       [f \in Fields |-> IF f \in Access[t] THEN val[f] ELSE Zero]]
          /\ val' = val

Return(t) ==
  /\ stage[t] = "done"
  /\ stage' = [stage EXCEPT ![t] = "idle"]
  /\ buf' = [buf EXCEPT ![t] = Blank]
  /\ val' = val

Next == \E t \in Threads : Call(t) \/ Take(t) \/ Return(t)

Spec == Init /\ [][Next]_vars
=============================================================================
