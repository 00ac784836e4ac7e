----------------------------- MODULE CameraFeeds ----------------------------
(***************************************************************************)
(* The processes of the camera feeds.  main forks one for each camera in   *)
(* turn (init_camera_feed); the child runs the frame grabber by system()   *)
(* and, when the grabber has ended, returns into main like its parent: it  *)
(* goes on to the calls for the later cameras, and then joins threads it   *)
(* does not have.                                                          *)
(*                                                                         *)
(* A process is named by the set of cameras whose forks lead to it: main   *)
(* is {}, and the child it forks for camera 1 is {1}; when the grabber of  *)
(* {1} has ended, {1} forks {1, 2}.  A child inherits the descriptors of   *)
(* its parent, the socket of the mission control server among them.        *)
(***************************************************************************)
EXTENDS Integers, FiniteSets

CONSTANTS N,             \* cameras
          MaxInterrupts  \* bound on the signals sent

ASSUME FeedsAssumption == N \in Nat /\ MaxInterrupts \in Nat

VARIABLES proc,        \* the processes
          listening,   \* main's server thread has bound and listens
          interrupts,  \* SIGINTs sent, not counting those below
          restarted    \* the program, started again after main has died

vars == <<proc, listening, interrupts, restarted>>

Cameras == 0 .. N - 1
Procs == SUBSET Cameras
Main == {}

(* "calls": between two calls of init_camera_feed, or past the last and in *)
(* pthread_join; "born": forked, before its system(); "feed": in system(). *)
(* "told": its grabber has been interrupted; "socket": it holds a copy of  *)
(* the server's.                                                           *)
Stages == {"none", "born", "feed", "calls"}
Proc == [stage : Stages, next : 0 .. N, told : BOOLEAN, socket : BOOLEAN]

(* Has the program been started again, after main had died, and if so:     *)
(* does it listen, or has its bind failed because a process of the last    *)
(* run holds the port, or because one of its connections is in TIME-WAIT?  *)
Restarts == {"no", "bound", "held", "wait"}

Nobody == [stage |-> "none", next |-> 0, told |-> FALSE, socket |-> FALSE]

Live(p) == proc[p].stage # "none"
Feeding(p) == proc[p].stage = "feed"

TypeOK == /\ proc \in [Procs -> Proc]
          /\ listening \in BOOLEAN
          /\ interrupts \in 0 .. MaxInterrupts
          /\ restarted \in Restarts

Init == /\ proc = [p \in Procs |-> IF p = Main THEN [Nobody EXCEPT !.stage = "calls"] ELSE Nobody]
        /\ listening = FALSE /\ interrupts = 0 /\ restarted = "no"
-----------------------------------------------------------------------------
(* Slips that each break a property below; no action uses them. *)
ForkPastLast(p) ==
  /\ proc[p].stage = "calls" /\ proc[p].next <= N
  /\ proc' = [proc EXCEPT ![p].next = @ + 1]
  /\ UNCHANGED <<listening, interrupts, restarted>>
GrabberRestarts(p) ==
  /\ Feeding(p)
  /\ proc' = [proc EXCEPT ![p].stage = "born", ![p].told = FALSE]
  /\ UNCHANGED <<listening, interrupts, restarted>>
ShieldedForGood == {p \in Procs : Feeding(p) \/ (p # Main /\ Live(p))}

(* The server thread, which main has created before the forks, gets its    *)
(* socket: before, between or after them.                                  *)
Listen ==
  /\ Live(Main) /\ ~listening
  /\ listening' = TRUE
  /\ proc' = [proc EXCEPT ![Main].socket = TRUE]
  /\ UNCHANGED <<interrupts, restarted>>

(* init_camera_feed(next): fork ... *)
Fork(p) ==
  /\ proc[p].stage = "calls" /\ proc[p].next < N
  /\ LET c == proc[p].next
     IN  proc' = [proc EXCEPT ![p].next = c + 1,
                              ![p \cup {c}] = [stage |-> "born", next |-> c + 1, told |-> FALSE,
                                               socket |-> proc[p].socket]]
  /\ UNCHANGED <<listening, interrupts, restarted>>

(* ... which may fail: that camera has no feed. *)
ForkFails(p) ==
  /\ proc[p].stage = "calls" /\ proc[p].next < N
  /\ proc' = [proc EXCEPT ![p].next = @ + 1]
  /\ UNCHANGED <<listening, interrupts, restarted>>

Feed(p) ==
  /\ proc[p].stage = "born"
  /\ proc' = [proc EXCEPT ![p].stage = "feed"]
  /\ UNCHANGED <<listening, interrupts, restarted>>

(* The grabber ends, interrupted or for a reason of its own: system()      *)
(* returns, and so does init_camera_feed.                                  *)
GrabberEnds(p) ==
  /\ Feeding(p)
  /\ proc' = [proc EXCEPT ![p].stage = "calls", ![p].told = FALSE]
  /\ UNCHANGED <<listening, interrupts, restarted>>

(* pthread_join, in a child, of threads that it does not have: it waits    *)
(* for ever, as main does, or returns at once, and the child exits.        *)
JoinReturns(p) ==
  /\ p # Main /\ proc[p].stage = "calls" /\ proc[p].next = N
  /\ proc' = [proc EXCEPT ![p] = Nobody]
  /\ UNCHANGED <<listening, interrupts, restarted>>

(* A process in system() ignores SIGINT; its grabber does not. *)
Shielded == {p \in Procs : Feeding(p)}

(* SIGINT to the process group, from the terminal or by kill.  One more    *)
(* makes no difference to a grabber that has been told and has not ended   *)
(* yet: an interrupt counts when those of the last one have ended.         *)
Interrupt ==
  /\ restarted = "no"
  /\ \/ \E p \in Procs : proc[p].told /\ UNCHANGED interrupts
     \/ /\ \A p \in Procs : ~proc[p].told
        /\ interrupts < MaxInterrupts
        /\ interrupts' = interrupts + 1
  /\ proc' = [p \in Procs |->
                IF p \in Shielded THEN [proc[p] EXCEPT !.told = Feeding(p)]
                ELSE Nobody]
  /\ UNCHANGED <<listening, restarted>>

(* main dies of another cause, such as SIGPIPE. *)
MainDies ==
  /\ Live(Main)
  /\ proc' = [proc EXCEPT ![Main] = Nobody]
  /\ UNCHANGED <<listening, interrupts, restarted>>

(* The program is started again: bind fails while somebody has the socket  *)
(* that listens on the port and, as SO_REUSEADDR is not set, while there   *)
(* is a remnant of a connection to it; whether it does is not tested.      *)
Restart ==
  /\ ~Live(Main) /\ restarted = "no"
  /\ restarted' \in IF \E p \in Procs : Live(p) /\ proc[p].socket THEN {"held"}
                    ELSE IF listening THEN {"bound", "wait"} ELSE {"bound"}
  /\ UNCHANGED <<proc, listening, interrupts>>

Runs(p) == Fork(p) \/ ForkFails(p) \/ Feed(p) \/ GrabberEnds(p) \/ JoinReturns(p)
Next == Listen \/ Interrupt \/ MainDies \/ Restart \/ \E p \in Procs : Runs(p)

SafeSpec == Init /\ [][Next]_vars

(* Processes run on, and an interrupted grabber ends: by FrameGrabber's    *)
(* InterruptEnds, if its subscribers take what it has sent them or leave.  *)
(* One that nobody interrupts need not.                                    *)
Spec == /\ SafeSpec
        /\ \A p \in Procs :
             WF_vars(Fork(p) \/ ForkFails(p) \/ Feed(p) \/ (proc[p].told /\ GrabberEnds(p)))
-----------------------------------------------------------------------------
(* Every interrupt costs the tree one generation: after k of them only     *)
(* processes at least k forks away from main are left, and only cameras    *)
(* forked for after the k-th are still, or again, in use.                  *)
ProcessesRetire ==
  \A p \in Procs : Live(p) =>
    /\ Cardinality(p) >= interrupts
    /\ Feeding(p) /\ ~proc[p].told => Cardinality(p) > interrupts

(* A program started again may find that a process of the last one still   *)
(* holds its port: but not after one more interrupt than there are cameras.*)
HeldOnlyBefore == restarted = "held" => interrupts <= N

(* Interrupts retire the processes, and with them their hold on the port.  *)
InterruptsRetire == ProcessesRetire /\ HeldOnlyBefore

(* As many interrupts as cameras stop every feed for good. *)
FeedsStop == (interrupts >= N) ~> [](\A p \in Procs : ~Feeding(p))
=============================================================================
