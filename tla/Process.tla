------------------------------ MODULE Process -------------------------------
(***************************************************************************)
(* What the threads of the control program share besides its structures:   *)
(* one table of descriptors, of a limited size, and one life, which a      *)
(* SIGPIPE in any of them ends.                                            *)
(***************************************************************************)
EXTENDS Integers

CONSTANTS Limit  \* descriptors there are, besides those opened for good

ASSUME LimitAssumption == Limit \in Nat

VARIABLES fds,    \* the table: whose descriptor each number is
          alive   \* the program runs

Numbers == 1 .. Limit
NoFd == 0        \* -1 in the code

Full == \A n \in Numbers : fds[n] # "free"
LowestFree(n) == fds[n] = "free" /\ \A m \in 1 .. n - 1 : fds[m] # "free"

(* socket, open or accept returns n; close(n); and n is neither closed nor *)
(* remembered.                                                             *)
Open(n, what) == LowestFree(n) /\ fds' = [fds EXCEPT ![n] = what]
Close(n) == fds' = [fds EXCEPT ![n] = "free"]
Forget(n) == fds' = [fds EXCEPT ![n] = "lost"]
=============================================================================
