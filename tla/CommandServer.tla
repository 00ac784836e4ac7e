---------------------------- MODULE CommandServer ---------------------------
(***************************************************************************)
(* The two TCP servers: mission control, whose workers execute commands,   *)
(* and diagnostics, whose workers answer requests.  A worker takes what    *)
(* one read returns for one command: of those that have arrived together   *)
(* it executes the first.  Worker threads are neither joined nor detached, *)
(* so each one, ended or not, keeps its stack.                             *)
(***************************************************************************)
EXTENDS Process

CONSTANTS Operators,   \* clients of mission control
          Observers,   \* clients of diagnostics
          MaxPending,  \* bound on the commands on their way to a worker
          MaxThreads,  \* worker threads that the program can create
          Garbage      \* the servers whose uninitialized clilen may be below 0

Servers == {"mission", "diagnostics"}

ASSUME ServerAssumption == /\ MaxPending \in Nat /\ MaxThreads \in Nat
                           /\ Garbage \subseteq Servers
                           /\ Operators \cap Observers = {}

VARIABLES conn,     \* the connection of each client
          threads,  \* worker threads created
          negative  \* the servers whose clilen is below 0

servervars == <<conn, threads, negative>>

Clients == Operators \cup Observers

(* stage "backlog": not accepted; "served": by a worker.  pending: the     *)
(* commands not read.  peer: the client's end, as the host's in GpsFix.    *)
Conn == [stage : {"away", "backlog", "served"}, fd : Numbers \cup {NoFd},
         pending : 0 .. MaxPending, peer : {"open", "closed", "gone"}]
Away == [stage |-> "away", fd |-> NoFd, pending |-> 0, peer |-> "open"]

ServerOf(c) == IF c \in Operators THEN "mission" ELSE "diagnostics"

Served(c) == conn[c].stage = "served"

ServerTypeOK == /\ conn \in [Clients -> Conn]
                /\ threads \in 0 .. MaxThreads
                /\ negative \subseteq Garbage

ServerInit == conn = [c \in Clients |-> Away] /\ threads = 0 /\ negative \in SUBSET Garbage
-----------------------------------------------------------------------------
(* What clients do: connect, send a command, leave.  To leave before one   *)
(* has been accepted is the same as to leave just after it.                *)
Connect(c) ==
  /\ conn[c].stage = "away"
  /\ conn' = [conn EXCEPT ![c].stage = "backlog"]
  /\ UNCHANGED <<fds, alive, threads, negative>>

Send(c) ==
  /\ conn[c].stage # "away" /\ conn[c].peer = "open" /\ conn[c].pending < MaxPending
  /\ conn' = [conn EXCEPT ![c].pending = @ + 1]
  /\ UNCHANGED <<fds, alive, threads, negative>>

Leave(c) ==
  /\ Served(c) /\ conn[c].peer = "open"
  /\ conn' = [conn EXCEPT ![c].peer = "closed"]
  /\ UNCHANGED <<fds, alive, threads, negative>>
-----------------------------------------------------------------------------
(* accept, and a worker for the connection, if there can be one more; if   *)
(* not, the connection stays open and nobody reads from it.                *)
Accept(c) ==
  /\ conn[c].stage = "backlog" /\ ServerOf(c) \notin negative
  /\ \E n \in Numbers :
       \/ /\ threads < MaxThreads
          /\ Open(n, c)
          /\ conn' = [conn EXCEPT ![c].stage = "served", ![c].fd = n]
          /\ threads' = threads + 1
       \/ /\ threads = MaxThreads
          /\ Open(n, "lost")
          /\ conn' = [conn EXCEPT ![c] = Away]
          /\ UNCHANGED threads
  /\ UNCHANGED <<alive, negative>>

(* With a negative clilen accept takes the connection, cannot give the     *)
(* client's address, closes it again and fails, every time; mission        *)
(* control starts a worker all the same, which ends at once.               *)
TurnAway(c) ==
  /\ conn[c].stage = "backlog" /\ ServerOf(c) \in negative /\ ~Full
  /\ conn' = [conn EXCEPT ![c] = Away]
  /\ threads' = IF c \in Operators /\ threads < MaxThreads THEN threads + 1 ELSE threads
  /\ UNCHANGED <<fds, alive, negative>>

(* accept fails, whether or not somebody waits, while the table is full.   *)
(* diagnostics tries again; mission control starts a worker, with          *)
(* descriptor -1, which finds that it cannot be read and ends.             *)
AcceptFails ==
  /\ Full /\ threads < MaxThreads
  /\ threads' = threads + 1
  /\ UNCHANGED <<fds, alive, conn, negative>>

(* The client after an answer, or after a command, which has none. *)
AfterAnswer(c) == IF c \in Operators \/ conn[c].peer = "open" THEN conn[c].peer ELSE "gone"

(* Slips: one command too many is taken, and a full buffer waited for. *)
ReadOneTooMany(c) ==
  /\ Served(c) /\ conn[c].pending > 0
  /\ \E k \in 1 .. conn[c].pending + 1 :
       conn' = [conn EXCEPT ![c].pending = @ - k, ![c].peer = AfterAnswer(c)]
  /\ alive' = (conn[c].peer # "gone")
  /\ UNCHANGED <<fds, threads, negative>>
ReadFull(c) ==
  /\ Served(c) /\ conn[c].pending = MaxPending
  /\ conn' = [conn EXCEPT ![c].pending = 0, ![c].peer = AfterAnswer(c)]
  /\ alive' = (conn[c].peer # "gone")
  /\ UNCHANGED <<fds, threads, negative>>

(* One read, of any number of the commands that have arrived.  The first   *)
(* is executed, or answered (send_response), and the others are lost.  As  *)
(* in GpsTurn, the second answer to a client that has left is fatal; and   *)
(* any read may be: a command too short (atof of no token), or a buffer    *)
(* without a newline to strip.                                             *)
Read(c) ==
  /\ Served(c) /\ conn[c].pending > 0
  /\ \E k \in 1 .. conn[c].pending :
       conn' = [conn EXCEPT ![c].pending = @ - k, ![c].peer = AfterAnswer(c)]
  /\ alive' \in {conn[c].peer # "gone", FALSE}
  /\ UNCHANGED <<fds, threads, negative>>

(* read returns 0, or fails: the worker closes its descriptor and ends. *)
WorkerEnds(c) ==
  /\ Served(c) /\ conn[c].pending = 0 /\ conn[c].peer # "open"
  /\ Close(conn[c].fd)
  /\ conn' = [conn EXCEPT ![c] = Away]
  /\ UNCHANGED <<alive, threads, negative>>

Client(c) == Connect(c) \/ Send(c) \/ Leave(c)
Turn(c) == Accept(c) \/ TurnAway(c)
Works(c) == Read(c) \/ WorkerEnds(c)
ServerNext == AcceptFails \/ \E c \in Clients : Client(c) \/ Turn(c) \/ Works(c)
=============================================================================
