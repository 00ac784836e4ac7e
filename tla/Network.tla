------------------------------ MODULE Network -------------------------------
(***************************************************************************)
(* The GPS client, the depth sensor's thread and the two servers in one    *)
(* process: they take their descriptors from one table, and end together.  *)
(***************************************************************************)
EXTENDS GpsFix, DstLink, CommandServer, FiniteSets

ASSUME NamesAssumption == Clients \cap {"free", "gps", "dst", "lost"} = {}

vars == <<fds, alive, gpsvars, dstvars, servervars>>

TypeOK == /\ fds \in [Numbers -> {"free", "gps", "dst", "lost"} \cup Clients]
          /\ alive \in BOOLEAN
          /\ GpsTypeOK /\ DstTypeOK /\ ServerTypeOK

Init == /\ fds = [n \in Numbers |-> "free"] /\ alive = TRUE
        /\ GpsInit /\ DstInit /\ ServerInit

Next == /\ alive
        /\ \/ GpsNext /\ UNCHANGED <<dstvars, servervars>>
           \/ DstNext /\ UNCHANGED <<gpsvars, servervars>>
           \/ ServerNext /\ UNCHANGED <<gpsvars, dstvars>>

Step(A, others) == alive /\ A /\ UNCHANGED others

(* Threads run on, and a sensor that is plugged in sends lines; hosts and  *)
(* clients do as they like.                                                *)
Fairness ==
  /\ WF_vars(Step(GpsRuns, <<dstvars, servervars>>))
  /\ WF_vars(Step(DstRuns, <<gpsvars, servervars>>))
  /\ \A c \in Clients : WF_vars(Step(Turn(c) \/ Works(c), <<gpsvars, dstvars>>))

Spec == Init /\ [][Next]_vars /\ Fairness
-----------------------------------------------------------------------------
(* A thread's descriptor is its own, although numbers are used again, and  *)
(* one that no thread will use is closed, except those lost by a failed    *)
(* attempt to reach the GPS host or to start a worker.                     *)
DescriptorsOwned ==
  \A n \in Numbers :
    /\ fds[n] = "gps" <=> gps # "socket" /\ sockfd = n
    /\ fds[n] = "dst" <=> dst_fd = n
    /\ \A c \in Clients : fds[n] = c <=> Served(c) /\ conn[c].fd = n

(* So many descriptors have been lost that the clients and the two links   *)
(* cannot have one each.                                                   *)
Lost == {n \in Numbers : fds[n] = "lost"}
Short == Cardinality(Lost) + Cardinality(Clients) + 2 > Limit

(* Whoever has sent a command has one read, or else the connection closed: *)
(* it is not left waiting, for a worker or by its worker, whatever the     *)
(* others do.  Unless the program is dead, or, for who has no worker yet,  *)
(* short of descriptors or threads.                                        *)
ClientServed ==
  \A c \in Clients :
    \/ []<>(conn[c].pending = 0 \/ ~alive \/ (~Served(c) /\ (Short \/ threads = MaxThreads)))
    \/ []<><<Read(c)>>_vars

(* And the depth shown follows the water as long as the sensor is plugged  *)
(* in, and has not been pulled out since it was opened.                    *)
DepthFollows ==
  depth = "behind" ~> (depth # "behind" \/ ~sensor \/ ~alive \/ (dst_fd = NoFd /\ Short))
=============================================================================
