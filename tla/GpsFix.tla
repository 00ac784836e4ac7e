------------------------------- MODULE GpsFix -------------------------------
(***************************************************************************)
(* The client of the GPS host at the surface (init_gps_fix): it connects,  *)
(* writes a newline, reads a sentence, and so on.  An attempt to connect   *)
(* that fails leaves its socket open, and a host that closes is only       *)
(* noticed by writing to it.                                               *)
(***************************************************************************)
EXTENDS Process

VARIABLES gps,     \* where the thread is: "socket", "connect" or "linked"
          sockfd,  \* its descriptor
          peer     \* the other end of its connection

gpsvars == <<gps, sockfd, peer>>

(* "open"; "closed": the host has closed; "gone": and has been written to  *)
(* since, and answered that there is nobody.                               *)
Peers == {"open", "closed", "gone"}

GpsTypeOK == /\ gps \in {"socket", "connect", "linked"}
             /\ sockfd \in Numbers \cup {NoFd}
             /\ peer \in Peers

GpsInit == gps = "socket" /\ sockfd = NoFd /\ peer = "open"

(* With the table full, socket fails and the thread sleeps and tries again. *)
GpsSocket ==
  /\ gps = "socket"
  /\ \E n \in Numbers : Open(n, "gps") /\ sockfd' = n
  /\ gps' = "connect"
  /\ UNCHANGED <<alive, peer>>

(* gethostbyname and connect.  Either may fail: continue, without a close. *)
GpsConnect ==
  /\ gps = "connect"
  /\ \/ gps' = "linked" /\ UNCHANGED <<fds, sockfd>>
     \/ gps' = "socket" /\ sockfd' = NoFd /\ Forget(sockfd)
  /\ UNCHANGED <<alive, peer>>

(* A slip: the socket is forgotten, not closed. *)
HostResetsOpen ==
  /\ gps = "linked" /\ peer = "open"
  /\ gps' = "socket" /\ sockfd' = NoFd
  /\ UNCHANGED <<fds, alive, peer>>

(* The host aborts the connection: the thread's write or read fails, and   *)
(* it closes its socket to start again.  (A host that only falls silent    *)
(* leaves it in read.)                                                     *)
HostResets ==
  /\ gps = "linked" /\ peer = "open"
  /\ gps' = "socket" /\ sockfd' = NoFd
  /\ Close(sockfd)
  /\ UNCHANGED <<alive, peer>>

(* A turn: write, and read what comes.  With the host there it changes     *)
(* nothing but vehicle_position, on which nothing here depends.  After it  *)
(* has closed, a write succeeds once, and then is fatal; that read returns *)
(* 0 is no error, and the turns go on.                                     *)
GpsTurn ==
  /\ gps = "linked" /\ peer \in {"closed", "gone"}
  /\ peer' = "gone"
  /\ alive' = (peer # "gone")
  /\ UNCHANGED <<fds, gps, sockfd>>

(* The host closes the connection, in good order. *)
HostCloses ==
  /\ gps = "linked" /\ peer = "open"
  /\ peer' = "closed"
  /\ UNCHANGED <<fds, alive, gps, sockfd>>

GpsRuns == GpsSocket \/ GpsConnect \/ GpsTurn
GpsNext == GpsRuns \/ HostResets \/ HostCloses
=============================================================================
