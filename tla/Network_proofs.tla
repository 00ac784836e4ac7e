--------------------------- MODULE Network_proofs ---------------------------
(***************************************************************************)
(* Whose descriptor each number is, for any size of the table, any clients *)
(* and any number of threads, and hosts, clients and a sensor that come    *)
(* and go.                                                                 *)
(***************************************************************************)
EXTENDS Network, FiniteSetTheorems, TLAPS

(* What a thread remembers as its descriptor is a number of the table. *)
InTable == /\ gps # "socket" => sockfd \in Numbers
           /\ \A c \in Clients : Served(c) => conn[c].fd \in Numbers

Inv == TypeOK /\ InTable /\ DescriptorsOwned

Names == {"free", "gps", "dst", "lost"} \cup Clients

LEMMA NoFdIsNoNumber == NoFd \notin Numbers
  BY LimitAssumption DEF NoFd, Numbers

(* The table after open and after a descriptor's end. *)
LEMMA OpenTable ==
  ASSUME fds \in [Numbers -> Names], NEW n \in Numbers, NEW what \in Names, Open(n, what)
  PROVE  /\ fds' \in [Numbers -> Names] /\ fds[n] = "free"
         /\ \A m \in Numbers : fds'[m] = IF m = n THEN what ELSE fds[m]
  BY DEF Open, LowestFree

LEMMA EndTable ==
  ASSUME fds \in [Numbers -> Names], NEW n \in Numbers, Close(n) \/ Forget(n)
  PROVE  /\ fds' \in [Numbers -> Names]
         /\ fds'[n] \in {"free", "lost"}
         /\ \A m \in Numbers : m # n => fds'[m] = fds[m]
  BY DEF Close, Forget, Names

LEMMA NamesApart ==
  ASSUME NEW c \in Clients
  PROVE  c \notin {"free", "gps", "dst", "lost"}
  BY NamesAssumption

LEMMA InitInv == Init => Inv
  <1> SUFFICES ASSUME Init PROVE Inv
    OBVIOUS
  <1> USE LimitAssumption, ServerAssumption
  <1>1. TypeOK
    <2>1. fds \in [Numbers -> Names] /\ alive \in BOOLEAN
      BY DEF Init, Names
    <2>2. GpsTypeOK /\ DstTypeOK
      BY DEF Init, GpsInit, DstInit, GpsTypeOK, DstTypeOK, Peers
    <2>3. Away \in Conn
      BY DEF Away, Conn
    <2>4. ServerTypeOK
      BY <2>3 DEF Init, ServerInit, ServerTypeOK, Away
    <2>5. QED
      BY <2>1, <2>2, <2>4 DEF TypeOK, Names
  <1>2. \A c \in Clients : ~Served(c)
    BY DEF Init, ServerInit, Served, Away
  <1>3. InTable
    BY <1>2 DEF InTable, Init, GpsInit
  <1>4. DescriptorsOwned
    BY <1>2, NoFdIsNoNumber, NamesApart DEF DescriptorsOwned, Init, GpsInit, DstInit
  <1>5. QED
    BY <1>1, <1>3, <1>4 DEF Inv

-----------------------------------------------------------------------------
LEMMA GpsInv ==
  ASSUME Inv, GpsNext, UNCHANGED <<dstvars, servervars>>
  PROVE  Inv'
  <1>1. /\ fds \in [Numbers -> Names] /\ GpsTypeOK
        /\ UNCHANGED <<dst_fd, sensor, depth, conn, threads, negative>>
    BY DEF Inv, TypeOK, Names, dstvars, servervars
  <1>2. DstTypeOK' /\ ServerTypeOK' /\ \A c \in Clients : Served(c)' = Served(c)
    BY <1>1 DEF Inv, TypeOK, DstTypeOK, ServerTypeOK, Served
  <1>3. CASE GpsSocket
    <2>1. PICK n \in Numbers : Open(n, "gps") /\ sockfd' = n
      BY <1>3 DEF GpsSocket
    <2>2. gps = "socket" /\ gps' = "connect" /\ UNCHANGED <<alive, peer>>
      BY <1>3 DEF GpsSocket
    <2>3. /\ fds' \in [Numbers -> Names] /\ fds[n] = "free"
          /\ \A m \in Numbers : fds'[m] = IF m = n THEN "gps" ELSE fds[m]
      BY <1>1, <2>1, OpenTable DEF Names
    <2>4. TypeOK'
      BY <1>1, <1>2, <2>1, <2>2, <2>3 DEF Inv, TypeOK, Names, GpsTypeOK
    <2>5. InTable'
      BY <1>1, <1>2, <2>1 DEF Inv, InTable
    <2>6. DescriptorsOwned'
      BY <1>1, <1>2, <2>1, <2>2, <2>3, NamesApart DEF Inv, DescriptorsOwned
    <2>7. QED
      BY <2>4, <2>5, <2>6 DEF Inv
  <1>4. ASSUME gps # "socket", gps' = "socket", sockfd' = NoFd,
               Close(sockfd) \/ Forget(sockfd), UNCHANGED <<alive, peer>>
        PROVE  Inv'
    <2>1. sockfd \in Numbers
      BY <1>4 DEF Inv, InTable
    <2>2. /\ fds' \in [Numbers -> Names] /\ fds'[sockfd] \in {"free", "lost"}
          /\ \A m \in Numbers : m # sockfd => fds'[m] = fds[m]
      BY <1>1, <1>4, <2>1, EndTable
    <2>3. fds[sockfd] = "gps"
      BY <1>4, <2>1 DEF Inv, DescriptorsOwned
    <2>4. TypeOK'
      BY <1>1, <1>2, <1>4, <2>2 DEF Inv, TypeOK, Names, GpsTypeOK
    <2>5. InTable'
      BY <1>1, <1>2, <1>4 DEF Inv, InTable
    <2>6. DescriptorsOwned'
      BY <1>1, <1>2, <1>4, <2>1, <2>2, <2>3, NamesApart DEF Inv, DescriptorsOwned
    <2>7. QED
      BY <2>4, <2>5, <2>6 DEF Inv
  <1>5. ASSUME gps # "socket", gps' = "linked", UNCHANGED <<fds, sockfd>>,
               alive' \in BOOLEAN, peer' \in Peers
        PROVE  Inv'
    <2>1. TypeOK'
      BY <1>1, <1>2, <1>5 DEF Inv, TypeOK, GpsTypeOK
    <2>2. InTable' /\ DescriptorsOwned'
      BY <1>1, <1>2, <1>5 DEF Inv, InTable, DescriptorsOwned
    <2>3. QED
      BY <2>1, <2>2 DEF Inv
  <1>6. CASE GpsConnect
    <2>1. gps = "connect" /\ UNCHANGED <<alive, peer>>
      BY <1>6 DEF GpsConnect
    <2>2. CASE gps' = "linked" /\ UNCHANGED <<fds, sockfd>>
      BY <1>1, <1>5, <2>1, <2>2 DEF Inv, TypeOK, GpsTypeOK
    <2>3. CASE gps' = "socket" /\ sockfd' = NoFd /\ Forget(sockfd)
      BY <1>4, <2>1, <2>3
    <2>4. QED
      BY <1>6, <2>2, <2>3 DEF GpsConnect
  <1>7. CASE HostResets
    BY <1>4, <1>7 DEF HostResets
  <1>8. CASE GpsTurn
    <2>1. gps # "socket" /\ gps' = "linked" /\ alive' \in BOOLEAN /\ peer' \in Peers /\ UNCHANGED <<fds, sockfd>>
      BY <1>8 DEF GpsTurn, Peers
    <2>2. QED
      BY <1>5, <2>1
  <1>9. CASE HostCloses
    <2>1. gps # "socket" /\ gps' = "linked" /\ peer' \in Peers /\ UNCHANGED <<fds, sockfd, alive>>
      BY <1>9 DEF HostCloses, Peers
    <2>2. QED
      BY <1>5, <2>1 DEF Inv, TypeOK
  <1>10. QED
    BY <1>3, <1>6, <1>7, <1>8, <1>9 DEF GpsNext, GpsRuns

LEMMA DstInv ==
  ASSUME Inv, DstNext, UNCHANGED <<gpsvars, servervars>>
  PROVE  Inv'
  <1>1. /\ fds \in [Numbers -> Names] /\ DstTypeOK
        /\ UNCHANGED <<gps, sockfd, peer, conn, threads, negative>>
    BY DEF Inv, TypeOK, Names, gpsvars, servervars
  <1>2. GpsTypeOK' /\ ServerTypeOK' /\ \A c \in Clients : Served(c)' = Served(c)
    BY <1>1 DEF Inv, TypeOK, GpsTypeOK, ServerTypeOK, Served
  <1>3. InTable'
    BY <1>1, <1>2 DEF Inv, InTable
  <1>4. CASE connect_to_dst
    <2>1. PICK n \in Numbers : Open(n, "dst") /\ dst_fd' = n
      BY <1>4 DEF connect_to_dst
    <2>2. dst_fd = NoFd /\ UNCHANGED <<alive, sensor, depth>>
      BY <1>4 DEF connect_to_dst
    <2>3. /\ fds' \in [Numbers -> Names] /\ fds[n] = "free"
          /\ \A m \in Numbers : fds'[m] = IF m = n THEN "dst" ELSE fds[m]
      BY <1>1, <2>1, OpenTable DEF Names
    <2>4. TypeOK'
      BY <1>1, <1>2, <2>1, <2>2, <2>3 DEF Inv, TypeOK, Names, DstTypeOK
    <2>5. DescriptorsOwned'
      BY <1>1, <1>2, <2>1, <2>2, <2>3, NamesApart, NoFdIsNoNumber DEF Inv, DescriptorsOwned
    <2>6. QED
      BY <1>3, <2>4, <2>5 DEF Inv
  <1>5. CASE DstLine \/ WaterChanges \/ SensorPulled \/ SensorPlugged
    <2>1. UNCHANGED <<fds, dst_fd>> /\ alive' \in BOOLEAN
      BY <1>5 DEF Inv, TypeOK, DstLine, WaterChanges, SensorPulled, SensorPlugged
    <2>2. DstTypeOK'
      BY <1>1, <1>5 DEF DstTypeOK, DstLine, WaterChanges, SensorPulled, SensorPlugged
    <2>3. TypeOK'
      BY <1>1, <1>2, <2>1, <2>2 DEF Inv, TypeOK
    <2>4. DescriptorsOwned'
      BY <1>1, <1>2, <2>1 DEF Inv, DescriptorsOwned
    <2>5. QED
      BY <1>3, <2>3, <2>4 DEF Inv
  <1>6. QED
    BY <1>4, <1>5 DEF DstNext, DstRuns

-----------------------------------------------------------------------------
(* A step of the servers that opens or closes nothing, and leaves every    *)
(* worker with its connection.                                             *)
LEMMA SameDescriptors ==
  ASSUME Inv, UNCHANGED <<gpsvars, dstvars, fds>>, alive' \in BOOLEAN, ServerTypeOK',
         \A c \in Clients : Served(c)' = Served(c) /\ (Served(c) => conn'[c].fd = conn[c].fd)
  PROVE  Inv'
  <1>1. UNCHANGED <<gps, sockfd, peer, dst_fd, sensor, depth>>
    BY DEF gpsvars, dstvars
  <1>2. TypeOK'
    BY <1>1 DEF Inv, TypeOK, GpsTypeOK, DstTypeOK
  <1>3. InTable' /\ DescriptorsOwned'
    BY <1>1 DEF Inv, InTable, DescriptorsOwned
  <1>4. QED
    BY <1>2, <1>3 DEF Inv

LEMMA AcceptInv ==
  ASSUME Inv, NEW c \in Clients, Accept(c), UNCHANGED <<gpsvars, dstvars>>
  PROVE  Inv'
  <1>1. /\ fds \in [Numbers -> Names] /\ conn \in [Clients -> Conn] /\ threads \in 0 .. MaxThreads
        /\ UNCHANGED <<gps, sockfd, peer, dst_fd, sensor, depth, alive, negative>>
    BY DEF Inv, TypeOK, Names, ServerTypeOK, gpsvars, dstvars, Accept
  <1>2. GpsTypeOK' /\ DstTypeOK'
    BY <1>1 DEF Inv, TypeOK, GpsTypeOK, DstTypeOK
  <1>3. conn[c].stage = "backlog" /\ ~Served(c)
    BY DEF Accept, Served
  <1>4. PICK n \in Numbers :
          \/ /\ threads < MaxThreads
             /\ Open(n, c)
             /\ conn' = [conn EXCEPT ![c].stage = "served", ![c].fd = n]
             /\ threads' = threads + 1
          \/ /\ threads = MaxThreads
             /\ Open(n, "lost")
             /\ conn' = [conn EXCEPT ![c] = Away]
             /\ UNCHANGED threads
    BY DEF Accept
  <1>5. CASE threads < MaxThreads /\ Open(n, c) /\ threads' = threads + 1
             /\ conn' = [conn EXCEPT ![c].stage = "served", ![c].fd = n]
    <2>1. /\ fds' \in [Numbers -> Names] /\ fds[n] = "free"
          /\ \A m \in Numbers : fds'[m] = IF m = n THEN c ELSE fds[m]
      BY <1>1, <1>5, OpenTable DEF Names
    <2>2. /\ conn'[c].stage = "served" /\ conn'[c].fd = n /\ conn' \in [Clients -> Conn]
          /\ \A d \in Clients : d # c => conn'[d] = conn[d]
      BY <1>1, <1>5 DEF Conn
    <2>3. Served(c)' /\ \A d \in Clients : d # c => Served(d)' = Served(d)
      BY <2>2 DEF Served
    <2>4. threads' \in 0 .. MaxThreads
      BY <1>1, <1>5, ServerAssumption
    <2>5. TypeOK'
      BY <1>1, <1>2, <2>1, <2>2, <2>4 DEF Inv, TypeOK, Names, ServerTypeOK
    <2>6. InTable'
      BY <1>1, <2>2, <2>3 DEF Inv, InTable
    <2>7. DescriptorsOwned'
      BY <1>1, <1>3, <2>1, <2>2, <2>3, NamesApart DEF Inv, DescriptorsOwned
    <2>8. QED
      BY <2>5, <2>6, <2>7 DEF Inv
  <1>6. CASE threads = MaxThreads /\ Open(n, "lost") /\ conn' = [conn EXCEPT ![c] = Away] /\ UNCHANGED threads
    <2>1. /\ fds' \in [Numbers -> Names] /\ fds[n] = "free"
          /\ \A m \in Numbers : fds'[m] = IF m = n THEN "lost" ELSE fds[m]
      BY <1>1, <1>6, OpenTable DEF Names
    <2>2. /\ conn' \in [Clients -> Conn] /\ ~Served(c)'
          /\ \A d \in Clients : d # c => conn'[d] = conn[d] /\ Served(d)' = Served(d)
      BY <1>1, <1>6, ServerAssumption DEF Conn, Away, Served
    <2>3. TypeOK'
      BY <1>1, <1>2, <1>6, <2>1, <2>2 DEF Inv, TypeOK, Names, ServerTypeOK
    <2>4. InTable'
      BY <1>1, <2>2 DEF Inv, InTable
    <2>5. DescriptorsOwned'
      BY <1>1, <1>3, <2>1, <2>2, NamesApart DEF Inv, DescriptorsOwned
    <2>6. QED
      BY <2>3, <2>4, <2>5 DEF Inv
  <1>7. QED
    BY <1>4, <1>5, <1>6

LEMMA WorkerEndsInv ==
  ASSUME Inv, NEW c \in Clients, WorkerEnds(c), UNCHANGED <<gpsvars, dstvars>>
  PROVE  Inv'
  <1> DEFINE n == conn[c].fd
  <1>1. /\ fds \in [Numbers -> Names] /\ conn \in [Clients -> Conn]
        /\ UNCHANGED <<gps, sockfd, peer, dst_fd, sensor, depth, alive, threads, negative>>
    BY DEF Inv, TypeOK, Names, ServerTypeOK, gpsvars, dstvars, WorkerEnds
  <1>2. Served(c) /\ Close(n) /\ conn' = [conn EXCEPT ![c] = Away]
    BY DEF WorkerEnds
  <1>3. n \in Numbers /\ fds[n] = c
    BY <1>2 DEF Inv, InTable, DescriptorsOwned
  <1> HIDE DEF n
  <1>4. /\ fds' \in [Numbers -> Names] /\ fds'[n] \in {"free", "lost"}
        /\ \A m \in Numbers : m # n => fds'[m] = fds[m]
    BY <1>1, <1>2, <1>3, EndTable
  <1>5. /\ conn' \in [Clients -> Conn] /\ ~Served(c)'
        /\ \A d \in Clients : d # c => conn'[d] = conn[d] /\ Served(d)' = Served(d)
    BY <1>1, <1>2, ServerAssumption DEF Conn, Away, Served
  <1>6. TypeOK'
    BY <1>1, <1>4, <1>5 DEF Inv, TypeOK, Names, GpsTypeOK, DstTypeOK, ServerTypeOK
  <1>7. InTable'
    BY <1>1, <1>5 DEF Inv, InTable
  <1>8. DescriptorsOwned'
    BY <1>1, <1>3, <1>4, <1>5, NamesApart DEF Inv, DescriptorsOwned, n
  <1>9. QED
    BY <1>6, <1>7, <1>8 DEF Inv

(* A step that changes the connection of one client, and not its stage     *)
(* into, or out of, being served.                                          *)
LEMMA OneConnection ==
  ASSUME Inv, UNCHANGED <<gpsvars, dstvars, fds, negative>>, alive' \in BOOLEAN,
         threads' \in 0 .. MaxThreads, NEW c \in Clients, NEW r \in Conn, conn' = [conn EXCEPT ![c] = r],
         (r.stage = "served") = (conn[c].stage = "served"), r.fd = conn[c].fd
  PROVE  Inv'
  <1>1. conn \in [Clients -> Conn] /\ negative \subseteq Garbage
    BY DEF Inv, TypeOK, ServerTypeOK
  <1>2. ServerTypeOK'
    BY <1>1 DEF ServerTypeOK
  <1>3. \A d \in Clients : Served(d)' = Served(d) /\ conn'[d].fd = conn[d].fd
    BY <1>1 DEF Served
  <1>4. QED
    BY <1>2, <1>3, SameDescriptors

LEMMA ServerInv ==
  ASSUME Inv, ServerNext, UNCHANGED <<gpsvars, dstvars>>
  PROVE  Inv'
  <1>1. conn \in [Clients -> Conn] /\ threads \in 0 .. MaxThreads /\ alive \in BOOLEAN
    BY DEF Inv, TypeOK, ServerTypeOK
  <1>2. CASE AcceptFails
    <2>1. /\ threads' \in 0 .. MaxThreads
          /\ UNCHANGED <<fds, alive, conn, negative>>
      BY <1>1, <1>2, ServerAssumption DEF AcceptFails
    <2>2. ServerTypeOK' /\ \A c \in Clients : Served(c)' = Served(c)
      BY <1>1, <2>1 DEF Inv, TypeOK, ServerTypeOK, Served
    <2>3. QED
      BY <1>1, <2>1, <2>2, SameDescriptors
  <1>3. ASSUME NEW c \in Clients, Client(c) \/ Turn(c) \/ Works(c)
        PROVE  Inv'
    <2>1. conn[c] \in Conn
      BY <1>1
    <2>2. CASE Connect(c)
      <3> DEFINE r == [conn[c] EXCEPT !.stage = "backlog"]
      <3>1. /\ r \in Conn /\ r.fd = conn[c].fd /\ r.stage # "served" /\ conn[c].stage # "served"
            /\ conn' = [conn EXCEPT ![c] = r] /\ UNCHANGED <<fds, alive, threads, negative>>
        BY <2>1, <2>2 DEF Connect, Conn
      <3> HIDE DEF r
      <3>2. QED
        BY <1>1, <3>1, OneConnection
    <2>3. CASE Send(c)
      <3> DEFINE r == [conn[c] EXCEPT !.pending = @ + 1]
      <3>1. conn[c].pending + 1 \in 0 .. MaxPending
        BY <2>1, <2>3, ServerAssumption DEF Send, Conn
      <3>2. /\ r \in Conn /\ r.fd = conn[c].fd /\ r.stage = conn[c].stage
            /\ conn' = [conn EXCEPT ![c] = r] /\ UNCHANGED <<fds, alive, threads, negative>>
        BY <2>1, <2>3, <3>1 DEF Send, Conn
      <3> HIDE DEF r
      <3>3. QED
        BY <1>1, <3>2, OneConnection
    <2>4. CASE Leave(c)
      <3> DEFINE r == [conn[c] EXCEPT !.peer = "closed"]
      <3>1. /\ r \in Conn /\ r.fd = conn[c].fd /\ r.stage = conn[c].stage
            /\ conn' = [conn EXCEPT ![c] = r] /\ UNCHANGED <<fds, alive, threads, negative>>
        BY <2>1, <2>4 DEF Leave, Conn
      <3> HIDE DEF r
      <3>2. QED
        BY <1>1, <3>1, OneConnection
    <2>5. CASE Accept(c)
      BY <2>5, AcceptInv
    <2>6. CASE TurnAway(c)
      <3>1. /\ Away \in Conn /\ Away.stage # "served" /\ conn[c].stage # "served"
            /\ conn' = [conn EXCEPT ![c] = Away] /\ UNCHANGED <<fds, alive, negative>>
        BY <2>6, ServerAssumption DEF TurnAway, Away, Conn
      <3>2. threads' \in 0 .. MaxThreads
        BY <1>1, <2>6, ServerAssumption DEF TurnAway
      <3>3. \A d \in Clients : Served(d)' = Served(d)
        BY <1>1, <3>1 DEF Served
      <3>4. ServerTypeOK'
        BY <1>1, <3>1, <3>2 DEF Inv, TypeOK, ServerTypeOK
      <3>5. ~Served(c) /\ \A d \in Clients : d # c => conn'[d] = conn[d]
        BY <1>1, <3>1 DEF Served
      <3>6. QED
        BY <1>1, <3>1, <3>3, <3>4, <3>5, SameDescriptors
    <2>7. CASE Read(c)
      <3>1. PICK k \in 1 .. conn[c].pending :
              conn' = [conn EXCEPT ![c].pending = @ - k, ![c].peer = AfterAnswer(c)]
        BY <2>7 DEF Read
      <3> DEFINE r == [conn[c] EXCEPT !.pending = @ - k, !.peer = AfterAnswer(c)]
      <3>2. conn[c].pending - k \in 0 .. MaxPending
        BY <2>1, ServerAssumption DEF Conn
      <3>3. AfterAnswer(c) \in {"open", "closed", "gone"}
        BY <2>1 DEF AfterAnswer, Conn
      <3>4. r \in Conn /\ r.fd = conn[c].fd /\ r.stage = conn[c].stage
        BY <2>1, <3>2, <3>3 DEF Conn
      <3>5. conn' = [conn EXCEPT ![c] = r]
        BY <3>1
      <3>6. alive' \in BOOLEAN /\ UNCHANGED <<fds, threads, negative>>
        BY <2>7 DEF Read
      <3> HIDE DEF r
      <3>7. QED
        BY <1>1, <3>4, <3>5, <3>6, OneConnection
    <2>8. CASE WorkerEnds(c)
      BY <2>8, WorkerEndsInv
    <2>9. QED
      BY <1>3, <2>2, <2>3, <2>4, <2>5, <2>6, <2>7, <2>8 DEF Client, Turn, Works
  <1>4. QED
    BY <1>2, <1>3 DEF ServerNext

LEMMA NextInv == Inv /\ [Next]_vars => Inv'
  <1> SUFFICES ASSUME Inv, [Next]_vars PROVE Inv'
    OBVIOUS
  <1>1. CASE Next
    BY <1>1, GpsInv, DstInv, ServerInv DEF Next
  <1>2. CASE UNCHANGED vars
    <2>1. UNCHANGED <<gpsvars, dstvars, fds, alive, conn, threads, negative>>
      BY <1>2 DEF vars, servervars
    <2>2. ServerTypeOK' /\ alive' \in BOOLEAN /\ \A c \in Clients : Served(c)' = Served(c)
      BY <2>1 DEF Inv, TypeOK, ServerTypeOK, Served
    <2>3. QED
      BY <2>1, <2>2, SameDescriptors
  <1>3. QED
    BY <1>1, <1>2

-----------------------------------------------------------------------------
(* The threads' variables and the descriptor table always have the form    *)
(* TypeOK gives them: no worker takes more commands than have arrived.     *)
THEOREM NetworkTypeOK == Spec => []TypeOK
  <1>1. Inv => TypeOK
    BY DEF Inv
  <1>2. QED
    BY InitInv, NextInv, <1>1, PTL DEF Spec

(* No thread ever uses or closes the descriptor of another, and what is    *)
(* open and nobody's was lost in one of the two places named.              *)
THEOREM DescriptorsAlwaysOwned == Spec => []DescriptorsOwned
  <1>1. Inv => DescriptorsOwned
    BY DEF Inv
  <1>2. QED
    BY InitInv, NextInv, <1>1, PTL DEF Spec

-----------------------------------------------------------------------------
(* Those who may have a descriptor. *)
Holders == {"gps", "dst"} \cup Clients

LEMMA HoldersCounted ==
  ASSUME IsFiniteSet(Clients)
  PROVE  IsFiniteSet(Holders) /\ Cardinality(Holders) = Cardinality(Clients) + 2
  <1>1. "gps" \notin Clients /\ "dst" \notin Clients
    BY NamesApart
  <1>2. /\ IsFiniteSet(Clients \cup {"gps"})
        /\ Cardinality(Clients \cup {"gps"}) = Cardinality(Clients) + 1
    BY <1>1, FS_AddElement
  <1>3. "dst" \notin Clients \cup {"gps"}
    BY <1>1
  <1>4. /\ IsFiniteSet((Clients \cup {"gps"}) \cup {"dst"})
        /\ Cardinality((Clients \cup {"gps"}) \cup {"dst"}) = Cardinality(Clients) + 1 + 1
    BY <1>2, <1>3, FS_AddElement
  <1>5. Holders = (Clients \cup {"gps"}) \cup {"dst"}
    BY DEF Holders
  <1>6. Cardinality(Clients) \in Nat
    BY FS_CardinalityType
  <1>7. QED
    BY <1>4, <1>5, <1>6

LEMMA NumbersCounted ==
  IsFiniteSet(Numbers) /\ Cardinality(Numbers) = Limit
  BY LimitAssumption, FS_Interval DEF Numbers

(* A full table with somebody still waiting is one that has lost too much: *)
(* the others have one descriptor each, at most.                           *)
LEMMA FullIsShort ==
  ASSUME IsFiniteSet(Clients), Inv, Full, NEW w \in Holders, \A n \in Numbers : fds[n] # w
  PROVE  Short
  <1> DEFINE U == Numbers \ Lost
             f == [n \in U |-> fds[n]]
  <1>1. \A n \in U : n \in Numbers /\ fds[n] \in Holders \ {w}
    BY DEF Full, Lost, Holders, Inv, TypeOK
  <1>2. ASSUME NEW m \in U, NEW n \in U, fds[m] = fds[n] PROVE m = n
    BY <1>1, <1>2 DEF Holders, Inv, DescriptorsOwned
  <1>3. f \in Injection(U, Holders \ {w})
    <2>1. f \in [U -> Holders \ {w}]
      BY <1>1
    <2>2. \A m, n \in U : f[m] = f[n] => m = n
      BY <1>2
    <2> HIDE DEF f, U
    <2>3. QED
      BY <2>1, <2>2 DEF Injection, IsInjective
  <1>4. /\ IsFiniteSet(Holders \ {w})
        /\ Cardinality(Holders \ {w}) = Cardinality(Clients) + 1
    <2>1. Cardinality(Clients) \in Nat
      BY FS_CardinalityType
    <2>2. QED
      BY <2>1, HoldersCounted, FS_RemoveElement
  <1>5. Cardinality(U) <= Cardinality(Clients) + 1
    <2> HIDE DEF f, U
    <2>1. QED
      BY <1>3, <1>4, FS_Injection
  <1>6. /\ Lost \in SUBSET Numbers /\ IsFiniteSet(Lost)
        /\ Cardinality(U) = Limit - Cardinality(Lost)
    <2>1. Lost \in SUBSET Numbers /\ Numbers \cap Lost = Lost
      BY DEF Lost
    <2>2. IsFiniteSet(Lost)
      BY <2>1, NumbersCounted, FS_Subset
    <2>3. Cardinality(Numbers \ Lost) = Cardinality(Numbers) - Cardinality(Numbers \cap Lost)
      BY NumbersCounted, FS_Difference
    <2>4. QED
      BY <2>1, <2>2, <2>3, NumbersCounted
  <1>7. Cardinality(Lost) \in Nat /\ Cardinality(Clients) \in Nat /\ Limit \in Nat
    BY <1>6, FS_CardinalityType, LimitAssumption
  <1>8. QED
    BY <1>5, <1>6, <1>7 DEF Short

(* There is a descriptor for whoever has none, the link to the GPS host,   *)
(* that to the sensor, or a client: unless so many have been lost.  Who is *)
(* served or linked never keeps another out.                               *)
THEOREM RoomUnlessShort ==
  ASSUME IsFiniteSet(Clients)
  PROVE  Spec => [](~Short /\ (gps = "socket" \/ dst_fd = NoFd \/ \E c \in Clients : ~Served(c))
                      => ~Full)
  <1>1. Inv => (~Short /\ (gps = "socket" \/ dst_fd = NoFd \/ \E c \in Clients : ~Served(c))
                  => ~Full)
    <2> SUFFICES ASSUME Inv, Full, gps = "socket" \/ dst_fd = NoFd \/ \E c \in Clients : ~Served(c)
                 PROVE  Short
      OBVIOUS
    <2>1. CASE gps = "socket"
      BY <2>1, FullIsShort DEF Holders, Inv, DescriptorsOwned
    <2>2. CASE dst_fd = NoFd
      BY <2>2, FullIsShort, NoFdIsNoNumber DEF Holders, Inv, DescriptorsOwned
    <2>3. CASE \E c \in Clients : ~Served(c)
      BY <2>3, FullIsShort DEF Holders, Inv, DescriptorsOwned
    <2>4. QED
      BY <2>1, <2>2, <2>3
  <1>2. QED
    BY InitInv, NextInv, <1>1, PTL DEF Spec

LEMMA LostStays ==
  ASSUME Inv, [Next]_vars
  PROVE  Lost \subseteq Lost'
  <1>1. fds \in [Numbers -> Names]
    BY DEF Inv, TypeOK, Names
  <1>2. ASSUME NEW m \in Numbers, NEW what, Open(m, what) PROVE Lost \subseteq Lost'
    BY <1>1, <1>2 DEF Open, LowestFree, Lost
  <1>3. ASSUME NEW m \in Numbers, fds[m] # "lost", Close(m) \/ Forget(m) PROVE Lost \subseteq Lost'
    BY <1>1, <1>3 DEF Close, Forget, Lost
  <1>4. ASSUME UNCHANGED fds PROVE Lost \subseteq Lost'
    BY <1>4 DEF Lost
  <1>5. gps # "socket" => sockfd \in Numbers /\ fds[sockfd] # "lost"
    BY DEF Inv, InTable, DescriptorsOwned
  <1>6. \A c \in Clients : Served(c) => conn[c].fd \in Numbers /\ fds[conn[c].fd] # "lost"
    BY NamesApart DEF Inv, InTable, DescriptorsOwned
  <1>7. CASE GpsNext
    BY <1>2, <1>3, <1>4, <1>5, <1>7
       DEF GpsNext, GpsRuns, GpsSocket, GpsConnect, GpsTurn, HostResets, HostCloses
  <1>8. CASE DstNext
    BY <1>2, <1>4, <1>8
       DEF DstNext, DstRuns, connect_to_dst, DstLine, WaterChanges, SensorPulled, SensorPlugged
  <1>9. CASE ServerNext
    <2>1. CASE AcceptFails
      BY <1>4, <2>1 DEF AcceptFails
    <2>2. ASSUME NEW c \in Clients, Client(c) \/ Turn(c) \/ Works(c)
          PROVE  Lost \subseteq Lost'
      <3>1. CASE Client(c) \/ TurnAway(c) \/ Read(c)
        BY <1>4, <3>1 DEF Client, Connect, Send, Leave, TurnAway, Read
      <3>2. CASE Accept(c)
        BY <1>2, <3>2 DEF Accept
      <3>3. CASE WorkerEnds(c)
        BY <1>3, <1>6, <3>3 DEF WorkerEnds
      <3>4. QED
        BY <2>2, <3>1, <3>2, <3>3 DEF Turn, Works
    <2>3. QED
      BY <1>9, <2>1, <2>2 DEF ServerNext
  <1>10. QED
    BY <1>4, <1>7, <1>8, <1>9 DEF Next, vars

(* A descriptor that is lost is never closed, and never used again; so     *)
(* that a program that is short of descriptors stays so.                   *)
THEOREM LostForGood ==
  ASSUME IsFiniteSet(Clients)
  PROVE  Spec => [][Lost \subseteq Lost' /\ (Short => Short')]_vars
  <1>1. Inv /\ [Next]_vars => Lost \subseteq Lost' /\ (Short => Short')
    <2> SUFFICES ASSUME Inv, [Next]_vars PROVE Lost \subseteq Lost' /\ (Short => Short')
      OBVIOUS
    <2>1. Lost \subseteq Lost'
      BY LostStays
    <2>2. PICK later : later = Lost'
      OBVIOUS
    <2>3. later \in SUBSET Numbers
      BY <2>2 DEF Lost
    <2>4. /\ IsFiniteSet(later) /\ Cardinality(later) \in Nat /\ Cardinality(Lost) \in Nat
          /\ Cardinality(Lost) <= Cardinality(later)
      <3>1. IsFiniteSet(later)
        BY <2>3, NumbersCounted, FS_Subset
      <3>2. Lost \in SUBSET later
        BY <2>1, <2>2
      <3>3. QED
        BY <3>1, <3>2, FS_Subset, FS_CardinalityType
    <2>5. Cardinality(Clients) \in Nat /\ Limit \in Nat
      BY FS_CardinalityType, LimitAssumption
    <2>6. Short => Cardinality(later) + Cardinality(Clients) + 2 > Limit
      BY <2>4, <2>5 DEF Short
    <2>7. QED
      BY <2>1, <2>2, <2>6 DEF Short
  <1>2. QED
    BY InitInv, NextInv, <1>1, PTL DEF Spec
=============================================================================
