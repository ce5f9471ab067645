------------------------- MODULE ServerSessionProofs -------------------------
(***************************************************************************)
(* Proofs about the server's clients, for every set of endpoints and codes, *)
(* every number of ids, every lobby limit and every timeout.                *)
(*                                                                         *)
(* What Register and Unregister do to the table comes first: everything     *)
(* else rests on it.  Of ServerSession the typing theorem comes next, then  *)
(* the invariants that are inductive next to it, then the bound on the      *)
(* players of a lobby, which needs the strengthening SizeInv.  Last are the *)
(* sweeps of ClientTimeouts, over the same table with a clock.              *)
(***************************************************************************)
EXTENDS ServerSession, ClientTimeouts, FiniteSetTheorems, TLAPS

-----------------------------------------------------------------------------
(* The table.                                                               *)

\* Removing one entry of a sequence: the result is one shorter and keeps every
\* other entry.
LEMMA RemoveAtProperties ==
  ASSUME NEW S, NEW s \in Seq(S), NEW i \in DOMAIN s
  PROVE  /\ RemoveAt(s, i) \in Seq(S)
         /\ Len(RemoveAt(s, i)) = Len(s) - 1
         /\ \A j \in 1..(Len(s) - 1) :
              RemoveAt(s, i)[j] = s[IF j < i THEN j ELSE j + 1]
<1> DEFINE before == SubSeq(s, 1, i - 1)
           after == SubSeq(s, i + 1, Len(s))
<1>1. i \in 1..Len(s) /\ Len(s) \in Nat
  OBVIOUS
<1>2. /\ before \in Seq(S) /\ Len(before) = i - 1
      /\ \A j \in 1..(i - 1) : before[j] = s[j]
  BY <1>1
<1>3. /\ after \in Seq(S) /\ Len(after) = Len(s) - i
      /\ \A j \in 1..(Len(s) - i) : after[j] = s[i + j]
  BY <1>1
<1>4. RemoveAt(s, i) = before \o after
  BY DEF RemoveAt
<1> HIDE DEF before, after
<1>5. /\ before \o after \in Seq(S)
      /\ Len(before \o after) = Len(s) - 1
  BY <1>1, <1>2, <1>3
<1>6. ASSUME NEW j \in 1..(Len(s) - 1)
      PROVE  (before \o after)[j] = s[IF j < i THEN j ELSE j + 1]
  <2>1. CASE j < i
    BY <1>1, <1>2, <1>3, <2>1
  <2>2. CASE ~(j < i)
    <3>1. (before \o after)[j] = after[j - (i - 1)]
      <4>1. /\ before \in Seq(S) /\ after \in Seq(S)
            /\ j > Len(before) /\ j \in Nat /\ Len(before) \in Nat /\ Len(after) \in Nat
            /\ j <= Len(before) + Len(after)
        BY <1>1, <1>2, <1>3, <2>2
      <4>2. (before \o after)[j] = after[j - Len(before)]
        BY <4>1
      <4> QED BY <1>2, <4>2
    <3>2. j - (i - 1) \in 1..(Len(s) - i) /\ i + (j - (i - 1)) = j + 1
      BY <1>1, <2>2
    <3> QED BY <1>3, <2>2, <3>1, <3>2
  <2> QED BY <2>1, <2>2
<1> QED BY <1>4, <1>5, <1>6

\* Unregister takes exactly one client off the table.
LEMMA UnregisterKeepsOthers ==
  ASSUME TableTypeOK, NEW i \in DOMAIN clients, Unregister(i)
  PROVE  /\ TableTypeOK'
         /\ Len(clients') = Len(clients) - 1
         /\ \A id \in TableIds : id # clients[i].id => id \in TableIds'
<1>1. /\ clients' \in Seq(Client)
      /\ Len(clients') = Len(clients) - 1
      /\ \A j \in 1..(Len(clients) - 1) :
           clients'[j] = clients[IF j < i THEN j ELSE j + 1]
  BY RemoveAtProperties DEF Unregister, TableTypeOK
<1>2. nextClientId' \in Ids /\ issued' \in SUBSET Ids
  BY ClientTableConstants DEF Unregister, TableTypeOK, Ids
<1>3. ASSUME NEW j \in DOMAIN clients, clients[j].id # clients[i].id
      PROVE  clients[j].id \in TableIds'
  <2>1. j # i /\ j \in 1..Len(clients) /\ i \in 1..Len(clients)
    BY <1>3 DEF TableTypeOK
  <2>2. CASE j < i
    BY <1>1, <2>1, <2>2 DEF TableIds
  <2>3. CASE j > i
    <3>1. j - 1 \in 1..(Len(clients) - 1) /\ ~(j - 1 < i) /\ (j - 1) + 1 = j
      BY <2>1, <2>3
    <3>2. clients'[j - 1] = clients[j]
      BY <1>1, <3>1
    <3> QED BY <1>1, <3>1, <3>2 DEF TableIds
  <2> QED BY <2>1, <2>2, <2>3
<1> QED BY <1>1, <1>2, <1>3 DEF TableTypeOK, TableIds

\* Register puts one more client on the table.
LEMMA RegisterKeepsOthers ==
  ASSUME TableTypeOK, NEW e \in Endpoints, Register(e)
  PROVE  /\ TableTypeOK'
         /\ Len(clients') = Len(clients) + 1
         /\ TableIds \subseteq TableIds'
<1>1. [id |-> nextClientId, ep |-> e] \in Client
  BY DEF TableTypeOK, Client
<1>2. /\ clients' \in Seq(Client)
      /\ Len(clients') = Len(clients) + 1
      /\ \A j \in DOMAIN clients : j \in DOMAIN clients' /\ clients'[j] = clients[j]
  BY <1>1 DEF Register, TableTypeOK
<1>3. nextClientId' \in Ids /\ issued' \in SUBSET Ids
  BY ClientTableConstants DEF Register, TableTypeOK, Ids
<1> QED BY <1>2, <1>3 DEF TableTypeOK, TableIds
-----------------------------------------------------------------------------
(* Counting modulo the number of ids.                                       *)

\* Quotient and remainder of a division are unique.
LEMMA QuotientUnique ==
  ASSUME NEW M \in Nat \ {0}, NEW q \in Int, NEW p \in Int,
         NEW r \in 0..(M - 1), NEW s \in 0..(M - 1), (M * q) + r = (M * p) + s
  PROVE  q = p /\ r = s
<1>1. CASE q > p
  <2>1. M * (q - p) >= M
    BY <1>1
  <2> QED BY <2>1
<1>2. CASE q < p
  <2>1. M * (p - q) >= M
    BY <1>2
  <2> QED BY <2>1
<1> QED BY <1>1, <1>2

\* A number is its quotient times the divisor plus its remainder.
LEMMA Division ==
  ASSUME NEW M \in Nat \ {0}, NEW a \in Int
  PROVE  \E q \in Int, r \in 0..(M - 1) : a = (M * q) + r /\ a % M = r
<1>1. /\ a % M \in 0..(M - 1) /\ a \div M \in Int
      /\ a = (M * (a \div M)) + (a % M)
  OBVIOUS
<1> QED BY <1>1

\* A number that is r beyond a multiple of m leaves the remainder r.
LEMMA Remainder ==
  ASSUME NEW M \in Nat \ {0}, NEW q \in Int, NEW r \in 0..(M - 1)
  PROVE  ((M * q) + r) % M = r
<1> DEFINE a == (M * q) + r
<1>1. a \in Int /\ a = (M * q) + r
  OBVIOUS
<1> HIDE DEF a
<1>2. PICK p \in Int, s \in 0..(M - 1) : a = (M * p) + s /\ a % M = s
  BY <1>1, Division
<1>3. (M * q) + r = (M * p) + s
  BY <1>1, <1>2
<1>4. r = s
  BY <1>3, QuotientUnique
<1>5. a % M = r
  BY <1>2, <1>4
<1> QED BY <1>5 DEF a

\* Counting up, and counting down, commutes with taking the remainder.
LEMMA CountUp ==
  ASSUME NEW M \in Nat \ {0}, NEW a \in Int
  PROVE  ((a % M) + 1) % M = (a + 1) % M
<1>1. PICK q \in Int, r \in 0..(M - 1) : a = (M * q) + r /\ a % M = r
  BY Division
<1>2. CASE r + 1 < M
  <2>1. ((M * q) + (r + 1)) % M = r + 1 /\ ((M * 0) + (r + 1)) % M = r + 1
    BY Remainder, <1>2
  <2>2. a + 1 = (M * q) + (r + 1) /\ (M * 0) + (r + 1) = r + 1
    BY <1>1
  <2> QED BY <1>1, <2>1, <2>2
<1>3. CASE r + 1 = M
  <2>1. ((M * (q + 1)) + 0) % M = 0 /\ ((M * 1) + 0) % M = 0
    BY Remainder
  <2>2. a + 1 = (M * (q + 1)) + 0 /\ (M * 1) + 0 = r + 1
    BY <1>1, <1>3
  <2> QED BY <1>1, <2>1, <2>2
<1> QED BY <1>2, <1>3

\* Counting down by one and taking the remainder, as a uint8_t does it.
LEMMA CountDown ==
  ASSUME NEW M \in Nat \ {0}, NEW a \in Int
  PROVE  ((a % M) + M - 1) % M = (a - 1) % M
<1>1. PICK q \in Int, r \in 0..(M - 1) : a = (M * q) + r /\ a % M = r
  BY Division
<1>2. CASE r > 0
  <2>1. ((M * q) + (r - 1)) % M = r - 1 /\ ((M * 1) + (r - 1)) % M = r - 1
    BY Remainder, <1>2
  <2>2. a - 1 = (M * q) + (r - 1) /\ (M * 1) + (r - 1) = r + M - 1
    BY <1>1
  <2> QED BY <1>1, <2>1, <2>2
<1>3. CASE r = 0
  <2>1. ((M * (q - 1)) + (M - 1)) % M = M - 1 /\ ((M * 0) + (M - 1)) % M = M - 1
    BY Remainder
  <2>2. a - 1 = (M * (q - 1)) + (M - 1) /\ (M * 0) + (M - 1) = r + M - 1
    BY <1>1, <1>3
  <2> QED BY <1>1, <2>1, <2>2
<1> QED BY <1>2, <1>3

\* Register and Unregister keep the next id a count of the open connections.
LEMMA RegisterCounts ==
  ASSUME TableTypeOK, NextIdCountsClients, NEW e \in Endpoints, Register(e)
  PROVE  NextIdCountsClients'
<1>1. Len(clients') = Len(clients) + 1 /\ Len(clients) \in Nat
  BY RegisterKeepsOthers DEF TableTypeOK
<1>2. nextClientId' = (((1 + Len(clients)) % IdMod) + 1) % IdMod
  BY DEF Register, NextIdCountsClients
<1> DEFINE n == 1 + Len(clients)
<1>3. n \in Int
  BY <1>1
<1> HIDE DEF n
<1>4. ((n % IdMod) + 1) % IdMod = (n + 1) % IdMod
  BY <1>3, CountUp, ClientTableConstants
<1>5. n + 1 = 1 + Len(clients')
  BY <1>1 DEF n
<1> QED BY <1>2, <1>4, <1>5 DEF NextIdCountsClients, n

\* Unregister takes the next id back by one as the table loses one client.
LEMMA UnregisterCounts ==
  ASSUME TableTypeOK, NextIdCountsClients, NEW i \in DOMAIN clients, Unregister(i)
  PROVE  NextIdCountsClients'
<1>1. Len(clients') = Len(clients) - 1 /\ Len(clients) \in Nat
  BY UnregisterKeepsOthers DEF TableTypeOK
<1>2. nextClientId' = (((1 + Len(clients)) % IdMod) + IdMod - 1) % IdMod
  BY DEF Unregister, NextIdCountsClients
<1> DEFINE n == 1 + Len(clients)
<1>3. n \in Int
  BY <1>1
<1> HIDE DEF n
<1>4. ((n % IdMod) + IdMod - 1) % IdMod = (n - 1) % IdMod
  BY <1>3, CountDown, ClientTableConstants
<1>5. n - 1 = 1 + Len(clients')
  BY <1>1 DEF n
<1> QED BY <1>2, <1>4, <1>5 DEF NextIdCountsClients, n

\* No disconnection brings an id into the table, and the id of an entry is an id.
LEMMA UnregisterBringsNone ==
  ASSUME TableTypeOK, NEW i \in DOMAIN clients, Unregister(i)
  PROVE  TableIds' \subseteq TableIds
<1>1. /\ clients \in Seq(Client) /\ clients' \in Seq(Client)
      /\ Len(clients') = Len(clients) - 1
      /\ \A j \in 1..(Len(clients) - 1) :
           clients'[j] = clients[IF j < i THEN j ELSE j + 1]
  BY RemoveAtProperties DEF Unregister, TableTypeOK
<1>2. ASSUME NEW j \in DOMAIN clients'
      PROVE  clients'[j].id \in TableIds
  <2>1. j \in 1..(Len(clients) - 1) /\ Len(clients) \in Nat /\ i \in 1..Len(clients)
    BY <1>1, <1>2
  <2>2. PICK k \in DOMAIN clients : clients'[j] = clients[k]
    <3>1. CASE j < i
      BY <1>1, <2>1, <3>1
    <3>2. CASE ~(j < i)
      BY <1>1, <2>1, <3>2
    <3> QED BY <3>1, <3>2
  <2> QED BY <2>2 DEF TableIds
<1> QED BY <1>2 DEF TableIds


-----------------------------------------------------------------------------
(* Typing.                                                                  *)

\* Lobby::processDisconnections leaves a lobby its own members and none new.
LEMMA DropMemberType ==
  ASSUME TypeOK, NEW c \in Codes, NEW id, DropMember(c, id)
  PROVE  /\ members' \in [Codes -> SUBSET Client]
         /\ \A d \in Codes : members'[d] \subseteq members[d]
  BY DEF TypeOK, DropMember

\* Server::processDisconnections keeps every variable it touches in its type.
LEMMA ProcessDisconnectionsType ==
  ASSUME TypeOK, NEW id \in Ids, ProcessDisconnections(id)
  PROVE  /\ TableTypeOK'
         /\ beating' \in SUBSET Ids
         /\ members' \in [Codes -> SUBSET Client]
         /\ clientToLobby' \in [Ids -> Codes \cup {NoLobby}]
         /\ UNCHANGED <<listed, roster, lobbies, running, threads, creator>>
<1>1. TableTypeOK'
  BY UnregisterKeepsOthers DEF TypeOK, ProcessDisconnections
<1>2. members' \in [Codes -> SUBSET Client]
  BY DropMemberType DEF TypeOK, ProcessDisconnections
<1> QED BY <1>1, <1>2 DEF TypeOK, ProcessDisconnections, Unroute, directory

\* A scan of the table for an endpoint ends at a client.
LEMMA TableEntryType ==
  ASSUME TypeOK, NEW i \in DOMAIN clients
  PROVE  clients[i] \in Client /\ clients[i].id \in Ids
<1>1. clients[i] \in Client
  BY DEF TypeOK, TableTypeOK
<1> QED BY <1>1 DEF Client

\* Every step of the session layer keeps the types.
LEMMA TypeStep == TypeOK /\ [Next]_vars => TypeOK'
<1> SUFFICES ASSUME TypeOK, [Next]_vars
             PROVE  TypeOK'
  OBVIOUS
<1> USE DEF Receive, directory, lobbyState
<1>1. CASE NoPacket
  BY <1>1 DEF NoPacket, TypeOK, TableTypeOK, table
<1>2. ASSUME NEW e \in Endpoints, ProcessConnections(e)
      PROVE  TypeOK'
  BY <1>2, RegisterKeepsOthers DEF ProcessConnections, TypeOK
<1>3. ASSUME NEW id \in issued, Disconnection(id)
      PROVE  TypeOK'
  <2>1. id \in Ids
    BY <1>3 DEF TypeOK, TableTypeOK
  <2> QED BY <1>3, <2>1, ProcessDisconnectionsType DEF Disconnection, TypeOK
<1>4. ASSUME NEW id \in issued, HealthCheck(id)
      PROVE  TypeOK'
  BY <1>4 DEF HealthCheck, TypeOK, TableTypeOK, table
<1>5. ASSUME NEW e \in Endpoints, NEW c \in Codes, RequestCode(e, c)
      PROVE  TypeOK'
  <2>1. TableTypeOK' /\ beating' \in SUBSET Ids /\ listed' \in SUBSET Codes
        /\ roster' \in [Codes -> SUBSET Client]
    BY <1>5 DEF RequestCode, TypeOK, TableTypeOK, table
  <2>2. ASSUME NEW i \in DOMAIN clients,
               lobbies' = lobbies \cup {c},
               members' = [members EXCEPT ![c] = {clients[i]}],
               running' = [running EXCEPT ![c] = TRUE],
               threads' = [threads EXCEPT ![c] = FALSE],
               creator' = [creator EXCEPT ![c] = clients[i].id],
               clientToLobby' = [clientToLobby EXCEPT ![clients[i].id] = c]
        PROVE  TypeOK'
    <3>1. clients[i] \in Client /\ clients[i].id \in Ids
      BY TableEntryType
    <3> QED BY <1>5, <2>1, <2>2, <3>1 DEF RequestCode, TypeOK
  <2>3. CASE UNCHANGED <<lobbies, lobbyState, clientToLobby>>
    BY <1>5, <2>1, <2>3 DEF RequestCode, TypeOK
  <2> QED BY <1>5, <2>2, <2>3 DEF RequestCode
<1>6. ASSUME NEW e \in Endpoints, NEW c \in Codes, ConnectToLobby(e, c)
      PROVE  TypeOK'
  <2>1. PICK i \in DOMAIN clients :
          /\ roster' = [roster EXCEPT ![c] = Enrol(@, clients[i])]
          /\ \/ /\ members' = [members EXCEPT ![c] = Enrol(@, clients[i])]
                /\ clientToLobby' = [clientToLobby EXCEPT ![clients[i].id] = c]
             \/ UNCHANGED <<members, clientToLobby>>
    BY <1>6 DEF ConnectToLobby
  <2>2. clients[i] \in Client /\ clients[i].id \in Ids
    BY TableEntryType
  <2>3. roster' \in [Codes -> SUBSET Client] /\ members' \in [Codes -> SUBSET Client]
        /\ clientToLobby' \in [Ids -> Codes \cup {NoLobby}]
    BY <2>1, <2>2 DEF TypeOK, Enrol
  <2> QED BY <1>6, <2>3 DEF ConnectToLobby, TypeOK, TableTypeOK, table
<1>7. ASSUME NEW e \in Endpoints, ConnectLeave(e)
      PROVE  TypeOK'
  <2>1. members' \in [Codes -> SUBSET Client]
    BY <1>7, DropMemberType DEF ConnectLeave
  <2>2. clientToLobby' \in [Ids -> Codes \cup {NoLobby}]
    BY <1>7 DEF ConnectLeave, Unroute, TypeOK
  <2> QED BY <1>7, <2>1, <2>2 DEF ConnectLeave, TypeOK, TableTypeOK, table
<1>8. ASSUME NEW id \in issued, LeaveLobby(id)
      PROVE  TypeOK'
  <2>1. members' \in [Codes -> SUBSET Client]
    BY <1>8, DropMemberType DEF LeaveLobby, TypeOK
  <2>2. clientToLobby' \in [Ids -> Codes \cup {NoLobby}]
    BY <1>8 DEF LeaveLobby, Unroute, TypeOK
  <2>3. roster' \in [Codes -> SUBSET Client]
    BY <1>8 DEF LeaveLobby, TypeOK
  <2>4. running' \in [Codes -> BOOLEAN] /\ threads' \in [Codes -> BOOLEAN]
    <3>1. CASE UNCHANGED <<running, threads>>
      BY <3>1 DEF TypeOK
    <3>2. ASSUME NEW c \in Codes, running' = [running EXCEPT ![c] = FALSE],
                 threads' = [threads EXCEPT ![c] = FALSE]
          PROVE  running' \in [Codes -> BOOLEAN] /\ threads' \in [Codes -> BOOLEAN]
      BY <3>2 DEF TypeOK
    <3> QED BY <1>8, <3>1, <3>2 DEF LeaveLobby
  <2> QED BY <1>8, <2>1, <2>2, <2>3, <2>4
          DEF LeaveLobby, TypeOK, TableTypeOK, table
<1>9. ASSUME NEW c \in Codes, MasterStart(c)
      PROVE  TypeOK'
  BY <1>9 DEF MasterStart, TypeOK, TableTypeOK, table
<1>10. CASE CheckClientTimeouts
  <2>1. timedOut' \in SUBSET Ids
    BY <1>10 DEF CheckClientTimeouts, TypeOK
  <2> QED BY <1>10, <2>1 DEF CheckClientTimeouts, TypeOK, TableTypeOK, table
<1>11. ASSUME NEW id \in timedOut, ExpireClient(id)
       PROVE  TypeOK'
  <2>1. id \in Ids
    BY <1>11 DEF TypeOK
  <2>2. timedOut' \in SUBSET Ids /\ phase' \in {"cleanup", "expire"}
    BY <1>11 DEF ExpireClient, TypeOK
  <2> QED BY <1>11, <2>1, <2>2, ProcessDisconnectionsType DEF ExpireClient, TypeOK
<1>12. CASE CleanupClosedLobbies
  <2>1. creator' \in [Codes -> Ids]
    <3>1. 0 \in Ids
      BY ClientTableConstants DEF Ids
    <3> QED BY <1>12, <3>1 DEF CleanupClosedLobbies, TypeOK
  <2>2. threads' \in [Codes -> BOOLEAN]
    BY <1>12 DEF CleanupClosedLobbies, TypeOK
  <2>3. roster' \in [Codes -> SUBSET Client] /\ listed' \in SUBSET Codes
    BY <1>12 DEF CleanupClosedLobbies, Delist, TypeOK
  <2> QED BY <1>12, <2>1, <2>2, <2>3
          DEF CleanupClosedLobbies, TypeOK, TableTypeOK, table
<1>13. ASSUME NEW c \in Codes, NetworkThread(c)
       PROVE  TypeOK'
  <2>1. CASE NetworkLoopStops(c)
    BY <2>1 DEF NetworkLoopStops, TypeOK, TableTypeOK, table
  <2>2. ASSUME NEW m \in members[c], SendFails(c, m)
        PROVE  TypeOK'
    <3>1. members' \in [Codes -> SUBSET Client]
      BY <2>2 DEF SendFails, TypeOK
    <3> QED BY <2>2, <3>1 DEF SendFails, TypeOK, TableTypeOK, table
  <2> QED BY <1>13, <2>1, <2>2 DEF NetworkThread, SendFails
<1>14. CASE UNCHANGED vars
  BY <1>14 DEF vars, TypeOK, TableTypeOK, table
<1> QED BY <1>1, <1>2, <1>3, <1>4, <1>5, <1>6, <1>7, <1>8, <1>9, <1>10, <1>11,
           <1>12, <1>13, <1>14 DEF Next, MainThread

\* The server starts with every variable in its type.
LEMMA TypeInit == Init => TypeOK
<1>1. 0 \in Ids /\ 1 % IdMod \in Ids
  BY ClientTableConstants DEF Ids
<1> QED BY <1>1 DEF Init, TableInit, TypeOK, TableTypeOK

\* Every variable of the session layer keeps its type.
THEOREM TypeCorrect == Spec => []TypeOK
  BY TypeInit, TypeStep, PTL DEF Spec

-----------------------------------------------------------------------------
(* The id counter, the routes and the ids of the members.                   *)

\* Only Register and Unregister touch the table.
LEMMA CounterStep ==
  TypeOK /\ NextIdCountsClients /\ [Next]_vars => NextIdCountsClients'
<1> SUFFICES ASSUME TypeOK, NextIdCountsClients, [Next]_vars
             PROVE  NextIdCountsClients'
  OBVIOUS
<1>1. ASSUME NEW e \in Endpoints, ProcessConnections(e)
      PROVE  NextIdCountsClients'
  BY <1>1, RegisterCounts DEF ProcessConnections, TypeOK
<1>2. ASSUME NEW id, ProcessDisconnections(id)
      PROVE  NextIdCountsClients'
  BY <1>2, UnregisterCounts DEF ProcessDisconnections, TypeOK
<1>3. CASE UNCHANGED table
  BY <1>3 DEF table, NextIdCountsClients
<1> QED BY <1>1, <1>2, <1>3
        DEF Next, MainThread, NetworkThread, NoPacket, Disconnection, HealthCheck,
            RequestCode, ConnectToLobby, ConnectLeave, LeaveLobby, MasterStart,
            CheckClientTimeouts, ExpireClient, CleanupClosedLobbies,
            NetworkLoopStops, SendFails, vars

\* The next id stays a count of the open connections, for every number of ids.
THEOREM CounterCorrect == Spec => []NextIdCountsClients
<1>1. Init => NextIdCountsClients
  BY DEF Init, TableInit, NextIdCountsClients
<1> QED BY <1>1, CounterStep, TypeCorrect, PTL DEF Spec

\* What a disconnection does to the routes: the one of the id goes, and the other
\* ids stay in the table.
LEMMA DisconnectionRoutes ==
  ASSUME TypeOK, RoutesAreConnected, NEW id \in Ids, ProcessDisconnections(id)
  PROVE  RoutesAreConnected'
<1> SUFFICES ASSUME NEW k \in Ids, clientToLobby'[k] # NoLobby
             PROVE  k \in TableIds'
  BY DEF RoutesAreConnected
<1>1. k # id /\ clientToLobby[k] # NoLobby
  BY DEF ProcessDisconnections, Unroute, TypeOK
<1>2. PICK i \in DOMAIN clients : FirstWithId(i, id) /\ Unregister(i)
  BY DEF ProcessDisconnections
<1>3. k \in TableIds /\ k # clients[i].id
  BY <1>1, <1>2 DEF RoutesAreConnected, FirstWithId
<1> QED BY <1>2, <1>3, UnregisterKeepsOthers DEF TypeOK

\* A step either leaves the table and adds no route but for an id of the table,
\* or registers a client, or disconnects one.
LEMMA RoutesStep ==
  TypeOK /\ RoutesAreConnected /\ [Next]_vars => RoutesAreConnected'
<1> SUFFICES ASSUME TypeOK, RoutesAreConnected, [Next]_vars
             PROVE  RoutesAreConnected'
  OBVIOUS
<1>1. ASSUME NEW e \in Endpoints, ProcessConnections(e)
      PROVE  RoutesAreConnected'
  BY <1>1, RegisterKeepsOthers DEF ProcessConnections, RoutesAreConnected, TypeOK
<1>2. ASSUME NEW id \in Ids, ProcessDisconnections(id)
      PROVE  RoutesAreConnected'
  BY <1>2, DisconnectionRoutes
<1>3. ASSUME UNCHANGED table, NEW i \in DOMAIN clients, NEW c \in Codes,
             clientToLobby' = [clientToLobby EXCEPT ![clients[i].id] = c]
      PROVE  RoutesAreConnected'
  BY <1>3 DEF RoutesAreConnected, TableIds, table, TypeOK
<1>4. ASSUME UNCHANGED table, NEW id, Unroute(id)
      PROVE  RoutesAreConnected'
  BY <1>4 DEF RoutesAreConnected, TableIds, table, Unroute, TypeOK
<1>5. CASE UNCHANGED <<table, clientToLobby>>
  BY <1>5 DEF RoutesAreConnected, TableIds, table
<1>6. ASSUME NEW e \in Endpoints, NEW c \in Codes,
             RequestCode(e, c) \/ ConnectToLobby(e, c)
      PROVE  RoutesAreConnected'
  BY <1>3, <1>5, <1>6 DEF RequestCode, ConnectToLobby
<1>7. ASSUME NEW id \in Ids, Disconnection(id) \/ ExpireClient(id)
      PROVE  RoutesAreConnected'
  BY <1>2, <1>7 DEF Disconnection, ExpireClient
<1>8. issued \subseteq Ids /\ timedOut \subseteq Ids
  BY DEF TypeOK, TableTypeOK
<1> QED BY <1>1, <1>4, <1>5, <1>6, <1>7, <1>8
        DEF Next, MainThread, NetworkThread, NoPacket, HealthCheck, ConnectLeave,
            LeaveLobby, MasterStart, CheckClientTimeouts, CleanupClosedLobbies,
            NetworkLoopStops, SendFails, vars

\* No disconnection or timeout leaves a route behind.
THEOREM RoutesConnected == Spec => []RoutesAreConnected
<1>1. Init => RoutesAreConnected
  BY DEF Init, RoutesAreConnected
<1> QED BY <1>1, RoutesStep, TypeCorrect, PTL DEF Spec

\* Members only come in through a new lobby and through Enrol.
LEMMA MembersStep ==
  TypeOK /\ MembersHaveOwnIds /\ [Next]_vars => MembersHaveOwnIds'
<1> SUFFICES ASSUME TypeOK, MembersHaveOwnIds, [Next]_vars
             PROVE  MembersHaveOwnIds'
  OBVIOUS
<1>1. ASSUME NEW c \in Codes, NEW id, DropMember(c, id)
      PROVE  MembersHaveOwnIds'
  BY <1>1, DropMemberType DEF MembersHaveOwnIds
<1>2. CASE UNCHANGED members
  BY <1>2 DEF MembersHaveOwnIds
<1>3. ASSUME NEW c \in Codes, NEW client \in Client,
             \/ members' = [members EXCEPT ![c] = {client}]
             \/ members' = [members EXCEPT ![c] = Enrol(@, client)]
      PROVE  MembersHaveOwnIds'
  <2> SUFFICES ASSUME NEW d \in Codes, NEW m \in members'[d], NEW n \in members'[d],
                      m.id = n.id
               PROVE  m = n
    BY DEF MembersHaveOwnIds
  <2>1. CASE d # c
    BY <1>3, <2>1 DEF MembersHaveOwnIds, TypeOK
  <2>2. CASE d = c /\ members' = [members EXCEPT ![c] = {client}]
    BY <2>2 DEF TypeOK
  <2>3. CASE d = c /\ members' = [members EXCEPT ![c] = Enrol(@, client)]
    BY <2>3 DEF MembersHaveOwnIds, Enrol, IdsOf, TypeOK
  <2> QED BY <1>3, <2>1, <2>2, <2>3
<1>4. ASSUME NEW e \in Endpoints, NEW c \in Codes,
             RequestCode(e, c) \/ ConnectToLobby(e, c)
      PROVE  MembersHaveOwnIds'
  BY <1>2, <1>3, <1>4, TableEntryType DEF RequestCode, ConnectToLobby, lobbyState
<1>5. ASSUME NEW id, ProcessDisconnections(id)
      PROVE  MembersHaveOwnIds'
  BY <1>1, <1>2, <1>5 DEF ProcessDisconnections
<1>6. ASSUME NEW c \in Codes, NEW m, SendFails(c, m)
      PROVE  MembersHaveOwnIds'
  BY <1>6 DEF SendFails, MembersHaveOwnIds, TypeOK
<1>7. ASSUME NEW id, LeaveLobby(id)
      PROVE  MembersHaveOwnIds'
  BY <1>1, <1>2, <1>7 DEF LeaveLobby
<1> QED BY <1>1, <1>2, <1>4, <1>5, <1>6, <1>7
        DEF Next, MainThread, NetworkThread, NoPacket, ProcessConnections,
            Disconnection, HealthCheck, ConnectLeave, MasterStart,
            CheckClientTimeouts, ExpireClient, CleanupClosedLobbies,
            NetworkLoopStops, lobbyState, vars

\* The members of a lobby are told apart by their ids.
THEOREM MembersDistinct == Spec => []MembersHaveOwnIds
<1>1. Init => MembersHaveOwnIds
  BY DEF Init, MembersHaveOwnIds
<1> QED BY <1>1, MembersStep, TypeCorrect, PTL DEF Spec

-----------------------------------------------------------------------------
(* The two lists of a lobby and the routes into it.                         *)

\* Enrol adds the client's id to the ids of a list and at most one entry to it.
LEMMA EnrolIds ==
  ASSUME NEW S, NEW client
  PROVE  IdsOf(Enrol(S, client)) = IdsOf(S) \cup {client.id}
  BY DEF Enrol, IdsOf

\* Enrol makes a list at most one entry longer.
LEMMA EnrolSize ==
  ASSUME NEW S, IsFiniteSet(S), NEW client
  PROVE  /\ IsFiniteSet(Enrol(S, client))
         /\ Cardinality(Enrol(S, client)) \in Nat
         /\ Cardinality(Enrol(S, client)) <= Cardinality(S) + 1
<1>1. Cardinality(S) \in Nat
  BY FS_CardinalityType
<1>2. /\ IsFiniteSet(S \cup {client})
      /\ Cardinality(S \cup {client}) \in {Cardinality(S), Cardinality(S) + 1}
  BY FS_AddElement
<1>3. CASE client.id \in IdsOf(S)
  <2>1. Enrol(S, client) = S
    BY <1>3 DEF Enrol
  <2> QED BY <1>1, <2>1
<1>4. CASE client.id \notin IdsOf(S)
  <2>1. Enrol(S, client) = S \cup {client}
    BY <1>4 DEF Enrol
  <2> QED BY <1>1, <1>2, <2>1
<1> QED BY <1>3, <1>4

\* Striking an id off a list of distinct ids.
LEMMA DropMemberIds ==
  ASSUME TypeOK, MembersHaveOwnIds, NEW c \in Codes, NEW id, DropMember(c, id)
  PROVE  /\ IdsOf(members'[c]) = IdsOf(members[c]) \ {id}
         /\ \A d \in Codes : d # c => members'[d] = members[d]
<1>1. ASSUME NEW m \in members[c], m.id = id,
             members' = [members EXCEPT ![c] = @ \ {m}]
      PROVE  IdsOf(members'[c]) = IdsOf(members[c]) \ {id}
  <2>1. members'[c] = members[c] \ {m}
    BY <1>1 DEF TypeOK
  <2>2. \A n \in members[c] : n.id = id <=> n = m
    BY <1>1 DEF MembersHaveOwnIds
  <2> QED BY <2>1, <2>2 DEF IdsOf
<1>2. CASE id \notin IdsOf(members[c]) /\ UNCHANGED members
  BY <1>2
<1> QED BY <1>1, <1>2 DEF DropMember, TypeOK

\* Nothing a lobby knows of its players changes except the members it loses.
LEMMA EnrolledAfterLoss ==
  ASSUME MembersEnrolled, UNCHANGED directory, UNCHANGED creator,
         lobbies \subseteq Codes,
         \A d \in Codes : members'[d] \subseteq members[d]
  PROVE  MembersEnrolled'
  BY DEF MembersEnrolled, directory, IdsOf

\* A member comes in with an entry on the roster, or as the creator; what takes an
\* id off the roster takes the member along.
LEMMA EnrolledStep ==
  TypeOK /\ MembersHaveOwnIds /\ MembersEnrolled /\ [Next]_vars => MembersEnrolled'
<1> SUFFICES ASSUME TypeOK, MembersHaveOwnIds, MembersEnrolled, [Next]_vars
             PROVE  MembersEnrolled'
  OBVIOUS
<1>0. lobbies \subseteq Codes
  BY DEF TypeOK
<1>1. CASE UNCHANGED <<directory, members, creator>>
  BY <1>1 DEF MembersEnrolled, directory
<1>2. ASSUME NEW id \in Ids, ProcessDisconnections(id)
      PROVE  MembersEnrolled'
  BY <1>0, <1>2, DropMemberType, EnrolledAfterLoss DEF ProcessDisconnections
<1>3. ASSUME NEW e, NEW c \in Codes, RequestCode(e, c)
      PROVE  MembersEnrolled'
  <2>1. c \notin lobbies /\ \A d \in Codes : d # c => roster'[d] = roster[d]
    BY <1>3 DEF RequestCode, Fresh, TypeOK
  <2>2. ASSUME NEW i \in DOMAIN clients,
               lobbies' = lobbies \cup {c},
               members' = [members EXCEPT ![c] = {clients[i]}],
               creator' = [creator EXCEPT ![c] = clients[i].id]
        PROVE  MembersEnrolled'
    <3>1. IdsOf(members'[c]) = {creator'[c]}
      BY <2>2 DEF IdsOf, TypeOK
    <3> QED BY <2>1, <2>2, <3>1, <1>0 DEF MembersEnrolled, TypeOK
  <2>3. CASE UNCHANGED <<lobbies, lobbyState>>
    BY <2>1, <2>3, <1>0 DEF MembersEnrolled, lobbyState
  <2> QED BY <1>3, <2>2, <2>3 DEF RequestCode
<1>4. ASSUME NEW e, NEW c \in Codes, ConnectToLobby(e, c)
      PROVE  MembersEnrolled'
  <2>1. PICK i \in DOMAIN clients :
          /\ roster' = [roster EXCEPT ![c] = Enrol(@, clients[i])]
          /\ \/ members' = [members EXCEPT ![c] = Enrol(@, clients[i])]
             \/ UNCHANGED members
    BY <1>4 DEF ConnectToLobby
  <2>2. UNCHANGED <<lobbies, creator>>
    BY <1>4 DEF ConnectToLobby
  <2>3. IdsOf(roster'[c]) = IdsOf(roster[c]) \cup {clients[i].id}
    BY <2>1, EnrolIds DEF TypeOK
  <2>4. IdsOf(members'[c]) \subseteq IdsOf(members[c]) \cup {clients[i].id}
    BY <2>1, EnrolIds DEF TypeOK
  <2>5. ASSUME NEW d \in Codes, d # c
        PROVE  roster'[d] = roster[d] /\ members'[d] = members[d]
    BY <2>1, <2>5 DEF TypeOK
  <2> QED BY <2>2, <2>3, <2>4, <2>5, <1>0 DEF MembersEnrolled
<1>5. ASSUME NEW e, ConnectLeave(e)
      PROVE  MembersEnrolled'
  BY <1>0, <1>5, DropMemberType, EnrolledAfterLoss DEF ConnectLeave
<1>6. ASSUME NEW id, LeaveLobby(id)
      PROVE  MembersEnrolled'
  <2>1. CASE UNCHANGED <<roster, members>>
    BY <1>6, <2>1 DEF LeaveLobby, MembersEnrolled
  <2>2. ASSUME NEW c \in Codes, DropMember(c, id),
               roster' = [roster EXCEPT ![c] = {r \in @ : r.id # id}]
        PROVE  MembersEnrolled'
    <3>1. IdsOf(roster'[c]) = IdsOf(roster[c]) \ {id}
      BY <2>2 DEF IdsOf, TypeOK
    <3>2. /\ IdsOf(members'[c]) = IdsOf(members[c]) \ {id}
          /\ \A d \in Codes : d # c => members'[d] = members[d]
      BY <2>2, DropMemberIds
    <3>3. \A d \in Codes : d # c => roster'[d] = roster[d]
      BY <2>2 DEF TypeOK
    <3>4. UNCHANGED <<lobbies, creator>>
      BY <1>6 DEF LeaveLobby
    <3> QED BY <3>1, <3>2, <3>3, <3>4, <1>0 DEF MembersEnrolled
  <2> QED BY <1>6, <2>1, <2>2 DEF LeaveLobby
<1>7. CASE CleanupClosedLobbies
  <2>1. lobbies' = lobbies \ ClosedLobbies /\ UNCHANGED members
    BY <1>7 DEF CleanupClosedLobbies
  <2>2. ASSUME NEW c \in lobbies'
        PROVE  roster'[c] = roster[c] /\ creator'[c] = creator[c]
    BY <1>7, <2>1, <1>0, <2>2 DEF CleanupClosedLobbies, Delist
  <2> QED BY <2>1, <2>2 DEF MembersEnrolled
<1>8. ASSUME NEW c \in Codes, NEW m, SendFails(c, m)
      PROVE  MembersEnrolled'
  <2>1. \A d \in Codes : members'[d] \subseteq members[d]
    BY <1>8 DEF SendFails, TypeOK
  <2> QED BY <1>0, <1>8, <2>1, EnrolledAfterLoss DEF SendFails
<1>9. issued \subseteq Ids /\ timedOut \subseteq Ids
  BY DEF TypeOK, TableTypeOK
<1> QED BY <1>1, <1>2, <1>3, <1>4, <1>5, <1>6, <1>7, <1>8, <1>9
        DEF Next, MainThread, NetworkThread, NoPacket, ProcessConnections,
            Disconnection, HealthCheck, MasterStart, CheckClientTimeouts,
            ExpireClient, NetworkLoopStops, lobbyState, vars

\* Whoever plays in a lobby of the directory created it or is on its roster.
THEOREM EnrolledCorrect == Spec => []MembersEnrolled
<1>1. Init => MembersEnrolled
  BY DEF Init, MembersEnrolled
<1> QED BY <1>1, EnrolledStep, MembersDistinct, TypeCorrect, PTL DEF Spec

-----------------------------------------------------------------------------
(* How many players a lobby can have.                                       *)

\* A list of clients with distinct ids, all of them listed in T but one, is at
\* most one longer than T.
LEMMA CountByIds ==
  ASSUME NEW S, NEW T, NEW k, IsFiniteSet(T),
         \A m, n \in S : m.id = n.id => m = n,
         IdsOf(S) \subseteq IdsOf(T) \cup {k}
  PROVE  IsFiniteSet(S) /\ Cardinality(S) <= Cardinality(T) + 1
<1> DEFINE R == {m \in S : m.id # k}
           f == [m \in R |-> CHOOSE t \in T : t.id = m.id]
<1>1. ASSUME NEW m \in R
      PROVE  f[m] \in T /\ f[m].id = m.id
  <2>1. m.id \in IdsOf(T)
    BY DEF IdsOf
  <2>2. \E t \in T : t.id = m.id
    BY <2>1 DEF IdsOf
  <2> QED BY <2>2
<1>2. f \in Injection(R, T)
  <2>1. f \in [R -> T]
    BY <1>1
  <2>2. ASSUME NEW m \in R, NEW n \in R, f[m] = f[n]
        PROVE  m = n
    <3>1. f[m].id = m.id /\ f[n].id = n.id
      BY <1>1
    <3> HIDE DEF f
    <3>2. m.id = n.id
      BY <2>2, <3>1
    <3> QED BY <3>2
  <2>3. IsInjective(f)
    BY <2>1, <2>2 DEF IsInjective
  <2> HIDE DEF f, R
  <2> QED BY <2>1, <2>3 DEF Injection
<1>3. IsFiniteSet(R) /\ Cardinality(R) <= Cardinality(T)
  BY <1>2, FS_Injection
<1>4. Cardinality(R) \in Nat /\ Cardinality(T) \in Nat
  BY <1>3, FS_CardinalityType
<1> HIDE DEF R
<1>5. CASE S = R
  BY <1>3, <1>4, <1>5
<1>6. CASE S # R
  <2>1. PICK m \in S : m.id = k
    BY <1>6 DEF R
  <2>2. S = R \cup {m}
    BY <2>1 DEF R
  <2>3. /\ IsFiniteSet(R \cup {m})
        /\ Cardinality(R \cup {m}) \in {Cardinality(R), Cardinality(R) + 1}
    BY <1>3, FS_AddElement
  <2> QED BY <1>3, <1>4, <2>2, <2>3
<1> QED BY <1>5, <1>6

\* What makes the bound inductive: the rosters are bounded by the test at the
\* door, and the members of a lobby by its roster and its creator.
RosterSize(c) ==
  IsFiniteSet(roster[c]) /\ Cardinality(roster[c]) <= MaxClientPerLobby + 1

MembersSize(c) ==
  IsFiniteSet(members[c]) /\ Cardinality(members[c]) <= MaxClientPerLobby + 2

SizeInv == \A c \in Codes : RosterSize(c) /\ MembersSize(c)

\* A list that loses entries keeps within its bound.
LEMMA Shrink ==
  ASSUME NEW S, NEW T \in SUBSET S, NEW n \in Nat, IsFiniteSet(S), Cardinality(S) <= n
  PROVE  IsFiniteSet(T) /\ Cardinality(T) <= n
<1>1. IsFiniteSet(T) /\ Cardinality(T) <= Cardinality(S)
  BY FS_Subset
<1>2. Cardinality(S) \in Nat /\ Cardinality(T) \in Nat
  BY <1>1, FS_CardinalityType
<1> QED BY <1>1, <1>2

\* Two cardinalities the bounds start from.
LEMMA SmallSets ==
  ASSUME NEW x
  PROVE  /\ IsFiniteSet({}) /\ Cardinality({}) <= MaxClientPerLobby + 1
         /\ Cardinality({}) <= MaxClientPerLobby + 2
         /\ IsFiniteSet({x}) /\ Cardinality({x}) <= MaxClientPerLobby + 2
<1>1. IsFiniteSet({}) /\ Cardinality({}) = 0
  BY FS_EmptySet
<1>2. IsFiniteSet({x}) /\ Cardinality({x}) = 1
  BY FS_Singleton
<1> QED BY <1>1, <1>2, SessionConstants

\* Steps that only shorten rosters and member lists keep every bound on them.
LEMMA SizeAfterLoss ==
  ASSUME SizeInv, \A c \in Codes : roster'[c] \subseteq roster[c],
         \A c \in Codes : members'[c] \subseteq members[c]
  PROVE  SizeInv'
<1> SUFFICES ASSUME NEW c \in Codes
             PROVE  RosterSize(c)' /\ MembersSize(c)'
  BY DEF SizeInv
<1>1. MaxClientPerLobby + 1 \in Nat /\ MaxClientPerLobby + 2 \in Nat
  BY SessionConstants
<1>2. RosterSize(c)'
  BY <1>1, Shrink DEF SizeInv, RosterSize
<1>3. MembersSize(c)'
  BY <1>1, Shrink DEF SizeInv, MembersSize
<1> QED BY <1>2, <1>3

\* Only a new lobby and a join make a list longer.
LEMMA SizeStep ==
  /\ TypeOK /\ MembersHaveOwnIds' /\ MembersEnrolled'
  /\ SizeInv /\ [Next]_vars
  => SizeInv'
<1> SUFFICES ASSUME TypeOK, MembersHaveOwnIds', MembersEnrolled', SizeInv, [Next]_vars
             PROVE  SizeInv'
  OBVIOUS
<1>1. CASE UNCHANGED <<roster, members>>
  BY <1>1, SizeAfterLoss
<1>2. ASSUME NEW id \in Ids, ProcessDisconnections(id)
      PROVE  SizeInv'
  BY <1>2, DropMemberType, SizeAfterLoss DEF ProcessDisconnections, directory
<1>3. ASSUME NEW e, NEW c \in Codes, RequestCode(e, c)
      PROVE  SizeInv'
  <2> SUFFICES ASSUME NEW d \in Codes
               PROVE  RosterSize(d)' /\ MembersSize(d)'
    BY DEF SizeInv
  <2>1. roster'[d] = roster[d] \/ roster'[d] = {}
    BY <1>3 DEF RequestCode, TypeOK
  <2>2. members'[d] = members[d] \/ \E x : members'[d] = {x}
    BY <1>3 DEF RequestCode, TypeOK, lobbyState
  <2>3. RosterSize(d)'
    BY <2>1, SmallSets DEF SizeInv, RosterSize
  <2>4. MembersSize(d)'
    BY <2>2, SmallSets DEF SizeInv, MembersSize
  <2> QED BY <2>3, <2>4
<1>4. ASSUME NEW e, NEW c \in Codes, ConnectToLobby(e, c)
      PROVE  SizeInv'
  <2>1. PICK i \in DOMAIN clients :
          /\ roster' = [roster EXCEPT ![c] = Enrol(@, clients[i])]
          /\ \/ /\ c \in lobbies
                /\ members' = [members EXCEPT ![c] = Enrol(@, clients[i])]
             \/ UNCHANGED members
    BY <1>4 DEF ConnectToLobby
  <2>2. \A d \in Codes : d # c => roster'[d] = roster[d] /\ members'[d] = members[d]
    BY <2>1 DEF TypeOK
  <2>3. IsFiniteSet(roster'[c]) /\ Cardinality(roster'[c]) <= MaxClientPerLobby + 1
    <3>1. roster'[c] = Enrol(roster[c], clients[i])
      BY <2>1 DEF TypeOK
    <3>2. IsFiniteSet(roster[c]) /\ Cardinality(roster[c]) \in Nat
      BY FS_CardinalityType DEF SizeInv, RosterSize
    <3>3. Cardinality(roster[c]) <= MaxClientPerLobby
      BY <1>4, <3>2, SessionConstants DEF ConnectToLobby, Full
    <3>4. /\ IsFiniteSet(Enrol(roster[c], clients[i]))
          /\ Cardinality(Enrol(roster[c], clients[i])) \in Nat
          /\ Cardinality(Enrol(roster[c], clients[i])) <= Cardinality(roster[c]) + 1
      BY <3>2, EnrolSize
    <3> QED BY <3>1, <3>2, <3>3, <3>4, SessionConstants
  <2>4. MembersSize(c)'
    <3>1. CASE UNCHANGED members
      BY <3>1 DEF SizeInv, MembersSize
    <3>2. CASE c \in lobbies
      <4>1. c \in lobbies'
        BY <1>4, <3>2 DEF ConnectToLobby
      <4>2. IdsOf(members'[c]) \subseteq IdsOf(roster'[c]) \cup {creator'[c]}
        BY <4>1 DEF MembersEnrolled
      <4>3. \A m, n \in members'[c] : m.id = n.id => m = n
        BY DEF MembersHaveOwnIds
      <4>4. IsFiniteSet(members'[c]) /\ Cardinality(members'[c]) <= Cardinality(roster'[c]) + 1
        BY <2>3, <4>2, <4>3, CountByIds
      <4>5. Cardinality(members'[c]) \in Nat /\ Cardinality(roster'[c]) \in Nat
        BY <2>3, <4>4, FS_CardinalityType
      <4> QED BY <2>3, <4>4, <4>5, SessionConstants DEF MembersSize
    <3> QED BY <2>1, <3>1, <3>2
  <2> QED BY <2>2, <2>3, <2>4 DEF SizeInv, RosterSize, MembersSize
<1>5. ASSUME NEW e, ConnectLeave(e)
      PROVE  SizeInv'
  BY <1>5, DropMemberType, SizeAfterLoss DEF ConnectLeave, directory
<1>6. ASSUME NEW id, LeaveLobby(id)
      PROVE  SizeInv'
  <2>1. ASSUME NEW c \in Codes, DropMember(c, id),
               roster' = [roster EXCEPT ![c] = {r \in @ : r.id # id}]
        PROVE  SizeInv'
    <3>1. \A d \in Codes : roster'[d] \subseteq roster[d]
      BY <2>1 DEF TypeOK
    <3> QED BY <2>1, <3>1, DropMemberType, SizeAfterLoss
  <2> QED BY <1>1, <1>6, <2>1 DEF LeaveLobby
<1>7. CASE CleanupClosedLobbies
  BY <1>7, SizeAfterLoss DEF CleanupClosedLobbies, Delist
<1>8. ASSUME NEW c \in Codes, NEW m, SendFails(c, m)
      PROVE  SizeInv'
  <2>1. \A d \in Codes : members'[d] \subseteq members[d] /\ roster'[d] = roster[d]
    BY <1>8 DEF SendFails, TypeOK, directory
  <2> QED BY <2>1, SizeAfterLoss
<1>9. issued \subseteq Ids /\ timedOut \subseteq Ids
  BY DEF TypeOK, TableTypeOK
<1> QED BY <1>1, <1>2, <1>3, <1>4, <1>5, <1>6, <1>7, <1>8, <1>9
        DEF Next, MainThread, NetworkThread, NoPacket, ProcessConnections,
            Disconnection, HealthCheck, MasterStart, CheckClientTimeouts,
            ExpireClient, NetworkLoopStops, lobbyState, directory, vars

\* A lobby has at most two players more than MAX_CLIENT_PER_LOBBY: one for the
\* roster's test, which lets one more in, and one for the creator, whom the roster
\* need not list.
THEOREM LobbiesBounded == Spec => []LobbyBounded
<1>1. Init => SizeInv
  BY SmallSets DEF Init, SizeInv, RosterSize, MembersSize
<1>2. SizeInv => LobbyBounded
  BY DEF SizeInv, MembersSize, LobbyBounded
<1> QED BY <1>1, <1>2, SizeStep, EnrolledCorrect, MembersDistinct, TypeCorrect, PTL
        DEF Spec

-----------------------------------------------------------------------------
(* Routes into the listed lobbies.                                          *)

\* A route into c is the creator's or belongs to an id on the roster.
Inside(id, c) == c \in lobbies /\ id \in IdsOf(roster[c]) \cup {creator[c]}

\* Losing routes keeps the others inside.
LEMMA InsideAfterLoss ==
  ASSUME TypeOK, RoutesStayInside, UNCHANGED directory, UNCHANGED creator,
         \A id \in Ids : clientToLobby'[id] \in {clientToLobby[id], NoLobby}
  PROVE  RoutesStayInside'
<1>1. \A c \in listed : c # NoLobby
  BY SessionConstants DEF TypeOK
<1> QED BY <1>1 DEF RoutesStayInside, directory

\* Every step keeps routes inside: a route is written with the enrolment and
\* erased with the lobby.
LEMMA InsideStep ==
  TypeOK /\ RoutesStayInside /\ [Next]_vars => RoutesStayInside'
<1> SUFFICES ASSUME TypeOK, RoutesStayInside, [Next]_vars
             PROVE  RoutesStayInside'
  OBVIOUS
<1>0. listed \subseteq Codes
  BY DEF TypeOK
<1>1. CASE UNCHANGED <<directory, creator, clientToLobby>>
  BY <1>1 DEF RoutesStayInside, directory
<1>2. ASSUME NEW id \in Ids, Unroute(id), UNCHANGED <<directory, creator>>
      PROVE  RoutesStayInside'
  <2>1. \A k \in Ids : clientToLobby'[k] \in {clientToLobby[k], NoLobby}
    BY <1>2 DEF Unroute, TypeOK
  <2> QED BY <1>2, <2>1, InsideAfterLoss
<1>3. ASSUME NEW e, NEW c \in Codes, RequestCode(e, c)
      PROVE  RoutesStayInside'
  <2>1. /\ c \notin listed /\ listed' = listed \cup {c}
        /\ \A id \in Ids : clientToLobby[id] # c
        /\ \A d \in Codes : d # c => roster'[d] = roster[d]
    BY <1>3 DEF RequestCode, Fresh, TypeOK
  <2>2. ASSUME NEW i \in DOMAIN clients,
               lobbies' = lobbies \cup {c},
               creator' = [creator EXCEPT ![c] = clients[i].id],
               clientToLobby' = [clientToLobby EXCEPT ![clients[i].id] = c]
        PROVE  RoutesStayInside'
    <3> SUFFICES ASSUME NEW id \in Ids, NEW d \in listed', clientToLobby'[id] = d
                 PROVE  Inside(id, d)'
      BY DEF RoutesStayInside, Inside
    <3>1. clients[i].id \in Ids
      BY TableEntryType
    <3>2. CASE d = c
      <4>1. id = clients[i].id /\ creator'[c] = clients[i].id
        BY <2>1, <2>2, <3>1, <3>2 DEF TypeOK
      <4> QED BY <2>2, <3>2, <4>1 DEF Inside
    <3>3. CASE d # c
      <4>1. clientToLobby[id] = d /\ d \in listed
        BY <2>1, <2>2, <3>1, <3>3 DEF TypeOK
      <4>2. creator'[d] = creator[d] /\ roster'[d] = roster[d] /\ d \in Codes
        BY <1>0, <2>1, <2>2, <3>3, <4>1 DEF TypeOK
      <4> QED BY <2>2, <4>1, <4>2 DEF RoutesStayInside, Inside
    <3> QED BY <3>2, <3>3
  <2>3. CASE UNCHANGED <<lobbies, lobbyState, clientToLobby>>
    BY <1>0, <2>1, <2>3 DEF RoutesStayInside, lobbyState
  <2> QED BY <1>3, <2>2, <2>3 DEF RequestCode
<1>4. ASSUME NEW e, NEW c \in Codes, ConnectToLobby(e, c)
      PROVE  RoutesStayInside'
  <2>1. PICK i \in DOMAIN clients :
          /\ roster' = [roster EXCEPT ![c] = Enrol(@, clients[i])]
          /\ \/ /\ c \in lobbies
                /\ clientToLobby' = [clientToLobby EXCEPT ![clients[i].id] = c]
             \/ UNCHANGED clientToLobby
    BY <1>4 DEF ConnectToLobby
  <2>2. UNCHANGED <<listed, lobbies, creator>>
    BY <1>4 DEF ConnectToLobby
  <2>3. clients[i].id \in Ids
    BY TableEntryType
  <2>4. IdsOf(roster'[c]) = IdsOf(roster[c]) \cup {clients[i].id}
    BY <2>1, EnrolIds DEF TypeOK
  <2>5. \A d \in Codes : d # c => roster'[d] = roster[d]
    BY <2>1 DEF TypeOK
  <2> SUFFICES ASSUME NEW id \in Ids, NEW d \in listed', clientToLobby'[id] = d
               PROVE  Inside(id, d)'
    BY DEF RoutesStayInside, Inside
  <2>6. CASE clientToLobby[id] = d
    BY <1>0, <2>2, <2>4, <2>5, <2>6 DEF RoutesStayInside, Inside
  <2>7. CASE clientToLobby[id] # d
    <3>1. id = clients[i].id /\ d = c /\ c \in lobbies
      BY <2>1, <2>3, <2>7 DEF TypeOK
    <3> QED BY <2>2, <2>4, <3>1 DEF Inside
  <2> QED BY <2>6, <2>7
<1>5. ASSUME NEW e, ConnectLeave(e)
      PROVE  RoutesStayInside'
  <2>1. PICK i \in DOMAIN clients : Unroute(clients[i].id)
    BY <1>5 DEF ConnectLeave
  <2> QED BY <1>2, <1>5, <2>1, TableEntryType DEF ConnectLeave
<1>6. ASSUME NEW id \in Ids, LeaveLobby(id)
      PROVE  RoutesStayInside'
  <2>1. CASE UNCHANGED roster
    BY <1>2, <1>6, <2>1 DEF LeaveLobby, directory
  <2>2. ASSUME NEW c \in Codes,
               roster' = [roster EXCEPT ![c] = {r \in @ : r.id # id}]
        PROVE  RoutesStayInside'
    <3>1. IdsOf(roster'[c]) = IdsOf(roster[c]) \ {id}
      BY <2>2 DEF IdsOf, TypeOK
    <3>2. \A d \in Codes : d # c => roster'[d] = roster[d]
      BY <2>2 DEF TypeOK
    <3>3. /\ UNCHANGED <<listed, lobbies, creator>>
          /\ clientToLobby'[id] = NoLobby
          /\ \A k \in Ids : k # id => clientToLobby'[k] = clientToLobby[k]
      BY <1>6 DEF LeaveLobby, Unroute, TypeOK
    <3>4. NoLobby \notin listed
      BY <1>0, SessionConstants
    <3> QED BY <1>0, <3>1, <3>2, <3>3, <3>4 DEF RoutesStayInside
  <2> QED BY <1>6, <2>1, <2>2 DEF LeaveLobby
<1>7. CASE CleanupClosedLobbies
  <2>1. /\ lobbies' = lobbies \ ClosedLobbies /\ listed' = listed \ ClosedLobbies
        /\ UNCHANGED clientToLobby
    BY <1>7 DEF CleanupClosedLobbies, Delist
  <2>2. ASSUME NEW c \in listed'
        PROVE  roster'[c] = roster[c] /\ creator'[c] = creator[c]
    BY <1>0, <1>7, <2>1 DEF CleanupClosedLobbies, Delist
  <2> QED BY <2>1, <2>2 DEF RoutesStayInside
<1>8. ASSUME NEW id \in Ids, ProcessDisconnections(id)
      PROVE  RoutesStayInside'
  BY <1>2, <1>8 DEF ProcessDisconnections
<1>9. issued \subseteq Ids /\ timedOut \subseteq Ids
  BY DEF TypeOK, TableTypeOK
<1> QED BY <1>1, <1>3, <1>4, <1>5, <1>6, <1>7, <1>8, <1>9
        DEF Next, MainThread, NetworkThread, NoPacket, ProcessConnections,
            Disconnection, HealthCheck, MasterStart, CheckClientTimeouts,
            ExpireClient, NetworkLoopStops, SendFails, lobbyState, vars

\* Every route into a listed lobby belongs to an id on its roster or its creator.
THEOREM RoutesInside == Spec => []RoutesStayInside
<1>1. Init => RoutesStayInside
  BY DEF Init, RoutesStayInside
<1> QED BY <1>1, InsideStep, TypeCorrect, PTL DEF Spec

-----------------------------------------------------------------------------
(* The sweeps of checkClientTimeouts.  The invariant follows its two loops:  *)
(* while the table is walked, every expired id in front of the position has  *)
(* been collected; while the collected are disconnected, every expired id of *)
(* the table is still among them, because a disconnection takes the entry of *)
(* the id along.                                                             *)

TimeoutTypeOK ==
  /\ TableTypeOK
  /\ beat \in [Ids -> Nat \cup {NoBeat}]
  /\ collected \in Seq(Ids)
  /\ position \in Nat \ {0}

Collected(id) == \E n \in DOMAIN collected : collected[n] = id

WalkInv ==
  turn = "collect" =>
    \A i \in DOMAIN clients :
      i < position /\ Expired(clients[i].id) => Collected(clients[i].id)

ExpireInv ==
  turn = "expire" => \A id \in TableIds : Expired(id) => Collected(id)

SweepInv == TimeoutTypeOK /\ WalkInv /\ ExpireInv /\ SweepIsComplete

\* Processing a disconnection keeps the types, brings no id into the table and
\* leaves no other entry of _clientLastHeartbeat expired than before.
LEMMA DisconnectionForgets ==
  ASSUME TimeoutTypeOK, NEW id, EraseClient(id)
  PROVE  /\ TableTypeOK' /\ TableIds' \subseteq TableIds
         /\ beat' \in [Ids -> Nat \cup {NoBeat}]
         /\ beat'[id] = NoBeat
         /\ \A other \in Ids \ {id} : beat'[other] = beat[other]
<1>1. PICK i \in DOMAIN clients :
        /\ FirstWithId(i, id) /\ Unregister(i) /\ beat' = [beat EXCEPT ![id] = NoBeat]
  BY DEF EraseClient
<1>2. clients[i] \in Client /\ clients[i].id = id
  BY <1>1 DEF FirstWithId, TimeoutTypeOK, TableTypeOK
<1>3. id \in Ids
  BY <1>2 DEF Client
<1>4. TableTypeOK' /\ TableIds' \subseteq TableIds
  BY <1>1, UnregisterKeepsOthers, UnregisterBringsNone DEF TimeoutTypeOK
<1> QED BY <1>1, <1>3, <1>4 DEF TimeoutTypeOK

LEMMA IdsOfTable ==
  ASSUME TableTypeOK
  PROVE  TableIds \subseteq Ids /\ \A i \in DOMAIN clients : clients[i].id \in Ids
<1>1. \A i \in DOMAIN clients : clients[i] \in Client
  BY DEF TableTypeOK
<1> QED BY <1>1 DEF TableIds, Client

LEMMA SweepInit == TimeoutsInit => SweepInv
<1>1. 1 % IdMod \in Ids
  BY ClientTableConstants DEF Ids
<1> QED BY <1>1 DEF TimeoutsInit, TableInit, SweepInv, TimeoutTypeOK, TableTypeOK, WalkInv, ExpireInv,
                    SweepIsComplete

LEMMA SweepStep == SweepInv /\ [TimeoutsNext]_timeoutsVars => SweepInv'
<1> SUFFICES ASSUME SweepInv, [TimeoutsNext]_timeoutsVars
             PROVE  SweepInv'
  OBVIOUS
<1>1. TimeoutTypeOK /\ WalkInv /\ ExpireInv /\ SweepIsComplete
  BY DEF SweepInv
<1>2. TableIds \subseteq Ids /\ \A i \in DOMAIN clients : clients[i].id \in Ids
  BY <1>1, IdsOfTable DEF TimeoutTypeOK
<1>3. ASSUME TakeTurn, TableTypeOK', beat' \in [Ids -> Nat \cup {NoBeat}]
      PROVE  SweepInv'
  BY <1>1, <1>3 DEF TakeTurn, SweepInv, TimeoutTypeOK, WalkInv, ExpireInv, SweepIsComplete
<1>4. CASE NothingReceived
  BY <1>1, <1>3, <1>4 DEF NothingReceived, TimeoutTypeOK, TableTypeOK, table
<1>5. ASSUME NEW e \in Endpoints, Connects(e)
      PROVE  SweepInv'
  BY <1>1, <1>3, <1>5, RegisterKeepsOthers DEF Connects, TimeoutTypeOK
<1>6. ASSUME NEW id \in issued, Heartbeat(id)
      PROVE  SweepInv'
  BY <1>1, <1>3, <1>6 DEF Heartbeat, TimeoutTypeOK, TableTypeOK, table
<1>7. ASSUME NEW id \in issued, Disconnects(id)
      PROVE  SweepInv'
  BY <1>1, <1>3, <1>7, DisconnectionForgets DEF Disconnects
<1>8. CASE StartSweep
  <2>1. TimeoutTypeOK'
    BY <1>1, <1>8 DEF StartSweep, TimeoutTypeOK, TableTypeOK, table
  <2>2. clients' = clients /\ DOMAIN clients = 1..Len(clients)
    BY <1>1, <1>8 DEF StartSweep, table, TimeoutTypeOK, TableTypeOK
  <2>3. WalkInv'
    BY <1>8, <2>2 DEF StartSweep, WalkInv
  <2> QED BY <1>8, <2>1, <2>3 DEF StartSweep, SweepInv, ExpireInv, SweepIsComplete
<1>9. CASE CollectClient
  <2> DEFINE id == clients[position].id
  <2>1. /\ turn = "collect" /\ position \in DOMAIN clients /\ id \in Ids
        /\ UNCHANGED <<clients, nextClientId, issued, beat, turn>> /\ position' = position + 1
        /\ collected' = IF Expired(id) THEN Append(collected, id) ELSE collected
    BY <1>1, <1>2, <1>9 DEF CollectClient, AtEnd, TimeoutTypeOK, TableTypeOK, table
  <2> HIDE DEF id
  <2>2. TimeoutTypeOK'
    BY <1>1, <2>1 DEF TimeoutTypeOK, TableTypeOK
  <2>3. ASSUME NEW other \in Ids, Collected(other) \/ (Expired(other) /\ other = id)
        PROVE  Collected(other)'
    <3>1. collected \in Seq(Ids) /\ collected' \in Seq(Ids)
      BY <1>1, <2>2 DEF TimeoutTypeOK
    <3>2. CASE Collected(other)
      BY <2>1, <3>1, <3>2 DEF Collected
    <3>3. CASE Expired(other) /\ other = id
      BY <2>1, <3>1, <3>3 DEF Collected
    <3> QED BY <2>3, <3>2, <3>3
  <2>4. WalkInv'
    <3> SUFFICES ASSUME NEW i \in DOMAIN clients, i < position + 1, Expired(clients[i].id)
                 PROVE  Collected(clients[i].id)'
      BY <2>1 DEF WalkInv, Expired
    <3>1. i < position \/ i = position
      BY <1>1, <2>1 DEF TimeoutTypeOK, TableTypeOK
    <3>2. PICK other \in Ids : other = clients[i].id
      BY <1>2
    <3>3. Collected(other) \/ (Expired(other) /\ other = id)
      <4>1. CASE i < position
        BY <1>1, <2>1, <3>2, <4>1 DEF WalkInv
      <4>2. CASE i = position
        <5>1. other = id
          BY <3>2, <4>2 DEF id
        <5> QED BY <3>2, <5>1 DEF Expired
      <4> QED BY <3>1, <4>1, <4>2
    <3>4. Collected(other)'
      BY <2>3, <3>3
    <3> QED BY <2>1, <3>2, <3>4 DEF Collected
  <2> QED BY <2>1, <2>2, <2>4 DEF SweepInv, ExpireInv, SweepIsComplete
<1>10. CASE EndOfWalk
  <2>1. /\ turn = "collect" /\ turn' = "expire" /\ position > Len(clients)
        /\ UNCHANGED <<clients, nextClientId, issued, beat, collected, position>>
    BY <1>10 DEF EndOfWalk, AtEnd, table
  <2>2. TimeoutTypeOK' /\ DOMAIN clients = 1..Len(clients) /\ Len(clients) \in Nat
    BY <1>1, <2>1 DEF TimeoutTypeOK, TableTypeOK
  <2>3. \A id \in TableIds : Expired(id) => Collected(id)
    BY <1>1, <2>1, <2>2 DEF WalkInv, TableIds, TimeoutTypeOK
  <2>4. ExpireInv'
    BY <2>1, <2>3 DEF ExpireInv, TableIds, Expired, Collected
  <2> QED BY <2>1, <2>2, <2>4 DEF SweepInv, WalkInv, SweepIsComplete
<1>11. CASE ExpireFirst
  <2>1. /\ turn = "expire" /\ collected # <<>> /\ EraseClient(collected[1])
        /\ collected' = Tail(collected) /\ UNCHANGED <<turn, position>>
    BY <1>11 DEF ExpireFirst
  <2> DEFINE id == collected[1]
  <2>2. /\ TableTypeOK' /\ TableIds' \subseteq TableIds
        /\ beat' \in [Ids -> Nat \cup {NoBeat}] /\ beat'[id] = NoBeat
        /\ \A other \in Ids \ {id} : beat'[other] = beat[other]
    BY <1>1, <2>1, DisconnectionForgets
  <2>3. /\ collected' \in Seq(Ids)
        /\ \A n \in DOMAIN collected : n # 1 => n - 1 \in DOMAIN collected'
                                              /\ collected'[n - 1] = collected[n]
    BY <1>1, <2>1 DEF TimeoutTypeOK
  <2>4. TimeoutTypeOK'
    BY <1>1, <2>1, <2>2, <2>3 DEF TimeoutTypeOK
  <2>5. ASSUME NEW other \in TableIds', Expired(other)'
        PROVE  Collected(other)'
    <3>1. other \in Ids /\ other \in TableIds /\ other # id /\ Expired(other)
      BY <1>2, <2>2, <2>5 DEF Expired
    <3>2. PICK n \in DOMAIN collected : collected[n] = other
      BY <1>1, <2>1, <3>1 DEF ExpireInv, Collected
    <3> QED BY <2>3, <3>1, <3>2 DEF Collected
  <2>6. ExpireInv'
    BY <2>5 DEF ExpireInv
  <2> QED BY <2>1, <2>4, <2>6 DEF SweepInv, WalkInv, SweepIsComplete
<1>12. CASE EndOfSweep
  <2>1. /\ turn = "expire" /\ turn' = "sleep" /\ collected = <<>>
        /\ UNCHANGED <<clients, nextClientId, issued, beat, collected, position>>
    BY <1>12 DEF EndOfSweep, table
  <2>2. DOMAIN collected = {}
    BY <2>1
  <2>3. \A id \in TableIds : ~Expired(id)
    BY <1>1, <2>1, <2>2 DEF ExpireInv, Collected
  <2>4. SweepIsComplete'
    BY <2>1, <2>3 DEF SweepIsComplete, TableIds, Expired
  <2> QED BY <1>1, <2>1, <2>4 DEF SweepInv, TimeoutTypeOK, TableTypeOK, WalkInv, ExpireInv
<1>13. ASSUME Sleep, beat' \in [Ids -> Nat \cup {NoBeat}]
       PROVE  SweepInv'
  BY <1>1, <1>13 DEF Sleep, table, SweepInv, TimeoutTypeOK, TableTypeOK, WalkInv, ExpireInv,
                     SweepIsComplete
<1>14. CASE Nap
  BY <1>1, <1>13, <1>14 DEF Nap, TimeoutTypeOK
<1>15. CASE Tick
  <2>1. beat' \in [Ids -> Nat \cup {NoBeat}]
    BY <1>1, <1>15, TimeoutConstants DEF Tick, Older, TimeoutTypeOK
  <2> QED BY <1>13, <1>15, <2>1 DEF Tick
<1>16. CASE UNCHANGED timeoutsVars
  BY <1>1, <1>16 DEF timeoutsVars, table, SweepInv, TimeoutTypeOK, TableTypeOK, WalkInv, ExpireInv,
                     SweepIsComplete, TableIds, Expired, Collected
<1> QED BY <1>4, <1>5, <1>6, <1>7, <1>8, <1>9, <1>10, <1>11, <1>12, <1>14, <1>15, <1>16 DEF TimeoutsNext

\* When the sweep of checkClientTimeouts is over, no client of the table has an entry
\* older than the timeout, also when several clients share an id.
THEOREM SweepsAreComplete == TimeoutsSpec => []SweepIsComplete
<1>1. SweepInv => SweepIsComplete
  BY DEF SweepInv
<1> QED BY SweepInit, SweepStep, <1>1, PTL DEF TimeoutsSpec
=============================================================================
