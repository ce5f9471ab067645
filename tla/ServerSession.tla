--------------------------- MODULE ServerSession ---------------------------
(***************************************************************************)
(* The session layer of the game server: the table of connected clients,   *)
(* the directory of lobbies, who is in which lobby, and the route from a   *)
(* client id to the lobby its packets are queued for.                      *)
(*                                                                         *)
(* Processes: the main thread (Server::start, one packet, one timeout      *)
(* check and one cleanup per turn) and the network thread of each started  *)
(* lobby (Lobby::networkLoop).  The packets the main thread receives come  *)
(* from clients over UDP: any client may send any of them at any moment,   *)
(* late or twice, so a handler is enabled whenever its packet could be in  *)
(* flight.                                                                 *)
(***************************************************************************)
EXTENDS ClientTable, FiniteSets

CONSTANTS
  Codes,             \* alphanumeric lobby codes
  MaxClientPerLobby, \* constants::MAX_CLIENT_PER_LOBBY: 4 in the code
  NoLobby            \* no route in _clientToLobby

ASSUME SessionConstants ==
  /\ MaxClientPerLobby \in Nat
  /\ NoLobby \notin Codes

VARIABLES
  beating,       \* the ids with an entry in Server::_clientLastHeartbeat
  listed,        \* codes of Server::_lobbyThreads
  roster,        \* LobbyStruct::_clients of a listed code
  lobbies,       \* codes of the Lobby objects in Server::_lobbies
  members,       \* Lobby::_clients
  running,       \* Lobby::_running
  threads,       \* Lobby::_networkThread and _gameThread are joinable
  creator,       \* the id the Lobby object was constructed with
  clientToLobby, \* Server::_clientToLobby
  phase,         \* where the main thread is in its loop
  timedOut       \* checkClientTimeouts' timedOutClients, still to disconnect

directory == <<listed, roster, lobbies>>
lobbyState == <<members, running, threads, creator>>
vars == <<table, beating, directory, lobbyState, clientToLobby, phase, timedOut>>

-----------------------------------------------------------------------------
(* Lookups.                                                                 *)

IdsOf(S) == {c.id : c \in S}
Connected(e) == \E i \in DOMAIN clients : clients[i].ep = e

\* A code no lobby answers to.  A fresh code is compared with _lobbyThreads
\* only; that it may collide with the code of a removed lobby some client is
\* still routed to (one chance in 36^8) is ignored.
Fresh(c) ==
  /\ c \notin listed \cup lobbies
  /\ \A id \in Ids : clientToLobby[id] # c

\* processConnectToLobby's test for a lobby that takes nobody else.
Full(c) == Cardinality(roster[c]) > MaxClientPerLobby

\* The alreadyInLobby tests: a client is only appended to a list of clients that
\* has none with its id.  The mutant appends it anyway.
EnrolAnyway(list, client) == list \cup {client}

Enrol(list, client) ==
  IF client.id \in IdsOf(list) THEN list ELSE list \cup {client}

\* Mutant of DropMember: the server forgets to tell the lobby.
DropNobody(c, id) == UNCHANGED members

\* Lobby::processDisconnections: removes one member with the id, if any.
DropMember(c, id) ==
  \/ \E m \in members[c] :
       /\ m.id = id
       /\ members' = [members EXCEPT ![c] = @ \ {m}]
  \/ /\ id \notin IdsOf(members[c])
     /\ UNCHANGED members

\* _clientToLobby.erase(id).  The mutant erases only the route of a lobby that runs.
UnrouteRunning(id) ==
  clientToLobby' =
    [clientToLobby EXCEPT ![id] = IF \E c \in Codes : @ = c /\ ~running[c] THEN @ ELSE NoLobby]

Unroute(id) == clientToLobby' = [clientToLobby EXCEPT ![id] = NoLobby]

\* cleanupClosedLobbies' second list: the LobbyStructs of the closed lobbies go
\* too.  The mutant leaves them in the directory.
KeepListed(closed) == UNCHANGED <<listed, roster>>

Delist(closed) ==
  /\ listed' = listed \ closed
  /\ roster' = [c \in Codes |-> IF c \in closed THEN {} ELSE roster[c]]

Init ==
  /\ TableInit
  /\ beating = {}
  /\ listed = {}
  /\ roster = [c \in Codes |-> {}]
  /\ lobbies = {}
  /\ members = [c \in Codes |-> {}]
  /\ running = [c \in Codes |-> FALSE]
  /\ threads = [c \in Codes |-> FALSE]
  /\ creator = [c \in Codes |-> 0]
  /\ clientToLobby = [id \in Ids |-> NoLobby]
  /\ phase = "receive"
  /\ timedOut = {}

-----------------------------------------------------------------------------
(* Main thread: one packet.                                                 *)

Receive ==
  /\ phase = "receive"
  /\ phase' = "timeouts"
  /\ UNCHANGED timedOut

\* No packet waiting, or one that leaves the session layer as it is.
NoPacket ==
  /\ Receive
  /\ UNCHANGED <<table, beating, directory, lobbyState, clientToLobby>>

ProcessConnections(e) ==
  /\ Receive
  /\ Register(e)
  /\ UNCHANGED <<beating, directory, lobbyState, clientToLobby>>

\* Server::processDisconnections for an id that is in the table: the lobby is
\* told if it still runs, and the route and the beating go.  The roster keeps
\* the client.
ProcessDisconnections(id) ==
  /\ \E i \in DOMAIN clients : FirstWithId(i, id) /\ Unregister(i)
  /\ beating' = beating \ {id}
  /\ Unroute(id)
  /\ \/ \E c \in Codes :
          /\ clientToLobby[id] = c
          /\ running[c]
          /\ DropMember(c, id)
     \/ /\ \A c \in Codes : clientToLobby[id] = c => ~running[c]
        /\ UNCHANGED members
  /\ UNCHANGED <<directory, running, threads, creator>>

Disconnection(id) ==
  /\ Receive
  /\ ProcessDisconnections(id)

\* An EVENT packet carrying HEALTHCHECK: the entry is written for any id.
HealthCheck(id) ==
  /\ Receive
  /\ beating' = beating \cup {id}
  /\ UNCHANGED <<table, directory, lobbyState, clientToLobby>>

\* requestCode and sendCodeLobbyPacket: the code is listed first, the Lobby
\* object is only built for an endpoint that is in the table.
RequestCode(e, c) ==
  /\ Receive
  /\ Fresh(c)
  /\ listed' = listed \cup {c}
  /\ roster' = [roster EXCEPT ![c] = {}]
  /\ \/ \E i \in DOMAIN clients :
          /\ FirstFrom(i, e)
          /\ lobbies' = lobbies \cup {c}
          /\ members' = [members EXCEPT ![c] = {clients[i]}]
          /\ running' = [running EXCEPT ![c] = TRUE]
          /\ threads' = [threads EXCEPT ![c] = FALSE]
          /\ creator' = [creator EXCEPT ![c] = clients[i].id]
          /\ clientToLobby' = [clientToLobby EXCEPT ![clients[i].id] = c]
     \/ /\ ~Connected(e)
        /\ UNCHANGED <<lobbies, lobbyState, clientToLobby>>
  /\ UNCHANGED <<table, beating>>

\* processConnectToLobby with a code, accepted: listed, not full, known sender.
\* A sender whose account is banned and who is not on the roster is answered
\* 'f', which is NoPacket here.
ConnectToLobby(e, c) ==
  /\ Receive
  /\ c \in listed
  /\ ~Full(c)
  /\ \E i \in DOMAIN clients :
       LET id == clients[i].id IN
       /\ FirstFrom(i, e)
       /\ roster' = [roster EXCEPT ![c] = Enrol(@, clients[i])]
       /\ \/ /\ c \in lobbies
             /\ members' = [members EXCEPT ![c] = Enrol(@, clients[i])]
             /\ clientToLobby' = [clientToLobby EXCEPT ![id] = c]
          \/ /\ c \notin lobbies
             /\ UNCHANGED <<members, clientToLobby>>
  /\ UNCHANGED <<table, beating, listed, lobbies, running, threads, creator>>

\* processConnectToLobby with the leave marker: the roster keeps the client.
ConnectLeave(e) ==
  /\ Receive
  /\ \E i \in DOMAIN clients, c \in Codes :
       LET id == clients[i].id IN
       /\ FirstFrom(i, e)
       /\ clientToLobby[id] = c
       /\ DropMember(c, id)
       /\ Unroute(id)
  /\ UNCHANGED <<table, beating, directory, running, threads, creator>>

\* A LEAVE_LOBBY packet: the last member out stops the lobby, which joins its
\* threads.
LeaveLobby(id) ==
  /\ Receive
  /\ Unroute(id)
  /\ \E c \in Codes :
       /\ clientToLobby[id] = c
       /\ \/ /\ ~running[c]
             /\ UNCHANGED <<roster, members, running, threads>>
          \/ /\ running[c]
             /\ roster' = [roster EXCEPT ![c] = {r \in @ : r.id # id}]
             /\ DropMember(c, id)
             /\ \/ /\ members'[c] = {}
                   /\ running' = [running EXCEPT ![c] = FALSE]
                   /\ threads' = [threads EXCEPT ![c] = FALSE]
                \/ /\ members'[c] # {}
                   /\ UNCHANGED <<running, threads>>
  /\ UNCHANGED <<table, beating, listed, lobbies, creator>>

\* processMasterStart: assigning a std::thread that is still joinable ends the
\* process.
MasterStart(c) ==
  /\ phase = "receive"
  /\ c \in listed \cap lobbies
  /\ \/ /\ ~threads[c]
        /\ threads' = [threads EXCEPT ![c] = TRUE]
        /\ phase' = "timeouts"
     \/ /\ threads[c]
        /\ phase' = "terminated"
        /\ UNCHANGED threads
  /\ UNCHANGED <<table, beating, directory, members, running, creator,
                 clientToLobby, timedOut>>

-----------------------------------------------------------------------------
(* Main thread: timeouts and cleanup.                                       *)

\* The first half of checkClientTimeouts collects the clients whose last
\* HEALTHCHECK is too old; here any client that has an entry may be among them
\* (ClientTimeouts has the clock).
CheckClientTimeouts ==
  /\ phase = "timeouts"
  /\ timedOut' \in SUBSET (TableIds \cap beating)
  /\ phase' = IF timedOut' = {} THEN "cleanup" ELSE "expire"
  /\ UNCHANGED <<table, beating, directory, lobbyState, clientToLobby>>

\* The second half disconnects them one by one.  An id that several clients
\* share was collected once for each, so all of them go; the order is free here.
ExpireClient(id) ==
  /\ phase = "expire"
  /\ id \in timedOut
  /\ ProcessDisconnections(id)
  /\ timedOut' = IF id \in {clients'[i].id : i \in DOMAIN clients'}
                 THEN timedOut ELSE timedOut \ {id}
  /\ phase' = IF timedOut' = {} THEN "cleanup" ELSE "expire"

\* The lobbies cleanupClosedLobbies removes.
ClosedLobbies == {c \in lobbies : ~running[c]}

\* A closed lobby leaves both lists.  Its threads have ended; the Lobby object
\* joins them when its last route goes, which nothing here can observe.
CleanupClosedLobbies ==
  /\ phase = "cleanup"
  /\ phase' = "receive"
  /\ lobbies' = lobbies \ ClosedLobbies
  /\ Delist(ClosedLobbies)
  /\ threads' = [c \in Codes |-> threads[c] /\ c \notin ClosedLobbies]
  /\ creator' = [c \in Codes |-> IF c \in ClosedLobbies THEN 0 ELSE creator[c]]
  /\ UNCHANGED <<table, beating, members, running, clientToLobby, timedOut>>

-----------------------------------------------------------------------------
(* Lobby network threads.                                                   *)

\* networkLoop's test for a lobby nobody is left in.  The mutant reads the server's
\* roster instead of the lobby's own list.
EmptyRoster(c) == roster[c] = {}

NoClients(c) == members[c] = {}

\* networkLoop finds no client left and ends the lobby.
NetworkLoopStops(c) ==
  /\ phase # "terminated"
  /\ threads[c] /\ running[c]
  /\ NoClients(c)
  /\ running' = [running EXCEPT ![c] = FALSE]
  /\ UNCHANGED <<table, beating, directory, members, threads, creator,
                 clientToLobby, phase, timedOut>>

\* gameStatePacket cannot send to a client and drops it from the lobby; the
\* server's own table and routes are not told.
SendFails(c, m) ==
  /\ phase # "terminated"
  /\ threads[c] /\ running[c]
  /\ m \in members[c]
  /\ members' = [members EXCEPT ![c] = @ \ {m}]
  /\ UNCHANGED <<table, beating, directory, running, threads, creator,
                 clientToLobby, phase, timedOut>>

-----------------------------------------------------------------------------

MainThread ==
  \/ NoPacket
  \/ \E e \in Endpoints : ProcessConnections(e)
  \/ \E id \in issued : Disconnection(id)
  \/ \E id \in issued : HealthCheck(id)
  \/ \E e \in Endpoints, c \in Codes : RequestCode(e, c)
  \/ \E e \in Endpoints, c \in Codes : ConnectToLobby(e, c)
  \/ \E e \in Endpoints : ConnectLeave(e)
  \/ \E id \in issued : LeaveLobby(id)
  \/ \E c \in Codes : MasterStart(c)
  \/ CheckClientTimeouts
  \/ \E id \in timedOut : ExpireClient(id)
  \/ CleanupClosedLobbies

NetworkThread(c) ==
  \/ NetworkLoopStops(c)
  \/ \E m \in members[c] : SendFails(c, m)

Next ==
  \/ MainThread
  \/ \E c \in Codes : NetworkThread(c)

Spec == Init /\ [][Next]_vars

\* The main loop and every network loop run as long as the process does; no
\* client is obliged to send anything.
Fairness ==
  /\ WF_vars(MainThread)
  /\ \A c \in Codes : WF_vars(NetworkLoopStops(c))

FairSpec == Spec /\ Fairness

-----------------------------------------------------------------------------
(* Properties.                                                              *)

\* Every variable of the session layer has its type.
TypeOK ==
  /\ TableTypeOK
  /\ beating \in SUBSET Ids
  /\ listed \in SUBSET Codes
  /\ roster \in [Codes -> SUBSET Client]
  /\ lobbies \in SUBSET Codes
  /\ members \in [Codes -> SUBSET Client]
  /\ running \in [Codes -> BOOLEAN]
  /\ threads \in [Codes -> BOOLEAN]
  /\ creator \in [Codes -> Ids]
  /\ clientToLobby \in [Ids -> Codes \cup {NoLobby}]
  /\ phase \in {"receive", "timeouts", "expire", "cleanup", "terminated"}
  /\ timedOut \in SUBSET Ids

\* No two players of one lobby share an id, whatever joins, leaves, timeouts and
\* failed sends did to the lobby: members are told apart by id everywhere.
MembersHaveOwnIds ==
  \A c \in Codes : \A m, n \in members[c] : m.id = n.id => m = n

\* Whoever plays in a lobby of the directory created it or is on its roster: the
\* two lists, filled by one handler and emptied by others, agree that far.
MembersEnrolled ==
  \A c \in lobbies : IdsOf(members[c]) \subseteq IdsOf(roster[c]) \cup {creator[c]}

\* A lobby never holds more players than its roster can list plus the creator:
\* processConnectToLobby's test is on LobbyStruct::_clients, not on the lobby.
LobbyBounded ==
  \A c \in Codes : Cardinality(members[c]) <= MaxClientPerLobby + 2

\* A packet is only routed to a lobby its sender's id created or joined: nobody
\* left on the route of a listed lobby has been taken off its roster.
RoutesStayInside ==
  \A id \in Ids : \A c \in listed :
    clientToLobby[id] = c => c \in lobbies /\ id \in IdsOf(roster[c]) \cup {creator[c]}

\* Only ids in the table have a route: a disconnection or a timeout leaves no
\* route behind, also when the lobby stopped first or another client shares the id.
\* The packets of whoever is given the id next would go to that lobby.
RoutesAreConnected ==
  \A id \in Ids : clientToLobby[id] # NoLobby => id \in TableIds

\* A started lobby that lost its last player is stopped and swept, unless a new
\* player joins first.
EmptyLobbySwept ==
  \A c \in Codes :
    c \in lobbies /\ threads[c] /\ members[c] = {}
      ~> c \notin lobbies \/ members[c] # {} \/ phase = "terminated"
=============================================================================
