--------------------------- MODULE LobbyGameProofs ---------------------------
(***************************************************************************)
(* Proofs about LobbyGame for any clients, maps and bounds: which ship is    *)
(* whose while three threads make, record and forget ships, and how a game   *)
(* ends. The second half is about a frame of the game, GameWorld, for any    *)
(* levels, moves and sizes: nobody is left behind, kills reach the score,    *)
(* and a cooldown admits one hit.                                            *)
(***************************************************************************)
EXTENDS LobbyGame, GameWorld, FiniteSetTheorems, WellFoundedInduction, TLAPS

\* How the game thread and the states it runs go together: a map that was completed
\* has another after it, and a map is cleared once it was completed.
GameShape ==
  /\ map \in Nat /\ stimuli \in Nat
  /\ main \in {"waiting", "starting"} => game = "off"
  /\ main = "stopped" => net \in {"off", "done"} /\ game \in {"off", "done"}
  /\ game \in {"off", "begin", "create"} => state = "lobby"
  /\ game = "deal" => state = "complete" /\ map # 0
  /\ state = "complete" /\ game # "deal" => map + 1 < Maps
  /\ ended = IF state = "end" THEN 1 ELSE 0
  /\ net \in {"create", "record"} => asking = [client |-> asking.client, ship |-> asking.ship, no |-> asking.no]

LEMMA ShapeStep == GameShape /\ [Next]_vars => GameShape'
<1> SUFFICES ASSUME GameShape, [Next]_vars
             PROVE  GameShape'
  OBVIOUS
<1> USE LobbyConstants DEF GameShape, pilots, queues, world, match
<1>1. CASE MainThread
  <2>1. CASE StartNetworkThread \/ StartGameThread \/ Stop \/ Clear
    BY <2>1, SMTT(30) DEF StartNetworkThread, StartGameThread, Stop, Clear
  <2>2. ASSUME NEW c \in Clients, Join(c) \/ LeaveLobby(c) \/ EnqueueWhoAmI(c)
        PROVE  GameShape'
    BY <2>2, SMTT(30) DEF Join, LeaveLobby, EnqueueWhoAmI, Stimulus
  <2>3. ASSUME NEW c \in Clients, NEW m \in Moves, EnqueueEvent(c, m)
        PROVE  GameShape'
    BY <2>3 DEF EnqueueEvent, Stimulus
  <2> QED BY <1>1, <2>1, <2>2, <2>3 DEF MainThread
<1>2. CASE NetworkThread
  BY <1>2 DEF NetworkThread, NetworkEnds, NetworkStops, TakeEvent, TakeWhoAmI, CreateForWhoAmI,
              RecordForWhoAmI, AnswerWhoAmI, InNetworkLoop
<1>3. CASE ListClients \/ CreateShip \/ RecordShip \/ EnterLoop \/ GameEnds
           \/ ProcessLobbyEvents \/ Wait
  BY <1>3 DEF ListClients, CreateShip, RecordShip, EnterLoop, GameEnds, ProcessLobbyEvents, Wait
<1>4. CASE StartPlaying
  BY <1>4 DEF StartPlaying
<1>5. ASSUME NEW lost \in SUBSET DOMAIN ships, NEW points, NEW reached \in BOOLEAN,
             Play(lost, points, reached)
      PROVE  GameShape'
  BY <1>5 DEF Play, Verdict, IsLastMap
<1>6. CASE ClearLevel
  BY <1>6 DEF ClearLevel, HasNextMap
<1>7. CASE DealShips
  BY <1>7 DEF DealShips
<1>8. ASSUME NEW c \in Clients, DropClient(c)
      PROVE  GameShape'
  BY <1>8 DEF DropClient, Stimulus
<1>9. CASE UNCHANGED vars
  BY <1>9 DEF vars
<1> QED
  BY <1>1, <1>2, <1>3, <1>4, <1>5, <1>6, <1>7, <1>8, <1>9 DEF Next, GameThread
\* Removing one entry of a sequence: the result is one shorter and keeps every
\* other entry.
LEMMA RemoveAtProperties ==
  ASSUME NEW S, NEW s \in Seq(S), NEW i \in DOMAIN s
  PROVE  /\ RemoveAt(s, i) \in Seq(S)
         /\ Len(RemoveAt(s, i)) = Len(s) - 1
         /\ \A j \in 1..(Len(s) - 1) :
              RemoveAt(s, i)[j] = s[IF j < i THEN j ELSE j + 1]
<1> DEFINE before == SubSeq(s, 1, i - 1)
           after == SubSeq(s, i + 1, Len(s))
<1>1. i \in 1..Len(s) /\ Len(s) \in Nat
  OBVIOUS
<1>2. /\ before \in Seq(S) /\ Len(before) = i - 1
      /\ \A j \in 1..(i - 1) : before[j] = s[j]
  BY <1>1
<1>3. /\ after \in Seq(S) /\ Len(after) = Len(s) - i
      /\ \A j \in 1..(Len(s) - i) : after[j] = s[i + j]
  BY <1>1
<1>4. RemoveAt(s, i) = before \o after
  BY DEF RemoveAt
<1> HIDE DEF before, after
<1>5. /\ before \o after \in Seq(S)
      /\ Len(before \o after) = Len(s) - 1
  BY <1>1, <1>2, <1>3
<1>6. ASSUME NEW j \in 1..(Len(s) - 1)
      PROVE  (before \o after)[j] = s[IF j < i THEN j ELSE j + 1]
  <2>1. CASE j < i
    BY <1>1, <1>2, <1>3, <2>1
  <2>2. CASE ~(j < i)
    <3>1. (before \o after)[j] = after[j - (i - 1)]
      <4>1. j \in 1..(Len(before) + Len(after)) /\ ~(j <= Len(before)) /\ Len(before) = i - 1
        BY <1>1, <1>2, <1>3, <2>2
      <4>2. before \in Seq(S) /\ after \in Seq(S)
        BY <1>2, <1>3
      <4> QED BY <4>1, <4>2
    <3>2. j - (i - 1) \in 1..(Len(s) - i) /\ i + (j - (i - 1)) = j + 1
      BY <1>1, <2>2
    <3> QED BY <1>3, <2>2, <3>1, <3>2
  <2> QED BY <2>1, <2>2
<1> QED BY <1>4, <1>5, <1>6

-----------------------------------------------------------------------------
(* Whose a ship is on the first map.                                        *)

\* Ids of ships are new: nobody owns the one the game thread or the network thread
\* has made and not recorded yet, and the two have made different ones.
FreshShips ==
  /\ nextEntity \in Nat \ {0}
  /\ \A e \in DOMAIN owner : e \in 1..(nextEntity - 1)
  /\ made \in 0..(nextEntity - 1)
  /\ made # 0 => made \notin DOMAIN owner
  /\ net = "record" =>
       /\ asking.ship \in 1..(nextEntity - 1)
       /\ asking.ship \notin DOMAIN owner
       /\ asking.ship # made

OwnInv ==
  /\ map = 0 => OwnShips
  /\ map = 0 /\ main # "stopped" => FreshShips

\* Forgetting a client leaves the others their ships.
LEMMA ForgettingKeepsOwners ==
  ASSUME NEW c, OwnInv, map = 0, clientToEntity' = Without(clientToEntity, c), UNCHANGED <<owner, map>>
  PROVE  OwnShips'
  BY DEF OwnInv, OwnShips, Without, Restrict

\* Recording a ship nobody owns makes it its client's.
LEMMA RecordingKeepsOwners ==
  ASSUME NEW c, NEW e, OwnInv, map = 0, e \notin DOMAIN owner,
         clientToEntity' = With(clientToEntity, c, e), owner' = With(owner, e, c)
  PROVE  OwnShips'
  BY DEF OwnInv, OwnShips, With

LEMMA OwnStep == GameShape /\ OwnInv /\ [Next]_vars => OwnInv'
<1> SUFFICES ASSUME GameShape, OwnInv, [Next]_vars
             PROVE  OwnInv'
  OBVIOUS
<1> USE LobbyConstants DEF pilots, queues, world, match
<1>0. CASE map' # 0
  BY <1>0 DEF OwnInv
<1> SUFFICES ASSUME map' = 0
             PROVE  OwnInv'
  BY <1>0
<1>1. CASE UNCHANGED <<world, map, made, main, net, asking>>
  BY <1>1 DEF OwnInv, OwnShips, FreshShips
<1>2. CASE MainThread
  <2>1. CASE StartNetworkThread
    BY <2>1 DEF StartNetworkThread, OwnInv, OwnShips, FreshShips
  <2>2. CASE StartGameThread \/ Stop
    BY <2>2 DEF StartGameThread, Stop, OwnInv, OwnShips, FreshShips
  <2>3. CASE Clear
    BY <2>3 DEF Clear, OwnInv, OwnShips
  <2>4. ASSUME NEW c \in Clients, LeaveLobby(c)
        PROVE  OwnInv'
    <3>1. CASE UNCHANGED clientToEntity
      BY <2>4, <3>1 DEF LeaveLobby, OwnInv, OwnShips, FreshShips
    <3>2. CASE ForgetClient(c)
      <4>1. OwnShips'
        BY <2>4, <3>2, ForgettingKeepsOwners DEF LeaveLobby, ForgetClient
      <4> QED BY <2>4, <4>1 DEF LeaveLobby, OwnInv, FreshShips
    <3> QED BY <2>4, <3>1, <3>2 DEF LeaveLobby
  <2>5. ASSUME NEW c \in Clients, NEW v \in Moves,
               Join(c) \/ EnqueueWhoAmI(c) \/ EnqueueEvent(c, v)
        PROVE  OwnInv'
    BY <1>1, <2>5 DEF Join, EnqueueWhoAmI, EnqueueEvent
  <2> QED BY <1>2, <2>1, <2>2, <2>3, <2>4, <2>5 DEF MainThread
<1>3. CASE NetworkThread
  <2>1. CASE NetworkEnds \/ NetworkStops \/ TakeEvent \/ TakeWhoAmI \/ AnswerWhoAmI
    BY <2>1 DEF NetworkEnds, NetworkStops, TakeEvent, TakeWhoAmI, AnswerWhoAmI, OwnInv, OwnShips,
                FreshShips, InNetworkLoop
  <2>2. CASE CreateForWhoAmI
    <3>1. main # "stopped"
      BY <2>2 DEF CreateForWhoAmI, GameShape
    <3>2. asking'.ship = nextEntity
      BY <2>2 DEF CreateForWhoAmI, GameShape
    <3> QED BY <2>2, <3>1, <3>2 DEF CreateForWhoAmI, OwnInv, OwnShips, FreshShips
  <2>3. CASE RecordForWhoAmI
    <3>1. main # "stopped" /\ map = 0
      BY <2>3 DEF RecordForWhoAmI, GameShape
    <3>2. OwnShips'
      BY <2>3, <3>1, RecordingKeepsOwners DEF RecordForWhoAmI, OwnInv, FreshShips
    <3> QED BY <2>3, <3>1, <3>2 DEF RecordForWhoAmI, OwnInv, FreshShips, With
  <2> QED BY <1>3, <2>1, <2>2, <2>3 DEF NetworkThread
<1>4. CASE GameThread
  <2>1. CASE ListClients \/ EnterLoop \/ GameEnds \/ ProcessLobbyEvents \/ Wait
    BY <1>1, <2>1 DEF ListClients, EnterLoop, GameEnds, ProcessLobbyEvents, Wait
  <2>2. CASE CreateShip
    <3>1. main # "stopped"
      BY <2>2 DEF CreateShip, GameShape
    <3> QED BY <2>2, <3>1 DEF CreateShip, OwnInv, OwnShips, FreshShips
  <2>3. CASE RecordShip
    <3>1. main # "stopped" /\ map = 0
      BY <2>3 DEF RecordShip, GameShape
    <3>2. OwnShips'
      BY <2>3, <3>1, RecordingKeepsOwners DEF RecordShip, OwnInv, FreshShips
    <3> QED BY <2>3, <3>1, <3>2 DEF RecordShip, OwnInv, FreshShips, With
  <2>4. CASE StartPlaying
    BY <2>4 DEF StartPlaying, PlaceMap, OwnInv, OwnShips, FreshShips
  <2>5. ASSUME NEW lost \in SUBSET DOMAIN ships, NEW points, NEW reached \in BOOLEAN,
               Play(lost, points, reached)
        PROVE  OwnInv'
    BY <2>5 DEF Play, OwnInv, OwnShips, FreshShips
  <2>6. CASE ClearLevel
    BY <2>6 DEF ClearLevel, GameShape, OwnInv, OwnShips, FreshShips
  <2>7. CASE DealShips
    BY <2>7 DEF DealShips, GameShape
  <2> QED BY <1>4, <2>1, <2>2, <2>3, <2>4, <2>5, <2>6, <2>7 DEF GameThread
<1>5. ASSUME NEW c \in Clients, DropClient(c)
      PROVE  OwnInv'
  <2>1. map = 0 /\ OwnShips'
    BY <1>5, ForgettingKeepsOwners DEF DropClient, ForgetClient
  <2> QED BY <1>5, <2>1 DEF DropClient, OwnInv, FreshShips
<1>6. CASE UNCHANGED vars
  BY <1>1, <1>6 DEF vars
<1> QED BY <1>2, <1>3, <1>4, <1>5, <1>6 DEF Next
-----------------------------------------------------------------------------
(* Whose a ship is on every map, as long as nobody comes or goes.           *)

\* The clients of a lobby are listed once each.
Roll ==
  /\ members \in Seq(Clients)
  /\ \A i, j \in DOMAIN members : members[i] = members[j] => i = j

\* The first n clients have the first n ships, in the lobby's map and the input
\* provider's, which has no others.
Manned(n) ==
  /\ DOMAIN owner = 1..n
  /\ \A i \in 1..n :
       /\ owner[i] = members[i]
       /\ members[i] \in DOMAIN clientToEntity /\ clientToEntity[members[i]] = i

\* How many clients have been served.
Served == Len(members) - Len(toServe)

SteadyInv ==
  steady /\ main # "stopped" =>
    /\ Roll
    /\ net # "record"
    /\ game \in {"off", "begin"} =>
         Manned(0) /\ DOMAIN ships = {} /\ nextEntity = 1 /\ made = 0
    /\ game = "create" =>
         /\ toServe \in Seq(Clients) /\ Len(toServe) <= Len(members)
         /\ \A i \in DOMAIN toServe : toServe[i] = members[Served + i]
         /\ Manned(Served)
         /\ \/ made = 0 /\ nextEntity = Served + 1 /\ DOMAIN ships = 1..Served
            \/ /\ made = Served + 1 /\ nextEntity = Served + 2 /\ toServe # <<>>
               /\ DOMAIN ships = 1..(Served + 1)
    /\ game \notin {"off", "begin", "create"} =>
         /\ Manned(Len(members))
         /\ DOMAIN ships \subseteq 1..Len(members)
    /\ game = "deal" => DOMAIN ships = {} /\ nextEntity = 1

\* Who joins is listed once, and who leaves is off the list.
LEMMA RollStep ==
  ASSUME Roll, NEW c \in Clients,
         \/ c \notin Members /\ members' = Append(members, c)
         \/ ForgetClient(c)
  PROVE  Roll'
<1>1. CASE c \notin Members /\ members' = Append(members, c)
  BY <1>1 DEF Roll, Members, ToSet
<1>2. CASE c \notin Members /\ UNCHANGED members
  BY <1>2 DEF Roll
<1>3. ASSUME NEW i \in DOMAIN members, members' = RemoveAt(members, i)
      PROVE  Roll'
  <2>1. /\ members' \in Seq(Clients)
        /\ Len(members') = Len(members) - 1
        /\ \A j \in 1..(Len(members) - 1) :
             members'[j] = members[IF j < i THEN j ELSE j + 1]
    BY <1>3, RemoveAtProperties DEF Roll
  <2>2. ASSUME NEW j \in DOMAIN members', NEW k \in DOMAIN members', members'[j] = members'[k]
        PROVE  j = k
    <3>1. j \in 1..(Len(members) - 1) /\ k \in 1..(Len(members) - 1) /\ Len(members) \in Nat
      BY <2>1 DEF Roll
    <3> DEFINE was(n) == IF n < i THEN n ELSE n + 1
    <3>2. was(j) \in DOMAIN members /\ was(k) \in DOMAIN members
      BY <3>1 DEF Roll
    <3>3. members[was(j)] = members[was(k)]
      BY <2>1, <2>2, <3>1
    <3>4. was(j) = was(k)
      BY <3>2, <3>3 DEF Roll
    <3> QED BY <3>1, <3>4
  <2> QED BY <2>1, <2>2 DEF Roll
<1> QED BY <1>1, <1>2, <1>3 DEF ForgetClient
\* Steps that leave the ships, their maps and the members alone.
LEMMA SteadyStutter ==
  ASSUME SteadyInv, steady' => steady, main' # "stopped" => main # "stopped", net' # "record",
         UNCHANGED <<world, members, made, toServe, game>>
  PROVE  SteadyInv'
  BY DEF SteadyInv, Roll, Manned, Served, world

\* While ships are steady only clients leave that have none.
LEMMA ForgettingStep ==
  ASSUME GameShape, SteadyInv, NEW c \in Clients, ForgetClient(c), main # "stopped", net' = net,
         steady' = (steady /\ (c \notin Members \/ game \in {"off", "begin"})),
         UNCHANGED <<owner, ships, nextEntity, made, toServe, game>>
  PROVE  SteadyInv'
<1> SUFFICES ASSUME steady'
             PROVE  SteadyInv'
  BY DEF SteadyInv
<1>1. steady
  OBVIOUS
<1>2. Roll'
  BY <1>1, RollStep DEF SteadyInv
<1>3. CASE game \in {"off", "begin"}
  <2>1. Manned(0)'
    BY <1>1, <1>3 DEF SteadyInv, Manned
  <2> QED BY <1>1, <1>2, <1>3, <2>1 DEF SteadyInv
<1>4. CASE game \notin {"off", "begin"}
  <2>1. c \notin Members
    BY <1>1, <1>4
  <2>2. UNCHANGED members
    BY <2>1 DEF ForgetClient, Members, ToSet
  <2>3. \A i \in DOMAIN members : members[i] # c
    BY <2>1 DEF Members, ToSet
  <2>4. ASSUME NEW n \in 0..Len(members), Manned(n)
        PROVE  Manned(n)'
    BY <1>1, <2>2, <2>3, <2>4 DEF SteadyInv, Roll, Manned, ForgetClient, Without, Restrict
  <2>5. Len(members) \in Nat /\ Served' = Served
    BY <1>1, <2>2 DEF SteadyInv, Roll, Served
  <2>6. game = "create" => Served \in 0..Len(members)
    BY <1>1, <2>5 DEF SteadyInv, Served
  <2>7. /\ game = "create" => Manned(Served)'
        /\ game # "create" => Manned(Len(members))'
    <3>1. PICK n \in 0..Len(members) : n = IF game = "create" THEN Served ELSE Len(members)
      BY <2>5, <2>6
    <3>2. Manned(n)
      BY <1>1, <1>4, <3>1 DEF SteadyInv, Manned
    <3>3. Manned(n)'
      BY <2>4, <3>2
    <3> QED BY <2>2, <2>5, <3>1, <3>3 DEF Manned
  <2>8. CASE game = "create"
    <3>1. /\ toServe' \in Seq(Clients) /\ Len(toServe') <= Len(members')
          /\ \A i \in DOMAIN toServe' : toServe'[i] = members'[Served' + i]
      BY <1>1, <2>2, <2>5, <2>8 DEF SteadyInv
    <3>2. \/ made' = 0 /\ nextEntity' = Served' + 1 /\ DOMAIN ships' = 1..Served'
          \/ /\ made' = Served' + 1 /\ nextEntity' = Served' + 2 /\ toServe' # <<>>
             /\ DOMAIN ships' = 1..(Served' + 1)
      BY <1>1, <2>5, <2>8 DEF SteadyInv
    <3> HIDE DEF Served
    <3>3. net' # "record" /\ game' = "create" /\ Manned(Served)'
      BY <1>1, <2>7, <2>8 DEF SteadyInv
    <3> QED BY <1>2, <3>1, <3>2, <3>3 DEF SteadyInv
  <2>9. CASE game # "create"
    BY <1>1, <1>2, <1>4, <2>2, <2>7, <2>9 DEF SteadyInv
  <2> QED BY <2>8, <2>9
<1> QED BY <1>3, <1>4

\* A ship recorded for the next client mans one more.
LEMMA RecordingStep ==
  ASSUME SteadyInv, steady, main # "stopped", RecordShip
  PROVE  SteadyInv'
<1>1. /\ Roll /\ toServe \in Seq(Clients) /\ toServe # <<>>
      /\ Len(toServe) <= Len(members) /\ Manned(Served)
      /\ made = Served + 1 /\ nextEntity = Served + 2 /\ DOMAIN ships = 1..(Served + 1)
      /\ \A i \in DOMAIN toServe : toServe[i] = members[Served + i]
  BY DEF SteadyInv, RecordShip
<1>2. /\ Len(members) \in Nat /\ Len(toServe) \in Nat \ {0}
      /\ Served \in Nat /\ Served + 1 \in 1..Len(members)
  BY <1>1 DEF Served, Roll
<1>3. PICK n : n = Served + 1
  OBVIOUS
<1>4. /\ n \in 1..Len(members) /\ made = n /\ nextEntity = n + 1 /\ DOMAIN ships = 1..n
      /\ Served = n - 1 /\ Head(toServe) = members[n]
  BY <1>1, <1>2, <1>3
<1>5. /\ toServe' \in Seq(Clients) /\ Len(toServe') = Len(toServe) - 1
      /\ \A i \in 1..(Len(toServe) - 1) : toServe'[i] = toServe[i + 1]
  BY <1>1, <1>2 DEF RecordShip
<1>6. /\ UNCHANGED <<members, steady, ships, nextEntity, net, game, main>>
      /\ game = "create" /\ made' = 0
  BY DEF RecordShip, pilots
<1>7. Served' = n
  BY <1>2, <1>4, <1>5, <1>6 DEF Served
<1>8. Manned(n)'
  <2>1. DOMAIN owner' = 1..n
    BY <1>1, <1>4 DEF RecordShip, With, Manned
  <2>2. ASSUME NEW i \in 1..n
        PROVE  /\ owner'[i] = members[i]
               /\ members[i] \in DOMAIN clientToEntity' /\ clientToEntity'[members[i]] = i
    <3>1. i = n \/ i \in 1..(n - 1)
      BY <1>4
    <3>2. i \in DOMAIN members /\ n \in DOMAIN members
      BY <1>1, <1>4 DEF Roll
    <3>3. i # n => members[i] # members[n]
      BY <1>1, <3>2 DEF Roll
    <3>4. i # n => /\ owner[i] = members[i] /\ i \in DOMAIN owner
                   /\ members[i] \in DOMAIN clientToEntity /\ clientToEntity[members[i]] = i
      BY <1>1, <1>4, <3>1 DEF Manned
    <3> QED BY <1>4, <3>3, <3>4 DEF RecordShip, With
  <2> QED BY <1>6, <2>1, <2>2 DEF Manned
<1>9. \A i \in DOMAIN toServe' : toServe'[i] = members[n + i]
  <2>1. ASSUME NEW i \in 1..(Len(toServe) - 1)
        PROVE  toServe[i + 1] = members[n + i]
    BY <1>1, <1>2, <1>4
  <2>2. DOMAIN toServe' = 1..(Len(toServe) - 1)
    BY <1>2, <1>5
  <2> QED BY <1>5, <2>1, <2>2
<1>10. Roll' /\ Manned(Served)'
  BY <1>1, <1>6, <1>7, <1>8 DEF Roll, Manned
<1> QED
  BY <1>1, <1>2, <1>4, <1>5, <1>6, <1>7, <1>9, <1>10 DEF SteadyInv
\* What the game thread does once everybody has a ship, or before anybody has.
LEMMA SteadyLoop ==
  ASSUME GameShape, SteadyInv, steady, main # "stopped", game \notin {"off", "begin", "create"},
         UNCHANGED <<members, steady, clientToEntity, owner, main, net>>,
         game' \notin {"off", "begin", "create"},
         \/ DOMAIN ships' \subseteq DOMAIN ships /\ game' # "deal"
         \/ DOMAIN ships' = {} /\ nextEntity' = 1
         \/ DOMAIN ships' \subseteq 1..Len(members) /\ game' # "deal"
  PROVE  SteadyInv'
<1>1. Roll' /\ net' # "record"
  BY DEF SteadyInv, Roll
<1>2. Manned(Len(members))'
  BY DEF SteadyInv, Manned
<1>3. DOMAIN ships' \subseteq 1..Len(members')
  BY DEF SteadyInv
<1> QED BY <1>1, <1>2, <1>3 DEF SteadyInv

LEMMA SteadyStep == GameShape /\ SteadyInv /\ [Next]_vars => SteadyInv'
<1> SUFFICES ASSUME GameShape, SteadyInv, [Next]_vars, steady', main' # "stopped"
             PROVE  SteadyInv'
  BY DEF SteadyInv
<1> USE LobbyConstants DEF queues, match
<1>1. CASE MainThread
  <2>1. CASE StartNetworkThread \/ Stop
    BY <2>1, SteadyStutter DEF StartNetworkThread, Stop, pilots, GameShape, SteadyInv
  <2>2. CASE StartGameThread
    BY <2>2 DEF StartGameThread, GameShape, SteadyInv, Roll, Manned, pilots, world
  <2>3. CASE Clear
    BY <2>3 DEF Clear
  <2>4. ASSUME NEW c \in Clients, NEW v \in Moves, EnqueueWhoAmI(c) \/ EnqueueEvent(c, v)
        PROVE  SteadyInv'
    <3>1. net' # "record"
      BY <2>4 DEF EnqueueWhoAmI, EnqueueEvent, SteadyInv, pilots
    <3> QED BY <2>4, <3>1, SteadyStutter DEF EnqueueWhoAmI, EnqueueEvent, pilots
  <2>5. ASSUME NEW c \in Clients, Join(c)
        PROVE  SteadyInv'
    <3>1. Roll' /\ game \in {"off", "begin"}
      BY <2>5, RollStep DEF Join, SteadyInv
    <3>2. Manned(0)'
      <4>1. steady /\ main # "stopped" /\ UNCHANGED <<owner, clientToEntity>>
        BY <2>5 DEF Join, world
      <4>2. Manned(0)
        BY <3>1, <4>1 DEF SteadyInv
      <4> QED BY <4>1, <4>2 DEF Manned
    <3> QED BY <2>5, <3>1, <3>2 DEF Join, SteadyInv, world
  <2>6. ASSUME NEW c \in Clients, LeaveLobby(c)
        PROVE  SteadyInv'
    <3>1. main # "stopped"
      BY <2>6 DEF LeaveLobby
    <3>2. CASE running
      BY <2>6, <3>1, <3>2, ForgettingStep DEF LeaveLobby, GameShape
    <3>3. CASE ~running
      <4>1. net' # "record"
        BY <2>6, <3>1, <3>3 DEF LeaveLobby, SteadyInv
      <4> QED BY <2>6, <3>1, <3>3, <4>1, SteadyStutter DEF LeaveLobby, world
    <3> QED BY <3>2, <3>3
  <2> QED BY <1>1, <2>1, <2>2, <2>3, <2>4, <2>5, <2>6 DEF MainThread
<1>2. CASE NetworkThread
  <2>1. CASE NetworkEnds \/ NetworkStops \/ TakeEvent \/ TakeWhoAmI \/ AnswerWhoAmI
    BY <2>1, SteadyStutter
       DEF NetworkEnds, NetworkStops, TakeEvent, TakeWhoAmI, AnswerWhoAmI, InNetworkLoop, pilots
  <2>2. CASE CreateForWhoAmI
    BY <2>2 DEF CreateForWhoAmI
  <2>3. CASE RecordForWhoAmI
    BY <2>3 DEF RecordForWhoAmI, SteadyInv, pilots
  <2> QED BY <1>2, <2>1, <2>2, <2>3 DEF NetworkThread
<1>3. CASE GameThread
  <2> DEFINE Others == UNCHANGED <<members, steady, clientToEntity, owner, main, net>>
  <2>1. CASE ListClients
    <3>1. Served' = 0
      BY <2>1 DEF ListClients, Served, SteadyInv, Roll, pilots
    <3>2. Roll' /\ Manned(Served)'
      BY <2>1, <3>1 DEF ListClients, SteadyInv, Roll, Manned, pilots, world
    <3>3. toServe' \in Seq(Clients) /\ Len(toServe') <= Len(members')
          /\ \A i \in DOMAIN toServe' : toServe'[i] = members'[Served' + i]
      BY <2>1, <3>1 DEF ListClients, SteadyInv, Roll, pilots
    <3>4. made' = 0 /\ nextEntity' = Served' + 1 /\ DOMAIN ships' = 1..Served'
      BY <2>1, <3>1 DEF ListClients, SteadyInv, pilots, world
    <3> QED BY <2>1, <3>2, <3>3, <3>4 DEF ListClients, SteadyInv, pilots
  <2>2. CASE CreateShip
    <3>1. UNCHANGED <<members, toServe, net, game, steady, clientToEntity, owner>>
          /\ game = "create" /\ toServe # <<>>
      BY <2>2 DEF CreateShip, pilots
    <3>2. steady /\ main # "stopped"
      BY <2>2, <3>1 DEF CreateShip
    <3>3. Served \in Nat /\ Served' = Served
      BY <3>1, <3>2 DEF Served, SteadyInv, Roll
    <3>4. made' = Served + 1 /\ nextEntity' = Served + 2 /\ DOMAIN ships' = 1..(Served + 1)
      BY <2>2, <3>1, <3>2, <3>3 DEF CreateShip, SteadyInv, With
    <3>5. Roll' /\ Manned(Served)'
      BY <3>1, <3>2, <3>3 DEF SteadyInv, Roll, Manned
    <3>6. toServe' \in Seq(Clients) /\ Len(toServe') <= Len(members')
          /\ \A i \in DOMAIN toServe' : toServe'[i] = members'[Served' + i]
      BY <3>1, <3>2, <3>3 DEF SteadyInv
    <3> QED BY <3>1, <3>2, <3>3, <3>4, <3>5, <3>6 DEF SteadyInv
  <2>3. CASE RecordShip
    BY <2>3, RecordingStep DEF RecordShip, pilots
  <2>4. CASE EnterLoop
    <3>1. UNCHANGED <<members, steady, net, main, made, ships, clientToEntity, owner>>
          /\ game = "create" /\ toServe = <<>> /\ made = 0 /\ game' = "events"
      BY <2>4 DEF EnterLoop, pilots, world
    <3>2. Served = Len(members) /\ Len(members) \in Nat
      BY <3>1 DEF Served, SteadyInv, Roll
    <3>3. Roll' /\ Manned(Len(members))' /\ DOMAIN ships' \subseteq 1..Len(members')
      BY <3>1, <3>2 DEF SteadyInv, Roll, Manned
    <3> QED BY <3>1, <3>3 DEF SteadyInv
  <2>5. CASE GameEnds \/ ProcessLobbyEvents \/ Wait
    <3>1. Others /\ steady /\ main # "stopped" /\ game \notin {"off", "begin", "create"}
          /\ UNCHANGED ships /\ game' \notin {"off", "begin", "create", "deal"}
      BY <2>5 DEF GameEnds, ProcessLobbyEvents, Wait, pilots, world
    <3> QED BY <3>1, SteadyLoop
  <2>6. CASE StartPlaying
    <3>1. Others /\ steady /\ main # "stopped" /\ game \notin {"off", "begin", "create"}
          /\ UNCHANGED ships /\ game' \notin {"off", "begin", "create", "deal"}
      BY <2>6 DEF StartPlaying, pilots
    <3> QED BY <3>1, SteadyLoop
  <2>7. ASSUME NEW lost \in SUBSET DOMAIN ships, NEW points, NEW reached \in BOOLEAN,
               Play(lost, points, reached)
        PROVE  SteadyInv'
    <3>1. Others /\ steady /\ main # "stopped" /\ game \notin {"off", "begin", "create"}
          /\ DOMAIN ships' \subseteq DOMAIN ships /\ game' \notin {"off", "begin", "create", "deal"}
      BY <2>7 DEF Play, pilots
    <3> QED BY <3>1, SteadyLoop
  <2>8. CASE ClearLevel
    <3>1. Others /\ steady /\ main # "stopped" /\ game \notin {"off", "begin", "create"}
          /\ game' \notin {"off", "begin", "create"}
          /\ \/ DOMAIN ships' = {} /\ nextEntity' = 1
             \/ UNCHANGED ships /\ game' # "deal"
      <4>1. CASE HasNextMap
        <5>1. ships' = <<>> /\ nextEntity' = 1 /\ game' = "deal"
          BY <2>8, <4>1 DEF ClearLevel
        <5>2. DOMAIN ships' = {}
          BY <5>1
        <5> QED BY <2>8, <5>1, <5>2 DEF ClearLevel, pilots
      <4>2. CASE ~HasNextMap
        BY <2>8, <4>2 DEF ClearLevel, pilots
      <4> QED BY <4>1, <4>2
    <3> QED BY <3>1, SteadyLoop
  <2>9. CASE DealShips
    <3>1. Others /\ steady /\ main # "stopped" /\ game = "deal"
          /\ game' \notin {"off", "begin", "create", "deal"}
      BY <2>9 DEF DealShips, pilots
    <3>2. DOMAIN members = 1..Len(members) /\ DOMAIN ships = {} /\ nextEntity = 1
      BY <3>1 DEF SteadyInv, Roll
    <3>3. DOMAIN ships' \subseteq 1..Len(members)
      BY <2>9, <3>2 DEF DealShips, FirstShip
    <3> QED BY <3>1, <3>3, SteadyLoop
  <2> QED BY <1>3, <2>1, <2>2, <2>3, <2>4, <2>5, <2>6, <2>7, <2>8, <2>9 DEF GameThread
<1>4. ASSUME NEW c \in Clients, DropClient(c)
      PROVE  SteadyInv'
  <2>1. main # "stopped" /\ steady
    BY <1>4 DEF DropClient
  <2> QED BY <1>4, <2>1, ForgettingStep DEF DropClient
<1>5. CASE UNCHANGED vars
  <2>1. main # "stopped" /\ steady /\ net' # "record"
    BY <1>5 DEF vars, pilots, SteadyInv
  <2> QED BY <1>5, <2>1, SteadyStutter DEF vars, pilots
<1> QED BY <1>1, <1>2, <1>3, <1>4, <1>5 DEF Next
-----------------------------------------------------------------------------
(* The end of a game.                                                       *)

\* The scores saved are those of the ships that are left.
EndInv ==
  state = "end" /\ steady /\ main # "stopped" =>
    \A i \in DOMAIN members \cap DOMAIN ships :
      members[i] \in DOMAIN scores /\ scores[members[i]] = ships[i]

LEMMA EndStep == GameShape /\ SteadyInv /\ EndInv /\ [Next]_vars => EndInv'
<1> SUFFICES ASSUME GameShape, SteadyInv, EndInv, [Next]_vars,
                    state' = "end", steady', main' # "stopped"
             PROVE  EndInv'
  BY DEF EndInv
<1> USE LobbyConstants DEF queues
<1>1. CASE UNCHANGED <<state, steady, members, ships, scores>> /\ main # "stopped"
  BY <1>1 DEF EndInv
<1>2. CASE MainThread
  <2>1. CASE StartNetworkThread \/ StartGameThread \/ Stop
    BY <1>1, <2>1 DEF StartNetworkThread, StartGameThread, Stop, pilots, world, match
  <2>2. CASE Clear
    BY <2>2 DEF Clear
  <2>3. ASSUME NEW c \in Clients, NEW v \in Moves, EnqueueWhoAmI(c) \/ EnqueueEvent(c, v)
        PROVE  EndInv'
    BY <1>1, <2>3 DEF EnqueueWhoAmI, EnqueueEvent, pilots, world, match
  <2>4. ASSUME NEW c \in Clients, Join(c)
        PROVE  EndInv'
    BY <2>4 DEF Join, GameShape, match
  <2>5. ASSUME NEW c \in Clients, LeaveLobby(c)
        PROVE  EndInv'
    <3>1. main # "stopped" /\ UNCHANGED <<state, ships, scores>>
      BY <2>5 DEF LeaveLobby, match
    <3>2. CASE running
      <4>1. c \notin Members /\ steady
        BY <2>5, <3>1, <3>2 DEF LeaveLobby, GameShape
      <4>2. UNCHANGED members
        BY <2>5, <3>2, <4>1 DEF LeaveLobby, ForgetClient, Members, ToSet
      <4> QED BY <3>1, <4>1, <4>2 DEF EndInv
    <3>3. CASE ~running
      BY <1>1, <2>5, <3>1, <3>3 DEF LeaveLobby
    <3> QED BY <3>2, <3>3
  <2> QED BY <1>2, <2>1, <2>2, <2>3, <2>4, <2>5 DEF MainThread
<1>3. CASE NetworkThread
  <2>1. CASE NetworkEnds \/ NetworkStops \/ TakeEvent \/ TakeWhoAmI \/ AnswerWhoAmI
             \/ RecordForWhoAmI
    BY <1>1, <2>1 DEF NetworkEnds, NetworkStops, TakeEvent, TakeWhoAmI, AnswerWhoAmI,
                      RecordForWhoAmI, InNetworkLoop, pilots, world, match
  <2>2. CASE CreateForWhoAmI
    BY <2>2 DEF CreateForWhoAmI
  <2> QED BY <1>3, <2>1, <2>2 DEF NetworkThread
<1>4. CASE GameThread
  <2>1. CASE ListClients \/ RecordShip \/ EnterLoop \/ GameEnds \/ ProcessLobbyEvents \/ Wait
    BY <1>1, <2>1 DEF ListClients, RecordShip, EnterLoop, GameEnds, ProcessLobbyEvents, Wait,
                      pilots, world, match
  <2>2. CASE CreateShip
    BY <2>2 DEF CreateShip, GameShape, match
  <2>3. CASE StartPlaying
    BY <2>3 DEF StartPlaying
  <2>4. ASSUME NEW lost \in SUBSET DOMAIN ships, NEW points, NEW reached \in BOOLEAN,
               Play(lost, points, reached)
        PROVE  EndInv'
    <3>1. /\ UNCHANGED <<members, steady, main, clientToEntity>> /\ steady /\ main # "stopped"
          /\ game \notin {"off", "begin", "create"} /\ DOMAIN ships' \subseteq DOMAIN ships
      BY <2>4 DEF Play, pilots
    <3>2. scores' = FinalScores(ships')
      BY <2>4 DEF Play, Verdict
    <3>3. ASSUME NEW i \in DOMAIN members \cap DOMAIN ships'
          PROVE  members[i] \in DOMAIN scores' /\ scores'[members[i]] = ships'[i]
      <4>1. members[i] \in DOMAIN clientToEntity /\ clientToEntity[members[i]] = i
            /\ members[i] \in Members
        BY <3>1 DEF SteadyInv, Manned, Roll, Members, ToSet
      <4> QED BY <3>2, <4>1 DEF FinalScores
    <3> QED BY <3>1, <3>3 DEF EndInv
  <2>5. CASE ClearLevel
    BY <2>5 DEF ClearLevel, GameShape, HasNextMap
  <2>6. CASE DealShips
    BY <2>6 DEF DealShips
  <2> QED BY <1>4, <2>1, <2>2, <2>3, <2>4, <2>5, <2>6 DEF GameThread
<1>5. ASSUME NEW c \in Clients, DropClient(c)
      PROVE  EndInv'
  BY <1>5 DEF DropClient, GameShape, match
<1>6. CASE UNCHANGED vars
  BY <1>1, <1>6 DEF vars, pilots, world, match
<1> QED BY <1>2, <1>3, <1>4, <1>5, <1>6 DEF Next

-----------------------------------------------------------------------------
(* Inputs on their way.                                                     *)

\* A queued packet of a client that moves it.
IsInput(p, c) == p.type = "EVENT" /\ p.from = c

InputsOf(c) == {i \in DOMAIN incoming : IsInput(incoming[i], c)}

Packet == [type : {"EVENT", "WHOAMI"}, from : Clients, move : Moves, no : Nat]
Event  == [from : Clients, move : Moves]

InputTypes ==
  /\ incoming \in Seq(Packet)
  /\ events \in Seq(Event)
  /\ axis \in [Clients -> Moves]
  /\ lastMove \in [Clients -> Moves]

\* The last input of a client is the last one queued for the network thread, or with
\* none there the last one queued for the game thread, or what it has applied.
LastIsOnTheWay(c) ==
  \/ \E i \in InputsOf(c) : lastMove[c] = incoming[i].move /\ \A j \in InputsOf(c) : j <= i
  \/ InputsOf(c) = {} /\ AfterEvents(c, lastMove[c])

InputInv == InputTypes /\ \A c \in Clients : LastIsOnTheWay(c)

LEMMA InputStutter ==
  ASSUME InputInv, UNCHANGED <<incoming, events, axis, lastMove>>
  PROVE  InputInv'
  BY DEF InputInv, InputTypes, LastIsOnTheWay, InputsOf, IsInput, AfterEvents, EventsOf

\* A packet queued behind the others is the last of its client when it is an input.
LEMMA EnqueueStep ==
  ASSUME InputInv, NEW p \in Packet, incoming' = Append(incoming, p), UNCHANGED <<events, axis>>,
         lastMove' = IF p.type = "EVENT" THEN [lastMove EXCEPT ![p.from] = p.move] ELSE lastMove
  PROVE  InputInv'
<1> DEFINE n == Len(incoming)
<1>1. /\ n \in Nat /\ incoming' \in Seq(Packet) /\ Len(incoming') = n + 1
      /\ \A i \in 1..n : incoming'[i] = incoming[i]
      /\ incoming'[n + 1] = p
  BY DEF InputInv, InputTypes
<1>2. InputTypes'
  BY <1>1 DEF InputInv, InputTypes, Packet
<1>3. ASSUME NEW c \in Clients
      PROVE  InputsOf(c)' = InputsOf(c) \cup {i \in {n + 1} : IsInput(p, c)}
  BY <1>1 DEF InputsOf, InputInv, InputTypes
<1> HIDE DEF n
<1>4. ASSUME NEW c \in Clients, IsInput(p, c)
      PROVE  LastIsOnTheWay(c)'
  <2>1. n + 1 \in InputsOf(c)' /\ \A j \in InputsOf(c)' : j <= n + 1
    BY <1>1, <1>3, <1>4 DEF InputsOf, InputInv, InputTypes, n
  <2>2. lastMove'[c] = incoming'[n + 1].move
    BY <1>1, <1>4 DEF IsInput, InputInv, InputTypes
  <2> QED BY <2>1, <2>2 DEF LastIsOnTheWay
<1>5. ASSUME NEW c \in Clients, ~IsInput(p, c)
      PROVE  LastIsOnTheWay(c)'
  <2>1. InputsOf(c)' = InputsOf(c) /\ lastMove'[c] = lastMove[c]
    BY <1>3, <1>5 DEF IsInput, InputInv, InputTypes
  <2>2. \A i \in InputsOf(c) : incoming'[i] = incoming[i]
    BY <1>1 DEF InputsOf, InputInv, InputTypes, n
  <2>3. CASE \E i \in InputsOf(c) : lastMove[c] = incoming[i].move /\ \A j \in InputsOf(c) : j <= i
    BY <2>1, <2>2, <2>3 DEF LastIsOnTheWay
  <2>4. CASE InputsOf(c) = {} /\ AfterEvents(c, lastMove[c])
    <3>1. \A v : AfterEvents(c, v) => (\/ EventsOf(c) = {} /\ v = axis[c]
                                      \/ \E i \in EventsOf(c) : v = events[i].move
                                                              /\ \A j \in EventsOf(c) : j <= i)
      BY DEF AfterEvents
    <3>2. EventsOf(c)' = EventsOf(c)
      BY DEF EventsOf
    <3>3. AfterEvents(c, lastMove[c])'
      BY <2>1, <2>4, <3>1, <3>2 DEF AfterEvents
    <3> QED BY <2>1, <2>4, <3>3 DEF LastIsOnTheWay
  <2> QED BY <2>3, <2>4 DEF LastIsOnTheWay, InputInv
<1> QED BY <1>2, <1>4, <1>5 DEF InputInv

\* A packet taken off the front leaves the others in their order, and an input goes
\* behind those that are with the game thread.
LEMMA TakeStep ==
  ASSUME InputInv, incoming # <<>>, incoming' = Tail(incoming), UNCHANGED <<axis, lastMove>>,
         events' = IF Head(incoming).type = "EVENT"
                   THEN Append(events, [from |-> Head(incoming).from, move |-> Head(incoming).move])
                   ELSE events
  PROVE  InputInv'
<1> DEFINE p == incoming[1]
<1>1. /\ Len(incoming) \in Nat \ {0} /\ incoming' \in Seq(Packet)
      /\ Len(incoming') = Len(incoming) - 1
      /\ \A i \in 1..(Len(incoming) - 1) : incoming'[i] = incoming[i + 1]
      /\ Head(incoming) = p /\ p \in Packet
  BY DEF InputInv, InputTypes
<1>2. /\ events' \in Seq(Event) /\ Len(events) \in Nat
      /\ \A i \in DOMAIN events : i \in DOMAIN events' /\ events'[i] = events[i]
      /\ p.type # "EVENT" => events' = events
      /\ p.type = "EVENT" => /\ DOMAIN events' = 1..(Len(events) + 1)
                             /\ events'[Len(events) + 1] = [from |-> p.from, move |-> p.move]
  <2> DEFINE e == [from |-> p.from, move |-> p.move]
  <2>1. e \in Event /\ events \in Seq(Event)
    BY <1>1 DEF InputInv, InputTypes, Packet, Event
  <2>2. events' = IF p.type = "EVENT" THEN Append(events, e) ELSE events
    BY <1>1
  <2> HIDE DEF e, p
  <2>3. CASE p.type = "EVENT"
    <3>1. /\ Append(events, e) \in Seq(Event) /\ Len(events) \in Nat
          /\ Len(Append(events, e)) = Len(events) + 1
          /\ \A i \in 1..Len(events) : Append(events, e)[i] = events[i]
          /\ Append(events, e)[Len(events) + 1] = e
      BY <2>1
    <3>2. DOMAIN events = 1..Len(events) /\ DOMAIN events' = 1..(Len(events) + 1)
      BY <2>1, <2>2, <2>3, <3>1
    <3> QED BY <2>2, <2>3, <3>1, <3>2 DEF e
  <2>4. CASE p.type # "EVENT"
    BY <2>1, <2>2, <2>4
  <2> QED BY <2>3, <2>4
<1>3. InputTypes'
  BY <1>1, <1>2 DEF InputInv, InputTypes
<1> HIDE DEF p
<1>4. ASSUME NEW c \in Clients
      PROVE  LastIsOnTheWay(c)'
  <2>1. InputsOf(c)' = {i \in 1..(Len(incoming) - 1) : IsInput(incoming[i + 1], c)}
    BY <1>1 DEF InputsOf
  <2>2. InputsOf(c) = {i \in 1..Len(incoming) : IsInput(incoming[i], c)}
    BY DEF InputsOf, InputInv, InputTypes
  <2>3. \A i \in InputsOf(c)' : i + 1 \in InputsOf(c)
    BY <1>1, <2>1, <2>2
  <2>4. CASE \E i \in InputsOf(c) : i # 1 /\ lastMove[c] = incoming[i].move
                                   /\ \A j \in InputsOf(c) : j <= i
    <3>1. PICK i \in InputsOf(c) : i # 1 /\ lastMove[c] = incoming[i].move
                                  /\ \A j \in InputsOf(c) : j <= i
      BY <2>4
    <3>2. i - 1 \in InputsOf(c)' /\ incoming'[i - 1] = incoming[i]
      BY <1>1, <2>1, <2>2, <3>1
    <3>3. \A j \in InputsOf(c)' : j <= i - 1
      BY <1>1, <2>1, <2>2, <2>3, <3>1
    <3> QED BY <3>1, <3>2, <3>3 DEF LastIsOnTheWay
  <2>5. CASE 1 \in InputsOf(c) /\ lastMove[c] = incoming[1].move /\ \A j \in InputsOf(c) : j <= 1
    <3>1. InputsOf(c)' = {}
      BY <1>1, <2>1, <2>2, <2>3, <2>5
    <3>2. p.type = "EVENT" /\ p.from = c /\ lastMove[c] = p.move
      BY <2>5 DEF InputsOf, IsInput, p
    <3>3. Len(events) + 1 \in EventsOf(c)' /\ \A j \in EventsOf(c)' : j <= Len(events) + 1
      BY <1>2, <3>2 DEF EventsOf
    <3>4. lastMove'[c] = events'[Len(events) + 1].move
      BY <1>2, <3>2
    <3> QED BY <3>1, <3>3, <3>4 DEF LastIsOnTheWay, AfterEvents
  <2>6. CASE InputsOf(c) = {} /\ AfterEvents(c, lastMove[c])
    <3>1. InputsOf(c)' = {}
      BY <2>3, <2>6
    <3>2. ~(p.type = "EVENT" /\ p.from = c)
      BY <1>1, <2>2, <2>6 DEF IsInput, p
    <3>3. EventsOf(c)' = EventsOf(c)
      BY <1>2, <3>2 DEF EventsOf, InputInv, InputTypes
    <3>4. \A i \in EventsOf(c) : events'[i] = events[i]
      BY <1>2 DEF EventsOf
    <3> QED BY <2>6, <3>1, <3>3, <3>4 DEF LastIsOnTheWay, AfterEvents
  <2> QED BY <2>4, <2>5, <2>6 DEF InputInv, LastIsOnTheWay
<1> QED BY <1>3, <1>4 DEF InputInv

\* Applying what is queued leaves the last input applied.
LEMMA ApplyStep ==
  ASSUME InputInv, ProcessLobbyEvents
  PROVE  InputInv'
<1>1. /\ UNCHANGED <<incoming, lastMove>> /\ events' = <<>>
      /\ axis' \in [Clients -> Moves] /\ \A c \in Clients : AfterEvents(c, axis'[c])
  BY DEF ProcessLobbyEvents
<1>2. InputTypes'
  BY <1>1 DEF InputInv, InputTypes
<1>3. ASSUME NEW c \in Clients
      PROVE  LastIsOnTheWay(c)'
  <2>1. UNCHANGED InputsOf(c)
    BY <1>1 DEF InputsOf
  <2>2. CASE InputsOf(c) # {}
    BY <1>1, <2>1, <2>2 DEF LastIsOnTheWay, InputInv
  <2>3. CASE InputsOf(c) = {}
    <3>1. AfterEvents(c, lastMove[c]) /\ AfterEvents(c, axis'[c])
      BY <1>1, <2>3 DEF LastIsOnTheWay, InputInv
    <3>2. \A i, j \in EventsOf(c) : i <= j /\ j <= i => i = j
      BY DEF EventsOf, InputInv, InputTypes
    <3>3. axis'[c] = lastMove[c]
      BY <3>1, <3>2 DEF AfterEvents
    <3>4. EventsOf(c)' = {}
      BY <1>1 DEF EventsOf
    <3> QED BY <1>1, <2>1, <2>3, <3>3, <3>4 DEF LastIsOnTheWay, AfterEvents
  <2> QED BY <2>2, <2>3
<1> QED BY <1>2, <1>3 DEF InputInv

LEMMA InputStep == GameShape /\ InputInv /\ [Next]_vars => InputInv'
<1> SUFFICES ASSUME GameShape, InputInv, [Next]_vars
             PROVE  InputInv'
  OBVIOUS
<1>1. CASE MainThread
  <2>1. CASE StartNetworkThread \/ StartGameThread \/ Stop \/ Clear
    BY <2>1, InputStutter DEF StartNetworkThread, StartGameThread, Stop, Clear, queues
  <2>2. ASSUME NEW c \in Clients, Join(c) \/ LeaveLobby(c)
        PROVE  InputInv'
    BY <2>2, InputStutter DEF Join, LeaveLobby, queues
  <2>3. ASSUME NEW c \in Clients, EnqueueWhoAmI(c)
        PROVE  InputInv'
    <3>1. [type |-> "WHOAMI", from |-> c, move |-> Still, no |-> stimuli] \in Packet
      BY LobbyConstants DEF Packet, GameShape
    <3> QED BY <2>3, <3>1, EnqueueStep DEF EnqueueWhoAmI
  <2>4. ASSUME NEW c \in Clients, NEW v \in Moves, EnqueueEvent(c, v)
        PROVE  InputInv'
    <3>1. [type |-> "EVENT", from |-> c, move |-> v, no |-> 0] \in Packet
      BY DEF Packet
    <3> QED BY <2>4, <3>1, EnqueueStep DEF EnqueueEvent
  <2> QED BY <1>1, <2>1, <2>2, <2>3, <2>4 DEF MainThread
<1>2. CASE NetworkThread
  <2>1. CASE NetworkEnds \/ NetworkStops \/ AnswerWhoAmI \/ CreateForWhoAmI \/ RecordForWhoAmI
    BY <2>1, InputStutter
       DEF NetworkEnds, NetworkStops, AnswerWhoAmI, CreateForWhoAmI, RecordForWhoAmI, queues
  <2>2. CASE TakeEvent
    BY <2>2, TakeStep DEF TakeEvent
  <2>3. CASE TakeWhoAmI
    BY <2>3, TakeStep DEF TakeWhoAmI
  <2> QED BY <1>2, <2>1, <2>2, <2>3 DEF NetworkThread
<1>3. CASE ProcessLobbyEvents
  BY <1>3, ApplyStep
<1>4. CASE GameThread /\ ~ProcessLobbyEvents
  BY <1>4, InputStutter
     DEF GameThread, ListClients, CreateShip, RecordShip, EnterLoop, GameEnds, StartPlaying, Wait,
         ClearLevel, DealShips, Play, queues
<1>5. ASSUME NEW c \in Clients, DropClient(c)
      PROVE  InputInv'
  BY <1>5, InputStutter DEF DropClient, queues
<1>6. CASE UNCHANGED vars
  BY <1>6, InputStutter DEF vars, queues
<1> QED BY <1>1, <1>2, <1>3, <1>4, <1>5, <1>6 DEF Next

-----------------------------------------------------------------------------
(* Results.                                                                 *)

LobbyInv == GameShape /\ OwnInv /\ SteadyInv /\ EndInv /\ InputInv

LEMMA LobbyInit == Init => LobbyInv
<1> SUFFICES ASSUME Init
             PROVE  LobbyInv
  OBVIOUS
<1>1. GameShape /\ OwnInv /\ EndInv
  BY LobbyConstants DEF Init, GameShape, OwnInv, OwnShips, FreshShips, EndInv
<1>2. Roll
  <2>1. CASE members = <<Creator>>
    BY <2>1, LobbyConstants DEF Roll
  <2>2. ASSUME NEW c \in Clients \ {Creator}, members = <<Creator, c>>
        PROVE  Roll
    BY <2>2, LobbyConstants DEF Roll
  <2> QED BY <2>1, <2>2 DEF Init
<1>3. SteadyInv
  BY <1>2 DEF Init, SteadyInv, Manned
<1>4. InputInv
  BY LobbyConstants DEF Init, InputInv, InputTypes, LastIsOnTheWay, InputsOf, AfterEvents, EventsOf
<1> QED BY <1>1, <1>3, <1>4 DEF LobbyInv

LEMMA LobbyCorrect == Spec => []LobbyInv
<1>1. LobbyInv /\ [Next]_vars => LobbyInv'
  BY ShapeStep, OwnStep, SteadyStep, EndStep, InputStep DEF LobbyInv
<1> QED BY LobbyInit, <1>1, PTL DEF Spec

\* On the first map the ship that Lobby::_clientToEntity has for a client is steered
\* by that client, although processWhoAmI and createPlayerEntities both make ships,
\* on two threads, without looking at each other.
THEOREM ShipsAreOwn == Spec => []OwnShips
<1>1. LobbyInv => OwnShips
  BY DEF LobbyInv, OwnInv, OwnShips, GameShape, FreshShips
<1> QED BY LobbyCorrect, <1>1, PTL

\* While nobody comes, leaves or asks too early, the i-th client has ship i on every
\* map, although a new map renews the registry and neither map of ships.
THEOREM ShipsAreSteady == Spec => []SteadyShips
<1>1. SteadyInv => SteadyShips
  <2> SUFFICES ASSUME SteadyInv, steady, main # "stopped", game \notin {"off", "begin", "create"}
               PROVE  SteadyShips
    BY DEF SteadyShips
  <2>1. Roll /\ Manned(Len(members)) /\ DOMAIN ships \subseteq 1..Len(members)
    BY DEF SteadyInv
  <2>2. DOMAIN members = 1..Len(members)
    BY <2>1 DEF Roll
  <2>3. ASSUME NEW i \in DOMAIN members
        PROVE  SteeredBy(members[i]) = {i} \cap DOMAIN ships
    BY <2>1, <2>2 DEF SteeredBy, Manned, Roll
  <2> QED BY <2>1, <2>2, <2>3 DEF SteadyShips, Manned
<1>2. LobbyInv => SteadyInv
  BY DEF LobbyInv
<1> QED BY LobbyCorrect, <1>1, <1>2, PTL

\* A game is over when endGamePacket has announced it, once, and the scores it saved
\* are the steady players' own.
THEOREM EndsAreAnnounced == Spec => []GameEndIsAnnounced
<1>1. LobbyInv => GameEndIsAnnounced
  BY DEF LobbyInv, GameShape, EndInv, GameEndIsAnnounced
<1> QED BY LobbyCorrect, <1>1, PTL

\* When nothing of a client is queued any more the game thread has the last input it
\* sent: two queues and three threads lose none and keep their order.
THEOREM InputsAreApplied == Spec => []QuietInputsApplied
<1>1. LobbyInv => QuietInputsApplied
  <2> SUFFICES ASSUME InputInv, NEW c \in Clients,
                      ~ \E p \in ToSet(incoming) : p.type = "EVENT" /\ p.from = c,
                      ~ \E e \in ToSet(events) : e.from = c
               PROVE  axis[c] = lastMove[c]
    BY DEF LobbyInv, QuietInputsApplied
  <2>1. InputsOf(c) = {} /\ EventsOf(c) = {}
    BY DEF InputsOf, IsInput, EventsOf, ToSet
  <2> QED BY <2>1 DEF InputInv, LastIsOnTheWay, AfterEvents
<1> QED BY LobbyCorrect, <1>1, PTL

-----------------------------------------------------------------------------
(* Sets of numbers, and recursion over them.                                 *)

\* A set of numbers that holds 0 and with each number the next is Nat.
LEMMA NatSetInduction ==
  ASSUME NEW S \in SUBSET Nat, 0 \in S, \A n \in S : n + 1 \in S
  PROVE  S = Nat
<1> SUFFICES ASSUME S # Nat PROVE FALSE
  OBVIOUS
<1> DEFINE R == {p \in Nat \X Nat : p[1] < p[2]}
<1>1. IsWellFoundedOn(R, Nat)
  <2>1. R = OpToRel(<, Nat)
    BY DEF OpToRel
  <2> QED BY <2>1, NatLessThanWellFounded
<1>2. PICK x \in Nat \ S : \A y \in Nat \ S : <<y, x>> \notin R
  <2> HIDE DEF R
  <2> QED BY <1>1, WFMin
<1>3. \A y \in Nat : y < x => y \in S
  BY <1>2
<1>4. x # 0 /\ x - 1 \in Nat
  BY <1>2
<1> QED BY <1>2, <1>3, <1>4

\* A loop: a step taken for every number from 1 to N, from a.
Runs(f, N, a, step) == f = [n \in 0..N |-> IF n = 0 THEN a ELSE step[<<f[n - 1], n>>]]

\* A loop whose n-th step leads from the set before[n - 1] to the set before[n] can be run,
LEMMA LoopRuns ==
  ASSUME NEW N \in Nat, NEW I, NEW a \in I[0], NEW step,
         \A n \in 1..N : \A u \in I[n - 1] : step[<<u, n>>] \in I[n]
  PROVE  \E f : Runs(f, N, a, step) /\ \A n \in 0..N : f[n] \in I[n]
<1> DEFINE Good(f, m) == Runs(f, m, a, step) /\ \A n \in 0..m : f[n] \in I[n]
           P(m) == m <= N => \E f : Good(f, m)
           Q == {m \in Nat : P(m)}
<1>1. 0 \in Q
  <2> DEFINE f == [n \in 0..0 |-> a]
  <2>1. \A n \in 0..0 : n = 0 /\ f[n] = a
    OBVIOUS
  <2>2. Good(f, 0)
    BY <2>1 DEF Runs
  <2> HIDE DEF f, Good
  <2> QED BY <2>2
<1>2. ASSUME NEW m \in Q PROVE m + 1 \in Q
  <2> SUFFICES ASSUME m + 1 <= N PROVE P(m + 1)
    OBVIOUS
  <2>1. m \in Nat /\ m <= N
    OBVIOUS
  <2>2. PICK f : Good(f, m)
    BY <2>1
  <2> DEFINE g == [n \in 0..(m + 1) |-> IF n = m + 1 THEN step[<<f[m], m + 1>>] ELSE f[n]]
  <2>3. /\ \A n \in 0..m : g[n] = f[n]
        /\ g[m + 1] = step[<<f[m], m + 1>>]
    BY <2>1
  <2>4. \A n \in 0..(m + 1) : n \in 0..m \/ n = m + 1
    BY <2>1
  <2>5. g = [n \in 0..(m + 1) |-> g[n]]
    OBVIOUS
  <2> HIDE DEF g
  <2>6. ASSUME NEW n \in 0..(m + 1)
        PROVE  g[n] = (IF n = 0 THEN a ELSE step[<<g[n - 1], n>>]) /\ g[n] \in I[n]
    <3>1. CASE n \in 0..m
      <4>1. n = 0 \/ n - 1 \in 0..m
        BY <2>1, <3>1
      <4>2. f[n] = (IF n = 0 THEN a ELSE step[<<f[n - 1], n>>]) /\ f[n] \in I[n]
        BY <2>2, <3>1 DEF Runs
      <4> HIDE DEF Good, P, Q
      <4> QED BY <2>3, <3>1, <4>1, <4>2
    <3>2. CASE n = m + 1
      <4>1. n - 1 = m /\ n # 0 /\ m \in 0..m /\ n \in 1..N
        BY <2>1, <3>2
      <4>2. f[m] \in I[m]
        BY <2>2, <4>1
      <4> HIDE DEF Good, P, Q
      <4> QED BY <2>3, <3>2, <4>1, <4>2
    <3> QED BY <2>4, <3>1, <3>2
  <2>7. Good(g, m + 1)
    <3> HIDE DEF P, Q
    <3> QED BY <2>5, <2>6 DEF Runs
  <2> HIDE DEF Good
  <2> QED BY <2>7
<1>3. Q = Nat
  <2>1. Q \in SUBSET Nat
    OBVIOUS
  <2> HIDE DEF Q
  <2> QED BY <1>1, <1>2, <2>1, NatSetInduction
<1>4. \E f : Good(f, N)
  <2> HIDE DEF Good
  <2> QED BY <1>3
<1> QED BY <1>4

\* and ends in the last of them.
LEMMA LoopEnds ==
  ASSUME NEW N \in Nat, NEW I, NEW h, h[0] \in I[0],
         \A n \in 1..N : h[n - 1] \in I[n - 1] => h[n] \in I[n]
  PROVE  h[N] \in I[N]
<1> DEFINE Q == {n \in Nat : n <= N => h[n] \in I[n]}
<1>1. 0 \in Q
  OBVIOUS
<1>2. ASSUME NEW n \in Q PROVE n + 1 \in Q
  <2> SUFFICES ASSUME n + 1 <= N PROVE h[n + 1] \in I[n + 1]
    OBVIOUS
  <2>1. n + 1 \in 1..N /\ (n + 1) - 1 = n /\ h[n] \in I[n]
    OBVIOUS
  <2> HIDE DEF Q
  <2> QED BY <2>1
<1>3. Q = Nat
  <2>1. Q \in SUBSET Nat
    OBVIOUS
  <2> HIDE DEF Q
  <2> QED BY <1>1, <1>2, <2>1, NatSetInduction
<1> QED BY <1>3

\* A set of numbers that is not empty has a least.
LEMMA LeastOf ==
  ASSUME NEW S \in SUBSET Nat, S # {}
  PROVE  Min(S) \in S /\ \A y \in S : Min(S) <= y
<1> DEFINE R == {p \in Nat \X Nat : p[1] < p[2]}
<1>1. IsWellFoundedOn(R, Nat)
  <2>1. R = OpToRel(<, Nat)
    BY DEF OpToRel
  <2> QED BY <2>1, NatLessThanWellFounded
<1>2. PICK x \in S : \A y \in S : <<y, x>> \notin R
  <2> HIDE DEF R
  <2> QED BY <1>1, WFMin
<1>3. ASSUME NEW y \in S PROVE x <= y
  <2>1. x \in Nat /\ y \in Nat /\ ~ y < x
    BY <1>2
  <2> QED BY <2>1
<1> QED BY <1>3 DEF Min

\* The least and the greatest of two.
LEMMA LeastOfTwo ==
  ASSUME NEW a \in Int, NEW b \in Int
  PROVE  /\ Min({a, b}) = IF a <= b THEN a ELSE b
         /\ Max({a, b}) = IF a <= b THEN b ELSE a
         /\ Min({a}) = a
<1>1. Min({a, b}) = IF a <= b THEN a ELSE b
  BY DEF Min
<1>2. Max({a, b}) = IF a <= b THEN b ELSE a
  BY DEF Max
<1>3. Min({a}) = a
  BY DEF Min
<1> QED BY <1>1, <1>2, <1>3

\* Of two naturals both are naturals.
LEMMA LeastOfNats ==
  ASSUME NEW a \in Nat, NEW b \in Nat
  PROVE  Min({a, b}) \in Nat /\ Max({a, b}) \in Nat
<1>1. a \in Int /\ b \in Int
  OBVIOUS
<1> QED BY <1>1, LeastOfTwo

\* What the assumption says of the constants, one by one.
LEMMA BoundsAreNumbers ==
  /\ Span \in Nat /\ Margin \in Nat /\ Reload \in Nat /\ ShotLife \in Nat
  /\ Grace \in Nat /\ Grace # 0
<1>1. /\ Span \in {Span, Margin, Reload, ShotLife, MapLength, MaxIds}
      /\ Margin \in {Span, Margin, Reload, ShotLife, MapLength, MaxIds}
      /\ Reload \in {Span, Margin, Reload, ShotLife, MapLength, MaxIds}
      /\ ShotLife \in {Span, Margin, Reload, ShotLife, MapLength, MaxIds}
  OBVIOUS
<1> QED BY <1>1, WorldConstants

\* A function on 1..n as a sequence.
LEMMA AsSequence ==
  ASSUME NEW S, NEW n \in Nat, NEW f \in [1..n -> S]
  PROVE  /\ SubSeq(f, 1, n) \in Seq(S) /\ Len(SubSeq(f, 1, n)) = n
         /\ DOMAIN SubSeq(f, 1, n) = 1..n
         /\ \A i \in 1..n : SubSeq(f, 1, n)[i] = f[i]
<1>1. f \in Seq(S) /\ Len(f) = n
  OBVIOUS
<1> QED BY <1>1

-----------------------------------------------------------------------------
(* Worlds: what holds of every entity all through a frame.                   *)

\* Entity i of a world of n entities whose game zone is z.
Fits(e, i, n, z) ==
  /\ e \in Entity
  /\ e.contacts \in Seq(1..n)
  /\ e.kind = "player" => i \in Players /\ e.v \in -3..3
  /\ e.kind = "zone" <=> i = z
  /\ e.kind = "zone" => e.v \in 0..3
  /\ e.kind = "bonus" => e.hp >= 0

IsWorld(w, z) ==
  /\ w \in Seq(Entity) /\ z \in 1..Len(w)
  /\ \A i \in 1..Len(w) : Fits(w[i], i, Len(w), z)

\* What a system may make of an entity: neither players nor the zone go or come.
Alike(e, o) == e.kind = o.kind \/ (e.kind = "gone" /\ o.kind \notin {"player", "zone"})

ScoreKept(e, o) == o.kind = "player" => e.score = o.score /\ e.gains = o.gains

PlaceKept(e, o) ==
  /\ o.kind \in {"player", "zone"} => e.x = o.x
  /\ o.kind = "player" /\ o.dying # <<>> => e.dying # <<>>

HealthKept(e, o) == o.kind = "player" => e.hp = o.hp /\ e.since = o.since /\ e.hurt = o.hurt

Follows(u, w) ==
  /\ Len(w) <= Len(u)
  /\ \A i \in 1..Len(w) : Alike(u[i], w[i])
  /\ \A i \in 1..Len(u) : u[i].kind = "player" => i \in 1..Len(w)

ScoresKept(u, w) == \A i \in 1..Len(w) : ScoreKept(u[i], w[i])
PlacesKept(u, w) == \A i \in 1..Len(w) : PlaceKept(u[i], w[i])
HealthsKept(u, w) == \A i \in 1..Len(w) : HealthKept(u[i], w[i])

\* Each entity on its own.
LEMMA EachOnItsOwn ==
  ASSUME NEW w, NEW z, IsWorld(w, z), NEW f, f = [i \in 1..Len(w) |-> f[i]],
         \A i \in 1..Len(w) : Fits(f[i], i, Len(w), z) /\ Alike(f[i], w[i])
  PROVE  LET u == SubSeq(f, 1, Len(w))
         IN /\ IsWorld(u, z) /\ Follows(u, w) /\ Len(u) = Len(w)
            /\ \A i \in 1..Len(w) : u[i] = f[i]
            /\ (\A i \in 1..Len(w) : ScoreKept(f[i], w[i])) => ScoresKept(u, w)
            /\ (\A i \in 1..Len(w) : PlaceKept(f[i], w[i])) => PlacesKept(u, w)
            /\ (\A i \in 1..Len(w) : HealthKept(f[i], w[i])) => HealthsKept(u, w)
<1> DEFINE u == SubSeq(f, 1, Len(w))
<1>1. Len(w) \in Nat /\ z \in 1..Len(w)
  BY DEF IsWorld
<1>2. f \in [1..Len(w) -> Entity]
  BY DEF Fits
<1>3. u \in Seq(Entity) /\ Len(u) = Len(w) /\ \A i \in 1..Len(w) : u[i] = f[i]
  BY <1>1, <1>2, AsSequence
<1> HIDE DEF u
<1>4. IsWorld(u, z)
  BY <1>1, <1>3 DEF IsWorld
<1>5. Follows(u, w)
  BY <1>1, <1>3 DEF Follows
<1>6. /\ (\A i \in 1..Len(w) : ScoreKept(f[i], w[i])) => ScoresKept(u, w)
      /\ (\A i \in 1..Len(w) : PlaceKept(f[i], w[i])) => PlacesKept(u, w)
      /\ (\A i \in 1..Len(w) : HealthKept(f[i], w[i])) => HealthsKept(u, w)
  BY <1>3 DEF ScoresKept, PlacesKept, HealthsKept
<1> QED BY <1>3, <1>4, <1>5, <1>6 DEF u

\* Nothing of what the properties speak of has changed.
Steady(u, w, z) ==
  /\ IsWorld(u, z) /\ Follows(u, w)
  /\ ScoresKept(u, w) /\ PlacesKept(u, w) /\ HealthsKept(u, w)

Untouched(e, o, i, n, z) ==
  Fits(e, i, n, z) /\ Alike(e, o) /\ ScoreKept(e, o) /\ PlaceKept(e, o) /\ HealthKept(e, o)

\* Each entity on its own, and nothing changed of what the properties speak of.
LEMMA EachUntouched ==
  ASSUME NEW w, NEW z, IsWorld(w, z), NEW f, f = [i \in 1..Len(w) |-> f[i]],
         \A i \in 1..Len(w) : Untouched(f[i], w[i], i, Len(w), z)
  PROVE  /\ Steady(SubSeq(f, 1, Len(w)), w, z) /\ Len(SubSeq(f, 1, Len(w))) = Len(w)
         /\ \A i \in 1..Len(w) : SubSeq(f, 1, Len(w))[i] = f[i]
BY EachOnItsOwn DEF Untouched, Steady

\* What is known of an entity of a world.
LEMMA EntityAt ==
  ASSUME NEW w, NEW z, IsWorld(w, z)
  PROVE  /\ Len(w) \in Nat /\ DOMAIN w = 1..Len(w) /\ z \in 1..Len(w)
         /\ \A i \in 1..Len(w) : w[i] \in Entity /\ Fits(w[i], i, Len(w), z)
BY DEF IsWorld, Fits

\* The pressed triggers change no more than the weapons.
LEMMA TriggerSteady ==
  ASSUME NEW w, NEW z, IsWorld(w, z), NEW held
  PROVE  Steady(Trigger(w, held), w, z)
<1> DEFINE tap(i) == Min({w[i].tap + 1, Reload + 1})
           pull(i) == i \in held /\ tap(i) > Reload
           Change(i) == [w[i] EXCEPT !.tap = IF pull(i) THEN 0 ELSE tap(i), !.wants = @ \/ pull(i)]
           f == [i \in 1..Len(w) |-> IF w[i].kind \in {"player"} THEN Change(i) ELSE w[i]]
<1>1. Trigger(w, held) = SubSeq(f, 1, Len(w))
  BY EntityAt DEF Trigger, Each
<1>2. ASSUME NEW i \in 1..Len(w)
      PROVE  Untouched(f[i], w[i], i, Len(w), z)
  <2>1. w[i] \in Entity /\ Fits(w[i], i, Len(w), z)
    BY EntityAt
  <2>2. tap(i) \in Nat
    <3> DEFINE a == w[i].tap + 1
               b == Reload + 1
    <3>1. a \in Nat /\ b \in Nat
      BY <2>1, BoundsAreNumbers DEF Entity
    <3> HIDE DEF a, b
    <3>2. Min({a, b}) \in Nat
      BY <3>1, LeastOfNats
    <3> QED BY <3>2 DEF a, b
  <2> DEFINE g == IF pull(i) THEN 0 ELSE tap(i)
             x == w[i].wants \/ pull(i)
  <2>3. g \in Nat /\ x \in BOOLEAN
    BY <2>2
  <2>4. f[i] = IF w[i].kind = "player" THEN [w[i] EXCEPT !.tap = g, !.wants = x] ELSE w[i]
    OBVIOUS
  <2> HIDE DEF tap, g, x, f
  <2>5. f[i] \in Entity
    BY <2>1, <2>3, <2>4 DEF Entity
  <2>6. /\ f[i].kind = w[i].kind /\ f[i].x = w[i].x /\ f[i].v = w[i].v /\ f[i].hp = w[i].hp
        /\ f[i].since = w[i].since /\ f[i].score = w[i].score /\ f[i].contacts = w[i].contacts
        /\ f[i].hurt = w[i].hurt /\ f[i].dying = w[i].dying /\ f[i].gains = w[i].gains
    BY <2>1, <2>4 DEF Entity
  <2> QED BY <2>1, <2>5, <2>6 DEF Fits, Untouched, Alike, ScoreKept, PlaceKept, HealthKept
<1> HIDE DEF Change
<1>3. f = [i \in 1..Len(w) |-> f[i]]
  OBVIOUS
<1> HIDE DEF f
<1> QED BY <1>1, <1>2, <1>3, EachUntouched

\* The scripts move and arm the enemies only.
LEMMA ScriptSteady ==
  ASSUME NEW w, NEW z, IsWorld(w, z), NEW lua
  PROVE  Steady(Script(w, lua), w, z)
<1> DEFINE Change(i) == IF lua[i] = "advance" THEN [w[i] EXCEPT !.v = -1]
                        ELSE [w[i] EXCEPT !.wants = TRUE]
           f == [i \in 1..Len(w) |-> IF w[i].kind \in {"mob"} THEN Change(i) ELSE w[i]]
<1>1. Script(w, lua) = SubSeq(f, 1, Len(w))
  BY EntityAt DEF Script, Each
<1>2. ASSUME NEW i \in 1..Len(w)
      PROVE  Untouched(f[i], w[i], i, Len(w), z)
  <2>1. w[i] \in Entity /\ Fits(w[i], i, Len(w), z)
    BY EntityAt
  <2>2. CASE w[i].kind = "mob" /\ lua[i] = "advance"
    <3> DEFINE left == -1
    <3>1. f[i] = [w[i] EXCEPT !.v = left] /\ left \in Int
      BY <2>2
    <3> HIDE DEF f, left
    <3>2. f[i] \in Entity
      BY <2>1, <3>1 DEF Entity
    <3>3. /\ f[i].kind = "mob" /\ f[i].contacts = w[i].contacts
          /\ f[i].hp = w[i].hp
      BY <2>1, <2>2, <3>1 DEF Entity
    <3> QED BY <2>1, <2>2, <3>2, <3>3
            DEF Fits, Untouched, Alike, ScoreKept, PlaceKept, HealthKept
  <2>3. CASE w[i].kind = "mob" /\ lua[i] # "advance"
    <3>1. f[i] = [w[i] EXCEPT !.wants = TRUE]
      BY <2>3
    <3> HIDE DEF f
    <3> QED BY <2>1, <2>3, <3>1
            DEF Entity, Fits, Untouched, Alike, ScoreKept, PlaceKept, HealthKept
  <2>4. CASE w[i].kind # "mob"
    <3>1. f[i] = w[i]
      BY <2>4
    <3> HIDE DEF f
    <3> QED BY <2>1, <3>1 DEF Untouched, Alike, ScoreKept, PlaceKept, HealthKept
  <2> QED BY <2>2, <2>3, <2>4
<1> HIDE DEF Change
<1>3. f = [i \in 1..Len(w) |-> f[i]]
  OBVIOUS
<1> HIDE DEF f
<1> QED BY <1>1, <1>2, <1>3, EachUntouched

\* The axes of the clients change the velocities of the players, within their bounds.
LEMMA SteerSteady ==
  ASSUME NEW w, NEW z, IsWorld(w, z), NEW aim,
         \A p \in Ids(w, {"player"}) : aim[p] \in -3..3
  PROVE  Steady(Steer(w, aim), w, z)
<1> DEFINE Change(i) == [w[i] EXCEPT !.v = aim[i]]
           f == [i \in 1..Len(w) |-> IF w[i].kind \in {"player"} THEN Change(i) ELSE w[i]]
<1>1. Steer(w, aim) = SubSeq(f, 1, Len(w))
  BY EntityAt DEF Steer, Each
<1>2. ASSUME NEW i \in 1..Len(w)
      PROVE  Untouched(f[i], w[i], i, Len(w), z)
  <2>1. w[i] \in Entity /\ Fits(w[i], i, Len(w), z)
    BY EntityAt
  <2>2. w[i].kind = "player" => aim[i] \in -3..3
    BY EntityAt DEF Ids
  <2>3. f[i] = IF w[i].kind = "player" THEN [w[i] EXCEPT !.v = aim[i]] ELSE w[i]
    OBVIOUS
  <2> HIDE DEF f
  <2>4. CASE w[i].kind = "player"
    <3>1. f[i] = [w[i] EXCEPT !.v = aim[i]] /\ aim[i] \in Int
      BY <2>2, <2>3, <2>4
    <3>2. f[i] \in Entity
      BY <2>1, <3>1 DEF Entity
    <3>3. /\ f[i].v = aim[i] /\ f[i].kind = w[i].kind /\ f[i].contacts = w[i].contacts
          /\ f[i].hp = w[i].hp /\ f[i].x = w[i].x /\ f[i].dying = w[i].dying
          /\ f[i].score = w[i].score /\ f[i].gains = w[i].gains
          /\ f[i].since = w[i].since /\ f[i].hurt = w[i].hurt
      BY <2>1, <3>1 DEF Entity
    <3> QED BY <2>1, <2>2, <2>4, <3>2, <3>3
            DEF Fits, Untouched, Alike, ScoreKept, PlaceKept, HealthKept
  <2>5. CASE w[i].kind # "player"
    BY <2>1, <2>3, <2>5 DEF Untouched, Alike, ScoreKept, PlaceKept, HealthKept
  <2> QED BY <2>4, <2>5
<1> HIDE DEF Change
<1>3. f = [i \in 1..Len(w) |-> f[i]]
  OBVIOUS
<1> HIDE DEF f
<1> QED BY <1>1, <1>2, <1>3, EachUntouched

\* A list of ids is one of ids.
LEMMA ListedIsSeq ==
  ASSUME NEW n \in Nat, NEW ids, NEW upwards
  PROVE  Listed(ids, n, upwards) \in Seq(1..n \cap ids)
<1> DEFINE S == 1..n \cap ids
           T == Seq(S)
           Longer(s, k) == IF k \notin ids THEN s ELSE IF upwards THEN s \o <<k>> ELSE <<k>> \o s
           Solves(f) == f = [k \in 0..n |-> IF k = 0 THEN <<>> ELSE Longer(f[k - 1], k)]
           List == CHOOSE f : Solves(f)
           step == [p \in T \X (1..n) |-> Longer(p[1], p[2])]
           I == [k \in 0..n |-> T]
           a == <<>>
<1>1. Listed(ids, n, upwards) = List[n]
  BY DEF Listed
<1>2. ASSUME NEW s \in T, NEW k \in 1..n PROVE Longer(s, k) \in T
  <2>1. k \in ids => <<k>> \in Seq(S)
    OBVIOUS
  <2> HIDE DEF S
  <2> QED BY <2>1
<1>3. a \in T
  OBVIOUS
<1> HIDE DEF T, Longer, a
<1>4. /\ a \in I[0] /\ \A k \in 0..n : I[k] = T
      /\ \A k \in 1..n : k - 1 \in 0..n /\ k \in 0..n
  BY <1>3
<1>5. ASSUME NEW k \in 1..n, NEW s \in I[k - 1]
      PROVE  step[<<s, k>>] = Longer(s, k) /\ step[<<s, k>>] \in I[k]
  BY <1>2, <1>4
<1> HIDE DEF I, step
<1>6. PICK f : Runs(f, n, a, step) /\ \A k \in 0..n : f[k] \in I[k]
  BY <1>4, <1>5, LoopRuns
<1>7. Solves(f)
  <2>1. \A k \in 0..n : k = 0 \/ k \in 1..n
    OBVIOUS
  <2> QED BY <1>4, <1>5, <1>6, <2>1 DEF Runs, a
<1>8. Solves(List)
  <2> HIDE DEF Solves
  <2> QED BY <1>7
<1> HIDE DEF List
<1>9. List[n] \in I[n]
  <2>1. List[0] \in I[0]
    BY <1>4, <1>8 DEF a
  <2>2. \A k \in 1..n : List[k] = Longer(List[k - 1], k)
    BY <1>4, <1>8
  <2>3. \A k \in 1..n : List[k - 1] \in I[k - 1] => List[k] \in I[k]
    BY <1>2, <1>4, <2>2
  <2> HIDE DEF Solves
  <2> QED BY <2>1, <2>3, LoopEnds
<1> QED BY <1>1, <1>4, <1>9 DEF T

\* A sequence over a set is one over every greater set.
LEMMA SeqGrows ==
  ASSUME NEW S, NEW D, S \subseteq D, NEW s \in Seq(S)
  PROVE  s \in Seq(D)
<1>1. Len(s) \in Nat /\ s \in [1..Len(s) -> S]
  OBVIOUS
<1>2. s \in [1..Len(s) -> D]
  BY <1>1
<1>3. s \in UNION {[1..n -> D] : n \in Nat}
  BY <1>1, <1>2
<1> QED BY <1>3, SMT

\* The contacts that are found are ids of entities, and wait on triggers only.
LEMMA ContactSteady ==
  ASSUME NEW w, NEW z, IsWorld(w, z), NEW upwards
  PROVE  Steady(Contact(w, upwards), w, z)
<1> DEFINE near(i) == {j \in DOMAIN w \ {i} : Reports(w[i].kind, w[j].kind) /\ Touch(w[i].x, w[j].x)}
           Change(i) == [w[i] EXCEPT !.contacts = @ \o Listed(near(i), Len(w), upwards)]
           f == [i \in 1..Len(w) |-> IF w[i].kind \in Triggers THEN Change(i) ELSE w[i]]
<1>1. Contact(w, upwards) = SubSeq(f, 1, Len(w))
  BY EntityAt DEF Contact, Each
<1>2. ASSUME NEW i \in 1..Len(w)
      PROVE  Untouched(f[i], w[i], i, Len(w), z)
  <2>1. w[i] \in Entity /\ Fits(w[i], i, Len(w), z) /\ Len(w) \in Nat
    BY EntityAt
  <2> DEFINE more == Listed(near(i), Len(w), upwards)
             c == w[i].contacts \o more
  <2>2. c \in Seq(1..Len(w)) /\ c \in Seq(Nat)
    <3> DEFINE D == 1..Len(w)
               S == D \cap near(i)
    <3>1. more \in Seq(S)
      BY <2>1, ListedIsSeq
    <3>2. S \subseteq D /\ D \subseteq Nat
      OBVIOUS
    <3>3. w[i].contacts \in Seq(D)
      BY <2>1 DEF Fits
    <3> SUFFICES c \in Seq(D) /\ c \in Seq(Nat)
      OBVIOUS
    <3> HIDE DEF S, D, more
    <3>4. more \in Seq(D)
      BY <3>1, <3>2, SeqGrows
    <3>5. c \in Seq(D)
      BY <3>3, <3>4
    <3> QED BY <3>2, <3>5, SeqGrows
  <2>3. f[i] = IF w[i].kind \in Triggers THEN [w[i] EXCEPT !.contacts = c] ELSE w[i]
    OBVIOUS
  <2> HIDE DEF f, c
  <2> DEFINE C == Seq(1..Len(w))
  <2>4. f[i] \in Entity
    BY <2>1, <2>2, <2>3 DEF Entity
  <2>5. /\ f[i].contacts \in C
        /\ f[i].kind = w[i].kind /\ f[i].v = w[i].v /\ f[i].hp = w[i].hp
    BY <2>1, <2>2, <2>3 DEF Entity, Fits
  <2>6. /\ f[i].x = w[i].x /\ f[i].dying = w[i].dying
        /\ f[i].score = w[i].score /\ f[i].gains = w[i].gains
        /\ f[i].since = w[i].since /\ f[i].hurt = w[i].hurt
    BY <2>1, <2>3 DEF Entity
  <2> QED BY <2>1, <2>4, <2>5, <2>6
          DEF Fits, Untouched, Alike, ScoreKept, PlaceKept, HealthKept
<1> HIDE DEF Change
<1>3. f = [i \in 1..Len(w) |-> f[i]]
  OBVIOUS
<1> HIDE DEF f
<1> QED BY <1>1, <1>2, <1>3, EachUntouched

-----------------------------------------------------------------------------
(* One system after another.                                                 *)

\* Every player is inside the game zone, or is to die.
Within(w, z) ==
  \A p \in 1..Len(w) : w[p].kind = "player" => Inside(w[p], w[z]) \/ w[p].dying # <<>>

\* What every system up to the destruction of the dead keeps.
Carries(u, w, z) ==
  /\ IsWorld(u, z) /\ Follows(u, w) /\ ScoresKept(u, w)
  /\ Within(w, z) => Within(u, z)

\* What two systems keep one after the other they keep together.
LEMMA OneAfterAnother ==
  ASSUME NEW w, NEW v, NEW u, NEW z, IsWorld(w, z), IsWorld(v, z), IsWorld(u, z),
         Follows(v, w), Follows(u, v)
  PROVE  /\ Follows(u, w)
         /\ ScoresKept(v, w) /\ ScoresKept(u, v) => ScoresKept(u, w)
         /\ PlacesKept(v, w) /\ PlacesKept(u, v) => PlacesKept(u, w)
         /\ HealthsKept(v, w) /\ HealthsKept(u, v) => HealthsKept(u, w)
<1>1. /\ Len(w) \in Nat /\ Len(v) \in Nat /\ Len(u) \in Nat
      /\ Len(w) <= Len(v) /\ Len(v) <= Len(u)
  BY EntityAt DEF Follows
<1>2. \A i \in 1..Len(w) : i \in 1..Len(v) /\ Alike(v[i], w[i]) /\ Alike(u[i], v[i])
  BY <1>1 DEF Follows
<1>3. \A i \in 1..Len(w) : Alike(u[i], w[i])
  BY <1>2 DEF Alike
<1>4. ASSUME NEW i \in 1..Len(u), u[i].kind = "player" PROVE i \in 1..Len(w)
  <2>1. i \in 1..Len(v)
    BY <1>4 DEF Follows
  <2>2. Alike(u[i], v[i])
    BY <2>1 DEF Follows
  <2>3. v[i].kind = "player"
    BY <1>4, <2>2 DEF Alike
  <2> QED BY <2>1, <2>3 DEF Follows
<1>5. \A i \in 1..Len(w) : w[i].kind \in {"player", "zone"} => v[i].kind = w[i].kind
  BY <1>2 DEF Alike
<1>6. ScoresKept(v, w) /\ ScoresKept(u, v) => ScoresKept(u, w)
  BY <1>2, <1>5 DEF ScoresKept, ScoreKept
<1>7. PlacesKept(v, w) /\ PlacesKept(u, v) => PlacesKept(u, w)
  BY <1>2, <1>5 DEF PlacesKept, PlaceKept
<1>8. HealthsKept(v, w) /\ HealthsKept(u, v) => HealthsKept(u, w)
  BY <1>2, <1>5 DEF HealthsKept, HealthKept
<1>9. Len(w) <= Len(u)
  BY <1>1
<1> QED BY <1>3, <1>4, <1>6, <1>7, <1>8, <1>9 DEF Follows

\* Who is not moved stays within the game zone.
LEMMA WhereTheyWere ==
  ASSUME NEW w, NEW u, NEW z, IsWorld(w, z), IsWorld(u, z), Follows(u, w), PlacesKept(u, w),
         Within(w, z)
  PROVE  Within(u, z)
<1> SUFFICES ASSUME NEW p \in 1..Len(u), u[p].kind = "player"
             PROVE  Inside(u[p], u[z]) \/ u[p].dying # <<>>
  BY DEF Within
<1>1. p \in 1..Len(w)
  BY DEF Follows
<1>2. Alike(u[p], w[p])
  BY <1>1 DEF Follows
<1>3. w[p].kind = "player"
  BY <1>2 DEF Alike
<1>4. Inside(w[p], w[z]) \/ w[p].dying # <<>>
  BY <1>1, <1>3 DEF Within
<1>5. z \in 1..Len(w) /\ w[z].kind = "zone"
  BY EntityAt DEF Fits
<1>6. u[z].x = w[z].x /\ u[p].x = w[p].x /\ (w[p].dying # <<>> => u[p].dying # <<>>)
  BY <1>1, <1>3, <1>5 DEF PlacesKept, PlaceKept
<1> QED BY <1>4, <1>6 DEF Inside

\* A system that is steady carries on.
LEMMA SteadyCarries ==
  ASSUME NEW w, NEW u, NEW z, IsWorld(w, z), Steady(u, w, z)
  PROVE  Carries(u, w, z) /\ HealthsKept(u, w)
BY WhereTheyWere DEF Steady, Carries

\* Two systems that carry on do so one after the other.
LEMMA CarriesOn ==
  ASSUME NEW w, NEW v, NEW u, NEW z, IsWorld(w, z), Carries(v, w, z), Carries(u, v, z)
  PROVE  Carries(u, w, z)
BY OneAfterAnother DEF Carries

\* One entity changed.
LEMMA OneChanged ==
  ASSUME NEW w, NEW z, IsWorld(w, z), NEW i \in 1..Len(w), NEW e,
         Fits(e, i, Len(w), z), Alike(e, w[i])
  PROVE  LET u == [w EXCEPT ![i] = e]
         IN /\ IsWorld(u, z) /\ Follows(u, w) /\ Len(u) = Len(w)
            /\ u[i] = e /\ \A j \in 1..Len(w) : j # i => u[j] = w[j]
            /\ ScoreKept(e, w[i]) => ScoresKept(u, w)
            /\ PlaceKept(e, w[i]) => PlacesKept(u, w)
<1> DEFINE u == [w EXCEPT ![i] = e]
<1>1. w \in Seq(Entity) /\ e \in Entity
  BY DEF IsWorld, Fits
<1>2. u \in Seq(Entity) /\ Len(u) = Len(w) /\ u[i] = e /\ \A j \in 1..Len(w) : j # i => u[j] = w[j]
  BY <1>1
<1> HIDE DEF u
<1>3. IsWorld(u, z)
  BY <1>2 DEF IsWorld
<1>4. Follows(u, w)
  <2>1. \A j \in 1..Len(w) : Alike(u[j], w[j])
    BY <1>2 DEF Alike
  <2>2. Len(w) \in Nat
    BY <1>1
  <2> QED BY <1>2, <2>1, <2>2 DEF Follows
<1>5. ScoreKept(e, w[i]) => ScoresKept(u, w)
  BY <1>2 DEF ScoresKept, ScoreKept
<1>6. PlaceKept(e, w[i]) => PlacesKept(u, w)
  BY <1>2 DEF PlacesKept, PlaceKept
<1> QED BY <1>2, <1>3, <1>4, <1>5, <1>6 DEF u

-----------------------------------------------------------------------------
(* Contacts: who is hurt.                                                    *)

Shots(w) == {i \in 1..Len(w) : w[i].kind = "shot"}

\* Among hits there is one of a shot.
HasShot(hits, shots) == \E k \in 1..Len(hits) : hits[k] \in shots

\* A player is shot by another one, or it gains health, or it takes one hit once its
\* cooldown is over.
Harmed(e, o, shots) ==
  o.kind = "player" =>
    /\ e.hp >= o.hp
    /\ HasShot(o.hurt, shots) => HasShot(e.hurt, shots)
    /\ \/ HasShot(e.hurt, shots)
       \/ e.hurt = o.hurt /\ e.since = o.since
       \/ o.since >= Grace /\ e.since = 0 /\ Len(e.hurt) = Len(o.hurt) + 1

Meets(u, w, z) ==
  /\ IsWorld(u, z) /\ Follows(u, w) /\ Len(u) = Len(w) /\ Shots(u) = Shots(w)
  /\ ScoresKept(u, w) /\ PlacesKept(u, w)
  /\ \A i \in 1..Len(w) : Harmed(u[i], w[i], Shots(w))

\* Who meets nobody is not harmed.
LEMMA MeetsNobody ==
  ASSUME NEW w, NEW z, IsWorld(w, z)
  PROVE  Meets(w, w, z)
<1>1. \A i \in 1..Len(w) : w[i].hp \in Int
  BY EntityAt DEF Entity
<1> QED BY <1>1, EntityAt DEF Meets, Follows, Alike, ScoresKept, ScoreKept, PlacesKept, PlaceKept, Harmed

\* Two contacts one after the other: the cooldown that the first starts admits no second hit.
LEMMA MeetsMore ==
  ASSUME NEW w, NEW v, NEW u, NEW z, IsWorld(w, z), Meets(v, w, z), Meets(u, v, z)
  PROVE  Meets(u, w, z)
<1>1. Follows(u, w) /\ ScoresKept(u, w) /\ PlacesKept(u, w)
  BY OneAfterAnother DEF Meets
<1>2. ASSUME NEW i \in 1..Len(w), w[i].kind = "player"
      PROVE  Harmed(u[i], w[i], Shots(w))
  <2>1. /\ i \in 1..Len(v) /\ Alike(v[i], w[i])
        /\ Harmed(u[i], v[i], Shots(w)) /\ Harmed(v[i], w[i], Shots(w))
    BY DEF Meets, Follows
  <2>2. v[i].kind = "player"
    BY <1>2, <2>1 DEF Alike
  <2>3. w[i].hp \in Int /\ v[i].hp \in Int /\ u[i].hp \in Int
    BY <2>1, EntityAt DEF Meets, Entity
  <2>4. u[i].hp >= w[i].hp
    BY <1>2, <2>1, <2>2, <2>3 DEF Harmed
  <2>5. ~ 0 >= Grace
    BY BoundsAreNumbers
  <2> QED BY <1>2, <2>1, <2>2, <2>4, <2>5 DEF Harmed
<1>3. \A i \in 1..Len(w) : Harmed(u[i], w[i], Shots(w))
  BY <1>2 DEF Harmed
<1> QED BY <1>1, <1>3 DEF Meets

\* A contact that changes one entity.
LEMMA MeetsOne ==
  ASSUME NEW w, NEW z, IsWorld(w, z), NEW i \in 1..Len(w), NEW e,
         Fits(e, i, Len(w), z), Alike(e, w[i]), ScoreKept(e, w[i]), PlaceKept(e, w[i]),
         e.kind = w[i].kind, Harmed(e, w[i], Shots(w))
  PROVE  LET u == [w EXCEPT ![i] = e]
         IN Meets(u, w, z) /\ u[i] = e /\ \A j \in 1..Len(w) : j # i => u[j] = w[j]
<1> DEFINE u == [w EXCEPT ![i] = e]
<1>1. /\ IsWorld(u, z) /\ Follows(u, w) /\ Len(u) = Len(w)
      /\ u[i] = e /\ \A j \in 1..Len(w) : j # i => u[j] = w[j]
      /\ ScoresKept(u, w) /\ PlacesKept(u, w)
  BY OneChanged
<1> HIDE DEF u
<1>2. \A j \in 1..Len(w) : Harmed(u[j], w[j], Shots(w))
  <2>1. \A j \in 1..Len(w) : Harmed(w[j], w[j], Shots(w))
    BY MeetsNobody DEF Meets
  <2> QED BY <1>1, <2>1
<1>3. Shots(u) = Shots(w)
  <2>1. \A j \in 1..Len(w) : u[j].kind = w[j].kind
    BY <1>1
  <2> QED BY <1>1, <2>1 DEF Shots
<1> QED BY <1>1, <1>2, <1>3 DEF u, Meets

\* A hit, by a shot or on a player whose cooldown is over.
LEMMA HurtMeets ==
  ASSUME NEW w, NEW z, IsWorld(w, z), NEW i \in 1..Len(w), NEW source \in 1..Len(w),
         w[i].kind = "player" => source \in Shots(w) \/ w[i].since >= Grace
  PROVE  LET u == Hurt(w, i, source)
         IN Meets(u, w, z) /\ \A j \in 1..Len(w) : u[j].kind = w[j].kind /\ u[j].contacts = w[j].contacts
<1> DEFINE q == Append(w[i].hurt, source)
           e == [w[i] EXCEPT !.hurt = q, !.since = 0]
<1>1. w[i] \in Entity /\ Fits(w[i], i, Len(w), z) /\ DOMAIN w = 1..Len(w) /\ source \in Nat
  BY EntityAt
<1>2. Hurt(w, i, source) = [w EXCEPT ![i] = e]
  BY <1>1 DEF Hurt
<1>0. w[i].hurt \in Seq(Nat)
  BY <1>1 DEF Entity
<1>9. q \in Seq(Nat) /\ Len(q) = Len(w[i].hurt) + 1 /\ q # <<>>
  BY <1>0, <1>1
<1>10. HasShot(w[i].hurt, Shots(w)) \/ source \in Shots(w) => HasShot(q, Shots(w))
  <2> DEFINE h == w[i].hurt
  <2>1. /\ Len(h) \in Nat /\ Len(q) = Len(h) + 1 /\ q[Len(h) + 1] = source
        /\ \A k \in 1..Len(h) : q[k] = h[k]
    BY <1>0, <1>1
  <2> HIDE DEF q, h
  <2>2. \A k \in 1..Len(h) : k \in 1..Len(q)
    BY <2>1
  <2>3. Len(h) + 1 \in 1..Len(q)
    BY <2>1
  <2>4. HasShot(h, Shots(w)) => HasShot(q, Shots(w))
    BY <2>1, <2>2 DEF HasShot
  <2>5. source \in Shots(w) => HasShot(q, Shots(w))
    BY <2>1, <2>3 DEF HasShot
  <2> QED BY <2>4, <2>5 DEF h
<1> HIDE DEF q
<1>3. e \in Entity
  BY <1>1, <1>9 DEF Entity
<1>4. /\ e.kind = w[i].kind /\ e.v = w[i].v /\ e.hp = w[i].hp /\ e.contacts = w[i].contacts
      /\ e.x = w[i].x /\ e.dying = w[i].dying /\ e.score = w[i].score /\ e.gains = w[i].gains
      /\ e.since = 0 /\ e.hurt = q
  BY <1>1, <1>9 DEF Entity
<1>5. w[i].hp \in Int
  BY <1>1 DEF Entity
<1> HIDE DEF e
<1>6. Fits(e, i, Len(w), z) /\ Alike(e, w[i]) /\ ScoreKept(e, w[i]) /\ PlaceKept(e, w[i])
  BY <1>1, <1>3, <1>4 DEF Fits, Alike, ScoreKept, PlaceKept
<1>7. Harmed(e, w[i], Shots(w))
  BY <1>4, <1>5, <1>9, <1>10 DEF Harmed
<1>8. Meets([w EXCEPT ![i] = e], w, z) /\ [w EXCEPT ![i] = e][i] = e
      /\ \A j \in 1..Len(w) : j # i => [w EXCEPT ![i] = e][j] = w[j]
  BY <1>4, <1>6, <1>7, MeetsOne
<1> QED BY <1>2, <1>4, <1>8

\* A contact that kills.
LEMMA DyingMeets ==
  ASSUME NEW w, NEW z, IsWorld(w, z), NEW i \in 1..Len(w), NEW source \in 1..Len(w)
  PROVE  LET u == Give(w, i, "dying", source)
         IN Meets(u, w, z) /\ \A j \in 1..Len(w) : u[j].kind = w[j].kind /\ u[j].contacts = w[j].contacts
<1> DEFINE q == Append(w[i].dying, source)
           e == [w[i] EXCEPT !.dying = q]
<1>1. w[i] \in Entity /\ Fits(w[i], i, Len(w), z) /\ DOMAIN w = 1..Len(w) /\ source \in Nat
  BY EntityAt
<1>2. Give(w, i, "dying", source) = [w EXCEPT ![i] = e]
  BY <1>1 DEF Give
<1>0. w[i].dying \in Seq(Nat)
  BY <1>1 DEF Entity
<1>9. q \in Seq(Nat) /\ Len(q) = Len(w[i].dying) + 1 /\ q # <<>>
  BY <1>0, <1>1
<1> HIDE DEF q
<1>3. e \in Entity
  BY <1>1, <1>9 DEF Entity
<1>4. /\ e.kind = w[i].kind /\ e.v = w[i].v /\ e.hp = w[i].hp /\ e.contacts = w[i].contacts
      /\ e.x = w[i].x /\ e.dying # <<>> /\ e.score = w[i].score /\ e.gains = w[i].gains
      /\ e.since = w[i].since /\ e.hurt = w[i].hurt
  BY <1>1, <1>9 DEF Entity
<1>5. w[i].hp \in Int
  BY <1>1 DEF Entity
<1> HIDE DEF e
<1>6. Fits(e, i, Len(w), z) /\ Alike(e, w[i]) /\ ScoreKept(e, w[i]) /\ PlaceKept(e, w[i])
  BY <1>1, <1>3, <1>4 DEF Fits, Alike, ScoreKept, PlaceKept
<1>7. Harmed(e, w[i], Shots(w))
  BY <1>4, <1>5 DEF Harmed
<1>8. Meets([w EXCEPT ![i] = e], w, z) /\ [w EXCEPT ![i] = e][i] = e
      /\ \A j \in 1..Len(w) : j # i => [w EXCEPT ![i] = e][j] = w[j]
  BY <1>4, <1>6, <1>7, MeetsOne
<1> QED BY <1>2, <1>4, <1>8

\* A bonus gives its life to the player, which is none to give back.
LEMMA LifeMeets ==
  ASSUME NEW w, NEW z, IsWorld(w, z), NEW self \in 1..Len(w), NEW other \in 1..Len(w),
         w[self].kind = "bonus", w[other].kind = "player"
  PROVE  LET u == Act(w, "AddLife", self, other)
         IN Meets(u, w, z) /\ \A j \in 1..Len(w) : u[j].kind = w[j].kind /\ u[j].contacts = w[j].contacts
<1> DEFINE hp == w[other].hp + w[self].hp
           e == [w[other] EXCEPT !.hp = hp]
           v == [w EXCEPT ![other] = e]
           d == [w[self] EXCEPT !.hp = 0]
<1>1. /\ w[self] \in Entity /\ Fits(w[self], self, Len(w), z) /\ DOMAIN w = 1..Len(w)
      /\ w[other] \in Entity /\ Fits(w[other], other, Len(w), z)
  BY EntityAt
<1>2. other # self
  OBVIOUS
<1>3. Act(w, "AddLife", self, other) = [v EXCEPT ![self] = d]
  <2>1. Act(w, "AddLife", self, other)
          = [[w EXCEPT ![other].hp = w[other].hp + w[self].hp] EXCEPT ![self].hp = 0]
    BY <1>1, <1>2 DEF Act
  <2>2. [w EXCEPT ![other].hp = w[other].hp + w[self].hp] = v
    BY <1>1
  <2>3. self \in DOMAIN v /\ v[self] = w[self]
    BY <1>1, <1>2
  <2>4. Act(w, "AddLife", self, other) = [v EXCEPT ![self].hp = 0]
    BY <2>1, <2>2
  <2> HIDE DEF v
  <2>5. [v EXCEPT ![self].hp = 0] = [v EXCEPT ![self] = d]
    BY <2>3
  <2> QED BY <2>4, <2>5
<1>7. w[other].hp \in Int /\ hp \in Int /\ hp >= w[other].hp
  <2>1. w[other].hp \in Int /\ w[self].hp \in Int
    BY <1>1 DEF Entity
  <2>2. w[self].hp >= 0
    BY <1>1 DEF Fits
  <2> QED BY <2>1, <2>2
<1> HIDE DEF hp
<1>4. e \in Entity /\ d \in Entity
  <2>1. e \in Entity
    BY <1>1, <1>7 DEF Entity
  <2> HIDE DEF e, v
  <2>2. d \in Entity
    <3>1. w[self] \in Entity /\ 0 \in Int
      BY <1>1
    <3> QED BY <3>1 DEF Entity
  <2> QED BY <2>1, <2>2
<1>5. /\ e.kind = w[other].kind /\ e.v = w[other].v /\ e.hp = hp
      /\ e.contacts = w[other].contacts
      /\ e.x = w[other].x /\ e.dying = w[other].dying /\ e.score = w[other].score
      /\ e.gains = w[other].gains /\ e.since = w[other].since /\ e.hurt = w[other].hurt
  BY <1>1 DEF Entity
<1>6. /\ d.kind = w[self].kind /\ d.v = w[self].v /\ d.hp = 0 /\ d.contacts = w[self].contacts
  BY <1>1 DEF Entity
<1> HIDE DEF e, d
<1>8. Fits(e, other, Len(w), z) /\ Alike(e, w[other]) /\ ScoreKept(e, w[other]) /\ PlaceKept(e, w[other])
  BY <1>1, <1>4, <1>5 DEF Fits, Alike, ScoreKept, PlaceKept
<1>9. Harmed(e, w[other], Shots(w))
  BY <1>5, <1>7 DEF Harmed
<1>10. Meets(v, w, z) /\ v[other] = e /\ \A j \in 1..Len(w) : j # other => v[j] = w[j]
  BY <1>5, <1>8, <1>9, MeetsOne
<1> HIDE DEF v
<1>11. Len(v) = Len(w) /\ IsWorld(v, z) /\ v[self] = w[self]
  BY <1>2, <1>10 DEF Meets
<1>12. Fits(d, self, Len(v), z) /\ Alike(d, v[self]) /\ ScoreKept(d, v[self]) /\ PlaceKept(d, v[self])
       /\ d.kind = v[self].kind /\ Harmed(d, v[self], Shots(v))
  BY <1>1, <1>4, <1>6, <1>11 DEF Fits, Alike, ScoreKept, PlaceKept, Harmed
<1>13. Meets([v EXCEPT ![self] = d], v, z) /\ [v EXCEPT ![self] = d][self] = d
       /\ \A j \in 1..Len(w) : j # self => [v EXCEPT ![self] = d][j] = v[j]
  BY <1>11, <1>12, MeetsOne
<1>14. Meets([v EXCEPT ![self] = d], w, z)
  BY <1>10, <1>13, MeetsMore
<1>15. \A j \in 1..Len(w) : v[j].kind = w[j].kind /\ v[j].contacts = w[j].contacts
  BY <1>5, <1>10
<1> DEFINE u == [v EXCEPT ![self] = d]
<1> HIDE DEF u
<1>16. \A j \in 1..Len(w) : u[j].kind = w[j].kind /\ u[j].contacts = w[j].contacts
  <2> TAKE j \in 1..Len(w)
  <2>1. CASE j = self
    BY <1>6, <1>13, <2>1 DEF u
  <2>2. CASE j # self
    BY <1>13, <1>15, <2>2 DEF u
  <2> QED BY <2>1, <2>2
<1> QED BY <1>3, <1>14, <1>16 DEF u

\* The kinds of two worlds and the contacts that wait in them are the same.
SameKinds(u, w) ==
  Len(u) = Len(w) /\ \A j \in 1..Len(w) : u[j].kind = w[j].kind /\ u[j].contacts = w[j].contacts

MayBeHurt(w, i, source) == w[i].kind = "player" => source \in Shots(w) \/ w[i].since >= Grace

\* Whatever the interaction, a player is harmed as it may be.
LEMMA ActMeets ==
  ASSUME NEW w, NEW z, IsWorld(w, z), NEW self \in 1..Len(w), NEW other \in 1..Len(w), NEW action,
         action = "AddLife" => w[self].kind = "bonus" /\ w[other].kind = "player",
         action = "DealDamage" => MayBeHurt(w, other, self),
         action = "TakeDamage" => MayBeHurt(w, self, other)
  PROVE  Meets(Act(w, action, self, other), w, z) /\ SameKinds(Act(w, action, self, other), w)
<1>1. CASE action = "DealDamage"
  <2>1. Act(w, action, self, other) = Hurt(w, other, self)
    BY <1>1 DEF Act
  <2>2. w[other].kind = "player" => self \in Shots(w) \/ w[other].since >= Grace
    BY <1>1 DEF MayBeHurt
  <2> QED BY <2>1, <2>2, HurtMeets DEF SameKinds, Meets
<1>2. CASE action = "TakeDamage"
  <2>1. Act(w, action, self, other) = Hurt(w, self, other)
    BY <1>2 DEF Act
  <2>2. w[self].kind = "player" => other \in Shots(w) \/ w[self].since >= Grace
    BY <1>2 DEF MayBeHurt
  <2> QED BY <2>1, <2>2, HurtMeets DEF SameKinds, Meets
<1>3. CASE action = "DealDeath"
  <2>1. Act(w, action, self, other) = Give(w, other, "dying", self)
    BY <1>3 DEF Act
  <2> QED BY <2>1, DyingMeets DEF SameKinds, Meets
<1>4. CASE action = "TakeDeath"
  <2>1. Act(w, action, self, other) = Give(w, self, "dying", other)
    BY <1>4 DEF Act
  <2> QED BY <2>1, DyingMeets DEF SameKinds, Meets
<1>5. CASE action = "AddLife"
  BY <1>5, LifeMeets DEF SameKinds, Meets
<1>6. CASE action \notin {"DealDamage", "TakeDamage", "DealDeath", "TakeDeath", "AddLife"}
  <2>1. Act(w, action, self, other) = w
    BY <1>6 DEF Act
  <2> QED BY <2>1, MeetsNobody DEF SameKinds, Meets
<1> QED BY <1>1, <1>2, <1>3, <1>4, <1>5, <1>6

\* What the interactions of the prefabs can be.
LEMMA Mapped ==
  ASSUME NEW k, NEW o
  PROVE  /\ Mapping(k, o)[1] = "AddLife" => k = "bonus" /\ o = "player"
         /\ Mapping(k, o)[1] # "TakeDamage"
         /\ Mapping(k, o)[2] \notin {"AddLife", "DealDamage"}
         /\ Mapping(k, o)[2] = "TakeDamage" => k = "mob"
BY DEF Mapping

\* The contact that was handled is removed.
LEMMA ContactTaken ==
  ASSUME NEW w, NEW z, IsWorld(w, z), NEW i \in 1..Len(w), w[i].contacts # <<>>
  PROVE  Meets(Took(w, i, "contacts"), w, z)
<1> DEFINE C == Seq(1..Len(w))
           q == Tail(w[i].contacts)
           e == [w[i] EXCEPT !.contacts = q]
<1>1. w[i] \in Entity /\ Fits(w[i], i, Len(w), z) /\ DOMAIN w = 1..Len(w)
  BY EntityAt
<1>2. Took(w, i, "contacts") = [w EXCEPT ![i] = e]
  BY <1>1 DEF Took
<1>3. q \in C /\ q \in Seq(Nat)
  <2> DEFINE D == 1..Len(w)
  <2>1. w[i].contacts \in Seq(D)
    BY <1>1 DEF Fits
  <2>2. D \subseteq Nat
    OBVIOUS
  <2> SUFFICES q \in Seq(D) /\ q \in Seq(Nat)
    OBVIOUS
  <2> HIDE DEF D
  <2>3. q \in Seq(D)
    BY <2>1
  <2> HIDE DEF q
  <2> QED BY <2>2, <2>3, SeqGrows
<1> HIDE DEF q
<1>4. e \in Entity
  BY <1>1, <1>3 DEF Entity
<1>5. /\ e.kind = w[i].kind /\ e.v = w[i].v /\ e.hp = w[i].hp /\ e.contacts = q
      /\ e.x = w[i].x /\ e.dying = w[i].dying /\ e.score = w[i].score /\ e.gains = w[i].gains
      /\ e.since = w[i].since /\ e.hurt = w[i].hurt
  BY <1>1 DEF Entity
<1>6. w[i].hp \in Int
  BY <1>1 DEF Entity
<1> HIDE DEF e
<1>7. Fits(e, i, Len(w), z) /\ Alike(e, w[i]) /\ ScoreKept(e, w[i]) /\ PlaceKept(e, w[i])
  BY <1>1, <1>3, <1>4, <1>5 DEF Fits, Alike, ScoreKept, PlaceKept
<1>8. Harmed(e, w[i], Shots(w))
  BY <1>5, <1>6 DEF Harmed
<1> QED BY <1>2, <1>5, <1>7, <1>8, MeetsOne

\* One entity handles its first contact.
LEMMA MeetMeets ==
  ASSUME NEW w, NEW z, IsWorld(w, z), NEW i \in 1..Len(w)
  PROVE  Meets(Meet(w, i), w, z)
<1>1. CASE w[i].contacts = <<>>
  BY <1>1, MeetsNobody DEF Meet
<1>2. CASE w[i].contacts # <<>>
  <2> DEFINE other == Head(w[i].contacts)
             do == Mapping(w[i].kind, w[other].kind)
             crossed == Cross(w, i, other)
             onOther == Admitted(crossed, do[1], other)
             onSelf == Admitted(crossed, do[2], i)
             u == Act(crossed, onOther, i, other)
             v == Act(u, onSelf, i, other)
  <2>1. Meet(w, i) = Took(v, i, "contacts")
    BY <1>2 DEF Meet
  <2>2. other \in 1..Len(w)
    <3>1. w[i].contacts \in Seq(1..Len(w))
      BY EntityAt DEF Fits
    <3> QED BY <1>2, <3>1
  <2> HIDE DEF other
  <2>3. Meets(crossed, w, z) /\ SameKinds(crossed, w)
    <3>1. CASE crossed = w
      BY <3>1, MeetsNobody DEF SameKinds
    <3>2. CASE /\ w[i].kind = "shot"
               /\ crossed = Act(Act(w, "DealDamage", i, other), "TakeDeath", i, other)
      <4> DEFINE a == Act(w, "DealDamage", i, other)
      <4>1. MayBeHurt(w, other, i)
        BY <3>2 DEF MayBeHurt, Shots
      <4>2. Meets(a, w, z) /\ SameKinds(a, w)
        BY <2>2, <4>1, ActMeets
      <4> HIDE DEF a
      <4>3. IsWorld(a, z) /\ i \in 1..Len(a) /\ other \in 1..Len(a)
        BY <2>2, <4>2 DEF Meets
      <4> DEFINE b == Act(a, "TakeDeath", i, other)
      <4>4. Meets(b, a, z) /\ SameKinds(b, a)
        BY <4>3, ActMeets
      <4>5. crossed = b
        BY <3>2 DEF a
      <4> HIDE DEF b, crossed
      <4>6. Meets(b, w, z)
        BY <4>2, <4>4, MeetsMore
      <4> QED BY <4>2, <4>4, <4>5, <4>6 DEF SameKinds
    <3> QED BY <3>1, <3>2 DEF Cross
  <2> HIDE DEF crossed
  <2>4. IsWorld(crossed, z) /\ i \in 1..Len(crossed) /\ other \in 1..Len(crossed)
    BY <2>2, <2>3 DEF Meets
  <2>5. Meets(u, crossed, z) /\ SameKinds(u, crossed)
    <3>1. onOther = do[1] \/ onOther = "None"
      BY DEF Admitted
    <3>2. onOther = "AddLife" => crossed[i].kind = "bonus" /\ crossed[other].kind = "player"
      BY <2>2, <2>3, <3>1, Mapped DEF SameKinds
    <3>3. onOther # "TakeDamage"
      BY <3>1, Mapped
    <3>4. onOther = "DealDamage" => MayBeHurt(crossed, other, i)
      <4>1. crossed[other].since \in Nat /\ Grace \in Nat
        BY <2>4, EntityAt, BoundsAreNumbers DEF Entity
      <4>2. onOther = "DealDamage" /\ crossed[other].kind = "player" => ~ crossed[other].since < Grace
        BY DEF Admitted, Vulnerable
      <4> QED BY <4>1, <4>2 DEF MayBeHurt
    <3> HIDE DEF onOther
    <3> QED BY <2>4, <3>2, <3>3, <3>4, ActMeets
  <2>6. IsWorld(u, z) /\ i \in 1..Len(u) /\ other \in 1..Len(u)
    BY <2>4, <2>5 DEF Meets
  <2>7. Meets(v, u, z) /\ SameKinds(v, u)
    <3>1. onSelf = do[2] \/ onSelf = "None"
      BY DEF Admitted
    <3>2. onSelf \notin {"AddLife", "DealDamage"}
      BY <3>1, Mapped
    <3>3. onSelf = "TakeDamage" => w[i].kind = "mob"
      BY <3>1, Mapped
    <3>4. u[i].kind = w[i].kind
      BY <2>3, <2>4, <2>5 DEF SameKinds
    <3>5. onSelf = "TakeDamage" => MayBeHurt(u, i, other)
      BY <3>3, <3>4 DEF MayBeHurt
    <3> HIDE DEF onSelf, u
    <3> QED BY <2>6, <3>2, <3>5, ActMeets
  <2> HIDE DEF u, v
  <2>8. IsWorld(v, z) /\ i \in 1..Len(v) /\ v[i].contacts = w[i].contacts
    BY <2>3, <2>5, <2>6, <2>7 DEF Meets, SameKinds
  <2>9. Meets(Took(v, i, "contacts"), v, z)
    BY <1>2, <2>8, ContactTaken
  <2>10. Meets(u, w, z)
    BY <2>3, <2>5, MeetsMore
  <2>11. Meets(v, w, z)
    BY <2>7, <2>10, MeetsMore
  <2>12. Meets(Took(v, i, "contacts"), w, z)
    BY <2>9, <2>11, MeetsMore
  <2> QED BY <2>1, <2>12
<1> QED BY <1>1, <1>2

\* All do, by ascending id.
LEMMA SweepMeets ==
  ASSUME NEW w, NEW z, IsWorld(w, z)
  PROVE  Meets(Sweep(Meet, w, Triggers), w, z)
<1> DEFINE T == Seq(Entity)
           n == Len(w)
           Next1(u, k) == IF w[k].kind \in Triggers THEN Meet(u, k) ELSE u
           Solves(f) == f = [k \in 0..n |-> IF k = 0 THEN w ELSE Next1(f[k - 1], k)]
           After == CHOOSE f : Solves(f)
           step == [p \in T \X (1..n) |-> Next1(p[1], p[2])]
           G == {u \in T : Meets(u, w, z)}
           I == [k \in 0..n |-> G]
<1>1. Sweep(Meet, w, Triggers) = After[n]
  BY DEF Sweep
<1>2. w \in G /\ n \in Nat
  BY MeetsNobody, EntityAt DEF IsWorld
<1>3. ASSUME NEW u \in G, NEW k \in 1..n PROVE Next1(u, k) \in G
  <2>1. Meets(u, w, z) /\ IsWorld(u, z) /\ k \in 1..Len(u)
    BY DEF Meets
  <2>2. Meets(Meet(u, k), u, z)
    BY <2>1, MeetMeets
  <2>3. Meets(Meet(u, k), w, z)
    BY <2>1, <2>2, MeetsMore
  <2>4. Meet(u, k) \in T
    BY <2>3 DEF Meets, IsWorld
  <2> QED BY <2>3, <2>4
<1> HIDE DEF Next1
<1>4. /\ w \in I[0] /\ \A k \in 0..n : I[k] = G
      /\ \A k \in 1..n : k - 1 \in 0..n /\ k \in 0..n
  BY <1>2
<1>5. ASSUME NEW k \in 1..n, NEW u \in I[k - 1]
      PROVE  step[<<u, k>>] = Next1(u, k) /\ step[<<u, k>>] \in I[k]
  <2>1. u \in G
    BY <1>4
  <2>2. u \in T
    BY <2>1
  <2> HIDE DEF G, T, I
  <2>3. step[<<u, k>>] = Next1(u, k)
    BY <2>2
  <2> QED BY <1>3, <1>4, <2>1, <2>3
<1> HIDE DEF I, step, n, T, G
<1>6. PICK f : Runs(f, n, w, step) /\ \A k \in 0..n : f[k] \in I[k]
  BY <1>2, <1>4, <1>5, LoopRuns
<1>7. Solves(f)
  <2>1. \A k \in 0..n : k = 0 \/ k \in 1..n
    BY <1>2
  <2> QED BY <1>4, <1>5, <1>6, <2>1 DEF Runs
<1>8. Solves(After)
  <2> HIDE DEF Solves
  <2> QED BY <1>7
<1> HIDE DEF After
<1>9. After[n] \in I[n]
  <2>1. After[0] \in I[0]
    BY <1>2, <1>4, <1>8
  <2>2. \A k \in 1..n : After[k] = Next1(After[k - 1], k)
    BY <1>2, <1>4, <1>8
  <2> HIDE DEF Solves
  <2> QED BY <1>2, <1>3, <1>4, <2>1, <2>2, LoopEnds
<1>10. After[n] \in G
  BY <1>2, <1>4, <1>9
<1> QED BY <1>1, <1>10 DEF G

\* The cooldowns of a frame.
Rested(e, o) ==
  o.kind = "player" => e.hp = o.hp /\ e.hurt = o.hurt /\ (e.since >= Grace => o.since + 1 >= Grace)

\* The cooldowns advance by one frame, and nothing else changes.
LEMMA CooledRests ==
  ASSUME NEW w, NEW z, IsWorld(w, z)
  PROVE  LET u == Cooled(w)
         IN /\ IsWorld(u, z) /\ Follows(u, w) /\ ScoresKept(u, w) /\ PlacesKept(u, w)
            /\ Len(u) = Len(w) /\ \A i \in 1..Len(w) : Rested(u[i], w[i])
<1> DEFINE since(i) == Min({w[i].since + 1, Grace})
           Change(i) == [w[i] EXCEPT !.since = since(i)]
           f == [i \in 1..Len(w) |-> IF w[i].kind \in Vulnerable THEN Change(i) ELSE w[i]]
<1>1. Cooled(w) = SubSeq(f, 1, Len(w))
  BY EntityAt DEF Cooled, Each
<1>2. ASSUME NEW i \in 1..Len(w)
      PROVE  /\ Fits(f[i], i, Len(w), z) /\ Alike(f[i], w[i]) /\ ScoreKept(f[i], w[i])
             /\ PlaceKept(f[i], w[i]) /\ Rested(f[i], w[i])
  <2>1. w[i] \in Entity /\ Fits(w[i], i, Len(w), z)
    BY EntityAt
  <2>2. since(i) \in Nat /\ (since(i) >= Grace => w[i].since + 1 >= Grace)
    <3> DEFINE a == w[i].since + 1
    <3>1. a \in Nat /\ a \in Int /\ Grace \in Nat /\ Grace \in Int
      BY <2>1, BoundsAreNumbers DEF Entity
    <3> HIDE DEF a
    <3>2. Min({a, Grace}) \in Nat
      BY <3>1, LeastOfNats
    <3>3. Min({a, Grace}) = IF a <= Grace THEN a ELSE Grace
      BY <3>1, LeastOfTwo
    <3>4. Min({a, Grace}) >= Grace => a >= Grace
      BY <3>1, <3>3
    <3> QED BY <3>2, <3>4 DEF a
  <2> DEFINE g == since(i)
  <2>3. f[i] = IF w[i].kind \in Vulnerable THEN [w[i] EXCEPT !.since = g] ELSE w[i]
    OBVIOUS
  <2>4. g \in Nat /\ (g >= Grace => w[i].since + 1 >= Grace)
    BY <2>2
  <2> HIDE DEF since, g, f
  <2>5. f[i] \in Entity
    BY <2>1, <2>3, <2>4 DEF Entity
  <2>6. /\ f[i].kind = w[i].kind /\ f[i].v = w[i].v /\ f[i].hp = w[i].hp /\ f[i].x = w[i].x
        /\ f[i].contacts = w[i].contacts /\ f[i].dying = w[i].dying /\ f[i].hurt = w[i].hurt
        /\ f[i].score = w[i].score /\ f[i].gains = w[i].gains
        /\ w[i].kind = "player" => f[i].since = g
    BY <2>1, <2>3 DEF Entity, Vulnerable
  <2> QED BY <2>1, <2>4, <2>5, <2>6 DEF Fits, Alike, ScoreKept, PlaceKept, Rested
<1> HIDE DEF Change
<1>3. f = [i \in 1..Len(w) |-> f[i]]
  OBVIOUS
<1> HIDE DEF f
<1> DEFINE u == SubSeq(f, 1, Len(w))
<1>4. /\ IsWorld(u, z) /\ Follows(u, w) /\ Len(u) = Len(w)
      /\ \A i \in 1..Len(w) : u[i] = f[i]
      /\ ScoresKept(u, w) /\ PlacesKept(u, w)
  BY <1>2, <1>3, EachOnItsOwn
<1> HIDE DEF u
<1>5. \A i \in 1..Len(w) : Rested(u[i], w[i])
  BY <1>2, <1>4
<1> QED BY <1>1, <1>4, <1>5 DEF u

\* Out of the contacts of a frame a player comes with the hits it had, or with
\* one more, its cooldown being over, or with one of a shot.
Fought(e, o, shots) ==
  o.kind = "player" =>
    /\ e.hp >= o.hp
    /\ \/ HasShot(e.hurt, shots)
       \/ e.hurt = o.hurt
       \/ o.since + 1 >= Grace /\ e.since = 0 /\ Len(e.hurt) = Len(o.hurt) + 1

\* The interactions of a frame.
LEMMA InteractFights ==
  ASSUME NEW w, NEW z, IsWorld(w, z)
  PROVE  /\ Carries(Interact(w), w, z)
         /\ \A i \in 1..Len(w) : Fought(Interact(w)[i], w[i], Shots(Interact(w)))
<1> DEFINE v == Cooled(w)
           u == Interact(w)
<1>1. /\ IsWorld(v, z) /\ Follows(v, w) /\ ScoresKept(v, w) /\ PlacesKept(v, w)
      /\ Len(v) = Len(w) /\ \A i \in 1..Len(w) : Rested(v[i], w[i])
  BY CooledRests
<1>2. Meets(u, v, z)
  BY <1>1, SweepMeets DEF Interact
<1> HIDE DEF u, v
<1>3. Follows(u, w) /\ ScoresKept(u, w) /\ PlacesKept(u, w) /\ IsWorld(u, z)
  BY <1>1, <1>2, OneAfterAnother DEF Meets
<1>4. Carries(u, w, z)
  BY <1>3, WhereTheyWere DEF Carries
<1>5. ASSUME NEW i \in 1..Len(w), w[i].kind = "player"
      PROVE  Fought(u[i], w[i], Shots(u))
  <2>1. Rested(v[i], w[i]) /\ Harmed(u[i], v[i], Shots(u)) /\ Alike(v[i], w[i])
    BY <1>1, <1>2 DEF Meets, Follows
  <2>2. v[i].kind = "player"
    BY <1>5, <2>1 DEF Alike
  <2> QED BY <1>5, <2>1, <2>2 DEF Rested, Harmed, Fought
<1>6. \A i \in 1..Len(w) : Fought(u[i], w[i], Shots(u))
  BY <1>5 DEF Fought
<1> QED BY <1>4, <1>6 DEF u

-----------------------------------------------------------------------------
(* Movement: nobody is left behind.                                          *)

Moved(u, w, z) == Carries(u, w, z) /\ HealthsKept(u, w) /\ Len(u) = Len(w)

\* Two moves one after the other.
LEMMA MovedOn ==
  ASSUME NEW w, NEW v, NEW u, NEW z, IsWorld(w, z), Moved(v, w, z), Moved(u, v, z)
  PROVE  Moved(u, w, z)
BY OneAfterAnother DEF Carries, Moved

\* No move at all.
LEMMA MovedNot ==
  ASSUME NEW w, NEW z, IsWorld(w, z)
  PROVE  Moved(w, w, z)
BY EntityAt DEF Moved, Carries, Follows, Alike, ScoresKept, ScoreKept, HealthsKept, HealthKept

\* The game zone goes where it will, an entity where it will or nowhere, and a
\* player only inside the game zone.
LEMMA Slides ==
  ASSUME NEW w, NEW z, IsWorld(w, z), NEW i \in 1..Len(w)
  PROVE  /\ Slide(w, i) \in Int
         /\ i = z => Slide(w, i) = w[z].x + w[z].v
         /\ w[i].kind = "player" /\ Inside(w[i], w[z]) =>
              w[z].x <= Slide(w, i) /\ Slide(w, i) + 2 <= w[z].x + Span
<1>1. /\ w[i] \in Entity /\ Fits(w[i], i, Len(w), z) /\ z \in Ids(w, {"zone"}) /\ w[z] \in Entity
  BY EntityAt DEF Ids, Fits
<1>2. w[i].x \in Int /\ w[i].v \in Int /\ w[z].x \in Int /\ Span \in Nat
  BY <1>1, BoundsAreNumbers DEF Entity
<1>3. Slide(w, i) \in {w[i].x + w[i].v, w[i].x}
  BY DEF Slide
<1>4. i = z => Slide(w, i) = w[z].x + w[z].v
  BY <1>1 DEF Slide, Free, Fits, Vulnerable
<1>5. ASSUME w[i].kind = "player", Inside(w[i], w[z])
      PROVE  w[z].x <= Slide(w, i) /\ Slide(w, i) + 2 <= w[z].x + Span
  <2> DEFINE to == w[i].x + w[i].v
  <2>1. w[i].v \in -3..3
    BY <1>1, <1>5 DEF Fits
  <2>2. Free(w, i, to) => ~Touch(to, w[z].x - 2) /\ ~Touch(to, w[z].x + Span)
    BY <1>1, <1>5 DEF Free
  <2>3. w[z].x <= w[i].x /\ w[i].x + 2 <= w[z].x + Span
    BY <1>5 DEF Inside
  <2>4. ASSUME Free(w, i, to) PROVE w[z].x <= to /\ to + 2 <= w[z].x + Span
    <3> DEFINE x == w[i].x
               v == w[i].v
               y == w[z].x
    <3>1. ~Touch(x + v, y - 2) /\ ~Touch(x + v, y + Span)
      BY <2>2, <2>4
    <3>2. x \in Int /\ y \in Int /\ v \in Int /\ -3 <= v /\ v <= 3 /\ Span \in Int
      BY <1>2, <2>1
    <3>3. y <= x /\ x + 2 <= y + Span
      BY <2>3
    <3> HIDE DEF x, y, v
    <3>4. ~((x + v) - (y - 2) \in -1..1) /\ ~((x + v) - (y + Span) \in -1..1)
      BY <3>1 DEF Touch
    <3>5. y <= x + v /\ (x + v) + 2 <= y + Span
      BY <3>2, <3>3, <3>4
    <3> QED BY <3>5 DEF x, y, v
  <2> QED BY <2>3, <2>4 DEF Slide
<1> QED BY <1>2, <1>3, <1>4, <1>5

\* An entity slides: a player stays inside, and the game zone moves on.
LEMMA SlideMoves ==
  ASSUME NEW w, NEW z, IsWorld(w, z), NEW i \in 1..Len(w)
  PROVE  LET u == [w EXCEPT ![i].x = Slide(w, i)]
         IN /\ IsWorld(u, z) /\ Follows(u, w) /\ ScoresKept(u, w) /\ HealthsKept(u, w) /\ Len(u) = Len(w)
            /\ i # z /\ Within(w, z) => Within(u, z)
            /\ i = z => /\ u[z].x = w[z].x + w[z].v /\ u[z].v = w[z].v
                        /\ \A j \in 1..Len(w) : j # z => u[j] = w[j]
<1> DEFINE x == Slide(w, i)
           e == [w[i] EXCEPT !.x = x]
           u == [w EXCEPT ![i] = e]
<1>1. w[i] \in Entity /\ Fits(w[i], i, Len(w), z) /\ DOMAIN w = 1..Len(w) /\ z \in 1..Len(w)
  BY EntityAt
<1>2. [w EXCEPT ![i].x = Slide(w, i)] = u
  BY <1>1
<1>3. /\ x \in Int
      /\ i = z => x = w[z].x + w[z].v
      /\ w[i].kind = "player" /\ Inside(w[i], w[z]) => w[z].x <= x /\ x + 2 <= w[z].x + Span
  BY Slides
<1> HIDE DEF x
<1>4. e \in Entity
  BY <1>1, <1>3 DEF Entity
<1>5. /\ e.kind = w[i].kind /\ e.v = w[i].v /\ e.hp = w[i].hp /\ e.contacts = w[i].contacts
      /\ e.x = x /\ e.dying = w[i].dying /\ e.score = w[i].score /\ e.gains = w[i].gains
      /\ e.since = w[i].since /\ e.hurt = w[i].hurt
  BY <1>1 DEF Entity
<1> HIDE DEF e
<1>6. Fits(e, i, Len(w), z) /\ Alike(e, w[i]) /\ ScoreKept(e, w[i])
  BY <1>1, <1>4, <1>5 DEF Fits, Alike, ScoreKept
<1>7. /\ IsWorld(u, z) /\ Follows(u, w) /\ Len(u) = Len(w)
      /\ u[i] = e /\ \A j \in 1..Len(w) : j # i => u[j] = w[j]
      /\ ScoresKept(u, w)
  BY <1>6, OneChanged
<1> HIDE DEF u
<1>8. HealthsKept(u, w)
  BY <1>5, <1>7 DEF HealthsKept, HealthKept
<1>9. ASSUME i # z, Within(w, z) PROVE Within(u, z)
  <2> SUFFICES ASSUME NEW p \in 1..Len(w), u[p].kind = "player"
               PROVE  Inside(u[p], u[z]) \/ u[p].dying # <<>>
    BY <1>7 DEF Within
  <2>1. u[z] = w[z]
    BY <1>1, <1>7, <1>9
  <2>2. CASE p # i
    <3>1. u[p] = w[p]
      BY <1>7, <2>2
    <3> QED BY <1>9, <2>1, <3>1 DEF Within
  <2>3. CASE p = i
    <3>1. w[i].kind = "player"
      BY <1>5, <1>7, <2>3
    <3>2. Inside(w[i], w[z]) \/ w[i].dying # <<>>
      BY <1>9, <3>1 DEF Within
    <3>3. u[p] = e
      BY <1>7, <2>3
    <3> QED BY <1>3, <1>5, <2>1, <3>1, <3>2, <3>3 DEF Inside
  <2> QED BY <2>2, <2>3
<1>10. i = z => /\ u[z].x = w[z].x + w[z].v /\ u[z].v = w[z].v
                /\ \A j \in 1..Len(w) : j # z => u[j] = w[j]
  BY <1>3, <1>5, <1>7
<1> QED BY <1>2, <1>7, <1>8, <1>9, <1>10

\* The left wall takes along the players it meets, or kills them: m is the world
\* in which the game zone has moved already.
LEMMA PushMoves ==
  ASSUME NEW w, NEW z, IsWorld(w, z), NEW m, IsWorld(m, z), Len(m) = Len(w),
         m[z].x = w[z].x + w[z].v, m[z].v = w[z].v,
         \A j \in 1..Len(w) : j # z => m[j] = w[j]
  PROVE  LET u == Push(m, z)
         IN /\ IsWorld(u, z) /\ Follows(u, m) /\ ScoresKept(u, m) /\ HealthsKept(u, m) /\ Len(u) = Len(m)
            /\ Within(w, z) => Within(u, z)
<1> DEFINE met(p) == Touch(m[z].x - 2, m[p].x)
           free(p) == Free(m, p, m[p].x + m[z].v)
           Change(p) == IF ~met(p) THEN m[p]
                        ELSE IF free(p) THEN [m[p] EXCEPT !.x = @ + m[z].v]
                        ELSE [m[p] EXCEPT !.dying = Append(@, 0)]
           f == [i \in 1..Len(m) |-> IF m[i].kind \in {"player"} THEN Change(i) ELSE m[i]]
<1>1. Push(m, z) = SubSeq(f, 1, Len(m))
  BY EntityAt DEF Push, Each
<1>2. z \in 1..Len(m) /\ m[z] \in Entity /\ m[z].kind = "zone" /\ m[z].v \in 0..3
      /\ m[z].x \in Int /\ m[z].v \in Int
  <2>1. z \in 1..Len(m) /\ m[z] \in Entity /\ Fits(m[z], z, Len(m), z)
    BY EntityAt
  <2> QED BY <2>1 DEF Fits, Entity
<1>3. ASSUME NEW i \in 1..Len(m)
      PROVE  /\ Fits(f[i], i, Len(m), z) /\ Alike(f[i], m[i]) /\ ScoreKept(f[i], m[i])
             /\ HealthKept(f[i], m[i])
             /\ m[i].kind # "player" => f[i] = m[i]
             /\ m[i].kind = "player" /\ ~met(i) => f[i].x = m[i].x
             /\ m[i].kind = "player" /\ met(i) => f[i].x = m[i].x + m[z].v \/ f[i].dying # <<>>
             /\ m[i].kind = "player" /\ m[i].dying # <<>> => f[i].dying # <<>>
  <2>1. m[i] \in Entity /\ Fits(m[i], i, Len(m), z)
    BY EntityAt
  <2>2. CASE m[i].kind # "player" \/ ~met(i)
    <3>1. f[i] = m[i]
      BY <2>2
    <3> HIDE DEF f, met
    <3> QED BY <2>1, <2>2, <3>1 DEF Alike, ScoreKept, HealthKept
  <2>3. CASE m[i].kind = "player" /\ met(i) /\ free(i)
    <3> DEFINE x == m[i].x + m[z].v
    <3>1. f[i] = [m[i] EXCEPT !.x = x]
      BY <2>3
    <3>2. x \in Int
      <4>1. m[i].x \in Int
        BY <2>1 DEF Entity
      <4> QED BY <1>2, <4>1
    <3> HIDE DEF f, x
    <3>3. f[i] \in Entity
      BY <2>1, <3>1, <3>2 DEF Entity
    <3>4. /\ f[i].kind = m[i].kind /\ f[i].v = m[i].v /\ f[i].hp = m[i].hp
          /\ f[i].contacts = m[i].contacts
          /\ f[i].x = x /\ f[i].dying = m[i].dying /\ f[i].score = m[i].score
          /\ f[i].gains = m[i].gains /\ f[i].since = m[i].since /\ f[i].hurt = m[i].hurt
      BY <2>1, <3>1 DEF Entity
    <3> HIDE DEF met
    <3> QED BY <2>1, <2>3, <3>3, <3>4 DEF Fits, Alike, ScoreKept, HealthKept, x
  <2>4. CASE m[i].kind = "player" /\ met(i) /\ ~free(i)
    <3> DEFINE q == Append(m[i].dying, 0)
    <3>1. f[i] = [m[i] EXCEPT !.dying = q]
      BY <2>4
    <3>2. q \in Seq(Nat) /\ q # <<>>
      <4> DEFINE d == m[i].dying
      <4>1. d \in Seq(Nat) /\ 0 \in Nat
        BY <2>1 DEF Entity
      <4> HIDE DEF d, f
      <4>2. Append(d, 0) \in Seq(Nat) /\ Len(Append(d, 0)) = Len(d) + 1 /\ Len(d) \in Nat
        BY <4>1
      <4>3. Append(d, 0) # <<>>
        BY <4>2
      <4> QED BY <4>2, <4>3 DEF d
    <3> HIDE DEF f, q
    <3>3. f[i] \in Entity
      BY <2>1, <3>1, <3>2 DEF Entity
    <3>4. /\ f[i].kind = m[i].kind /\ f[i].v = m[i].v /\ f[i].hp = m[i].hp
          /\ f[i].contacts = m[i].contacts
          /\ f[i].dying = q /\ f[i].score = m[i].score
          /\ f[i].gains = m[i].gains /\ f[i].since = m[i].since /\ f[i].hurt = m[i].hurt
      BY <2>1, <3>1 DEF Entity
    <3> HIDE DEF met
    <3> QED BY <2>1, <2>4, <3>2, <3>3, <3>4 DEF Fits, Alike, ScoreKept, HealthKept
  <2> QED BY <2>2, <2>3, <2>4
<1> HIDE DEF Change
<1>4. f = [i \in 1..Len(m) |-> f[i]]
  OBVIOUS
<1> HIDE DEF f
<1> DEFINE u == SubSeq(f, 1, Len(m))
<1>5. /\ IsWorld(u, z) /\ Follows(u, m) /\ Len(u) = Len(m)
      /\ \A i \in 1..Len(m) : u[i] = f[i]
      /\ ScoresKept(u, m) /\ HealthsKept(u, m)
  BY <1>3, <1>4, EachOnItsOwn
<1> HIDE DEF u
<1>6. ASSUME Within(w, z) PROVE Within(u, z)
  <2> SUFFICES ASSUME NEW p \in 1..Len(m), u[p].kind = "player", u[p].dying = <<>>
               PROVE  Inside(u[p], u[z])
    BY <1>5 DEF Within
  <2>1. Alike(f[p], m[p]) /\ u[p] = f[p]
    BY <1>3, <1>5
  <2>2. m[p].kind = "player" /\ p # z
    BY <1>2, <2>1 DEF Alike
  <2>3. m[p] = w[p] /\ m[p].dying = <<>>
    BY <1>3, <2>1, <2>2
  <2>4. Inside(w[p], w[z])
    BY <1>6, <2>2, <2>3 DEF Within
  <2>5. u[z] = m[z]
    BY <1>2, <1>3, <1>5
  <2> DEFINE x == w[p].x
             y == w[z].x
             v == m[z].v
  <2>6. x \in Int /\ y \in Int /\ v \in Int /\ 0 <= v /\ v <= 3 /\ Span \in Int /\ m[z].x = y + v
    <3>1. w[p] \in Entity /\ w[z] \in Entity
      BY EntityAt
    <3>2. w[p].x \in Int /\ w[z].x \in Int
      BY <3>1 DEF Entity
    <3> QED BY <1>2, <3>2, BoundsAreNumbers
  <2>7. y <= x /\ x + 2 <= y + Span
    BY <2>4 DEF Inside
  <2>8. CASE met(p)
    <3>1. u[p].x = x + v
      BY <1>3, <2>1, <2>2, <2>3, <2>8
    <3> HIDE DEF x, y, v
    <3>2. y + v <= x + v /\ (x + v) + 2 <= (y + v) + Span
      BY <2>6, <2>7
    <3> QED BY <2>5, <2>6, <3>1, <3>2 DEF Inside
  <2>9. CASE ~met(p)
    <3>1. u[p].x = x
      BY <1>3, <2>1, <2>2, <2>3, <2>9
    <3>2. ~Touch((y + v) - 2, x)
      BY <2>3, <2>6, <2>9
    <3> HIDE DEF x, y, v
    <3>3. ~(((y + v) - 2) - x \in -1..1)
      BY <3>2 DEF Touch
    <3>4. y + v <= x /\ x + 2 <= (y + v) + Span
      BY <2>6, <2>7, <3>3
    <3> QED BY <2>5, <2>6, <3>1, <3>4 DEF Inside
  <2> QED BY <2>8, <2>9
<1> QED BY <1>1, <1>5, <1>6 DEF u

\* One entity moves, and the game zone pushes.
LEMMA AdvanceMoves ==
  ASSUME NEW w, NEW z, IsWorld(w, z), NEW i \in 1..Len(w)
  PROVE  Moved(Advance(w, i), w, z)
<1> DEFINE m == [w EXCEPT ![i].x = Slide(w, i)]
<1>1. /\ IsWorld(m, z) /\ Follows(m, w) /\ ScoresKept(m, w) /\ HealthsKept(m, w) /\ Len(m) = Len(w)
      /\ i # z /\ Within(w, z) => Within(m, z)
      /\ i = z => /\ m[z].x = w[z].x + w[z].v /\ m[z].v = w[z].v
                  /\ \A j \in 1..Len(w) : j # z => m[j] = w[j]
  BY SlideMoves
<1>2. Advance(w, i) = IF w[i].kind = "zone" THEN Push(m, i) ELSE m
  BY DEF Advance
<1>3. w[i].kind = "zone" <=> i = z
  BY EntityAt DEF Fits
<1> HIDE DEF m
<1>4. CASE i # z
  BY <1>1, <1>2, <1>3, <1>4 DEF Moved, Carries
<1>5. CASE i = z
  <2> DEFINE u == Push(m, z)
  <2>1. /\ IsWorld(u, z) /\ Follows(u, m) /\ ScoresKept(u, m) /\ HealthsKept(u, m) /\ Len(u) = Len(m)
        /\ Within(w, z) => Within(u, z)
    BY <1>1, <1>5, PushMoves
  <2>2. Advance(w, i) = u
    BY <1>2, <1>3, <1>5
  <2> HIDE DEF u
  <2>3. Follows(u, w) /\ ScoresKept(u, w) /\ HealthsKept(u, w)
    BY <1>1, <2>1, OneAfterAnother
  <2> QED BY <1>1, <2>1, <2>2, <2>3 DEF Moved, Carries
<1> QED BY <1>4, <1>5

\* All do, by ascending id, on whichever side of the zone a player comes.
LEMMA MoveMoves ==
  ASSUME NEW w, NEW z, IsWorld(w, z)
  PROVE  Moved(Move(w), w, z)
<1> DEFINE T == Seq(Entity)
           n == Len(w)
           movable == {"zone"} \cup Vulnerable \cup Projectiles
           Next1(u, k) == IF w[k].kind \in movable THEN Advance(u, k) ELSE u
           Solves(f) == f = [k \in 0..n |-> IF k = 0 THEN w ELSE Next1(f[k - 1], k)]
           After == CHOOSE f : Solves(f)
           step == [p \in T \X (1..n) |-> Next1(p[1], p[2])]
           G == {u \in T : Moved(u, w, z)}
           I == [k \in 0..n |-> G]
<1>1. Move(w) = After[n]
  BY DEF Move, Sweep
<1>2. w \in G /\ n \in Nat
  BY MovedNot, EntityAt DEF IsWorld
<1>3. ASSUME NEW u \in G, NEW k \in 1..n PROVE Next1(u, k) \in G
  <2>1. Moved(u, w, z) /\ IsWorld(u, z) /\ k \in 1..Len(u)
    BY DEF Moved, Carries
  <2>2. Moved(Advance(u, k), u, z)
    BY <2>1, AdvanceMoves
  <2>3. Moved(Advance(u, k), w, z)
    BY <2>1, <2>2, MovedOn
  <2>4. Advance(u, k) \in T
    BY <2>3 DEF Moved, Carries, IsWorld
  <2> HIDE DEF movable
  <2> QED BY <2>3, <2>4
<1> HIDE DEF Next1
<1>4. /\ w \in I[0] /\ \A k \in 0..n : I[k] = G
      /\ \A k \in 1..n : k - 1 \in 0..n /\ k \in 0..n
  BY <1>2
<1>5. ASSUME NEW k \in 1..n, NEW u \in I[k - 1]
      PROVE  step[<<u, k>>] = Next1(u, k) /\ step[<<u, k>>] \in I[k]
  <2>1. u \in G
    BY <1>4
  <2>2. u \in T
    BY <2>1
  <2> HIDE DEF G, T, I
  <2>3. step[<<u, k>>] = Next1(u, k)
    BY <2>2
  <2> QED BY <1>3, <1>4, <2>1, <2>3
<1> HIDE DEF I, step, n, T, G
<1>6. PICK f : Runs(f, n, w, step) /\ \A k \in 0..n : f[k] \in I[k]
  BY <1>2, <1>4, <1>5, LoopRuns
<1>7. Solves(f)
  <2>1. \A k \in 0..n : k = 0 \/ k \in 1..n
    BY <1>2
  <2> QED BY <1>4, <1>5, <1>6, <2>1 DEF Runs
<1>8. Solves(After)
  <2> HIDE DEF Solves
  <2> QED BY <1>7
<1> HIDE DEF After
<1>9. After[n] \in I[n]
  <2>1. After[0] \in I[0]
    BY <1>2, <1>4, <1>8
  <2>2. \A k \in 1..n : After[k] = Next1(After[k - 1], k)
    BY <1>2, <1>4, <1>8
  <2> HIDE DEF Solves
  <2> QED BY <1>2, <1>3, <1>4, <2>1, <2>2, LoopEnds
<1>10. After[n] \in G
  BY <1>2, <1>4, <1>9
<1> QED BY <1>1, <1>10 DEF G

-----------------------------------------------------------------------------
(* Shots, wounds and bounds.                                                 *)

\* An entity that a system adds.
Newcomer(e) ==
  /\ e \in Entity /\ e.kind \notin {"player", "zone"} /\ e.contacts = <<>>
  /\ e.kind = "bonus" => e.hp >= 0

\* What a prefab makes is neither hit nor in contact.
LEMMA PrefabIsNew ==
  ASSUME NEW kind \in Kinds \ {"player", "zone"}, NEW x \in Int
  PROVE  Newcomer(Prefab(kind, x))
<1> DEFINE hp == CASE kind = "player" -> 3 [] kind \in {"mob", "bonus"} -> 1 [] OTHER -> 0
           none == <<>>
<1>1. hp \in Int /\ (kind = "bonus" => hp >= 0)
  OBVIOUS
<1>2. none \in Seq(Nat) /\ none \in Seq(Request)
  OBVIOUS
<1>3. Prefab(kind, x) =
        [kind |-> kind, x |-> x, v |-> 0, hp |-> hp, by |-> 0, since |-> 0, owner |-> 0, score |-> 0,
         tap |-> 0, wants |-> FALSE, wait |-> 0, life |-> 0,
         contacts |-> none, hurt |-> none, dying |-> none, gains |-> none, waves |-> none]
  BY DEF Prefab
<1> HIDE DEF hp
<1>4. Prefab(kind, x).kind = kind /\ Prefab(kind, x).hp = hp /\ Prefab(kind, x).contacts = <<>>
  BY <1>3
<1> HIDE DEF none
<1>5. Prefab(kind, x) \in Entity
  BY <1>1, <1>2, <1>3 DEF Entity
<1> QED BY <1>1, <1>4, <1>5 DEF Newcomer

\* New entities come after the old ones and change none of them.
LEMMA NewcomersSteady ==
  ASSUME NEW w, NEW z, IsWorld(w, z), NEW s \in Seq(Entity),
         \A k \in 1..Len(s) : Newcomer(s[k])
  PROVE  Steady(w \o s, w, z) /\ Len(w \o s) = Len(w) + Len(s)
<1> DEFINE u == w \o s
<1>1. w \in Seq(Entity) /\ Len(w) \in Nat /\ Len(s) \in Nat /\ z \in 1..Len(w)
  BY EntityAt DEF IsWorld
<1>2. /\ u \in Seq(Entity) /\ Len(u) = Len(w) + Len(s)
      /\ \A i \in 1..Len(w) : u[i] = w[i]
      /\ \A i \in 1..Len(u) : i \in 1..Len(w) \/ (i - Len(w) \in 1..Len(s) /\ u[i] = s[i - Len(w)])
  BY <1>1
<1> HIDE DEF u
<1>3. ASSUME NEW i \in 1..Len(u) PROVE Fits(u[i], i, Len(u), z)
  <2>1. CASE i \in 1..Len(w)
    <3>1. Fits(w[i], i, Len(w), z)
      BY <2>1, EntityAt
    <3>2. 1..Len(w) \subseteq 1..Len(u)
      BY <1>1, <1>2
    <3>3. w[i].contacts \in Seq(1..Len(w))
      BY <3>1 DEF Fits
    <3>4. w[i].contacts \in Seq(1..Len(u))
      BY <3>2, <3>3, SeqGrows
    <3>5. u[i] = w[i]
      BY <1>2, <2>1
    <3> QED BY <3>1, <3>4, <3>5 DEF Fits
  <2>2. CASE i \notin 1..Len(w)
    <3>1. Newcomer(u[i]) /\ i # z
      BY <1>1, <1>2, <2>2
    <3>2. <<>> \in Seq(1..Len(u))
      OBVIOUS
    <3> QED BY <3>1, <3>2 DEF Newcomer, Fits
  <2> QED BY <2>1, <2>2
<1>4. IsWorld(u, z)
  <2>1. z \in 1..Len(u)
    BY <1>1, <1>2
  <2> QED BY <1>2, <1>3, <2>1 DEF IsWorld
<1>5. Follows(u, w)
  <2>1. ASSUME NEW i \in 1..Len(u), u[i].kind = "player" PROVE i \in 1..Len(w)
    <3>1. i \notin 1..Len(w) => Newcomer(u[i])
      BY <1>2
    <3> QED BY <2>1, <3>1 DEF Newcomer
  <2>2. \A i \in 1..Len(w) : Alike(u[i], w[i])
    BY <1>2 DEF Alike
  <2>3. Len(w) <= Len(u)
    BY <1>1, <1>2
  <2> QED BY <2>1, <2>2, <2>3 DEF Follows
<1>6. ScoresKept(u, w) /\ PlacesKept(u, w) /\ HealthsKept(u, w)
  BY <1>2 DEF ScoresKept, ScoreKept, PlacesKept, PlaceKept, HealthsKept, HealthKept
<1> QED BY <1>2, <1>4, <1>5, <1>6 DEF Steady, u

\* Two steady systems one after the other.
LEMMA SteadyOn ==
  ASSUME NEW w, NEW v, NEW u, NEW z, IsWorld(w, z), Steady(v, w, z), Steady(u, v, z)
  PROVE  Steady(u, w, z)
BY OneAfterAnother DEF Steady

\* A shot is a newcomer.
LEMMA ShotIsNew ==
  ASSUME NEW w, NEW z, IsWorld(w, z), NEW i \in 1..Len(w)
  PROVE  Newcomer(Shot(w, i))
<1> DEFINE ahead == IF w[i].kind = "player" THEN 1 ELSE -1
           kind == IF ahead = 1 THEN "shot" ELSE "fire"
           x == w[i].x + ahead
           v == 2 * ahead
           o == Prefab(kind, x)
           e == [o EXCEPT !.v = v, !.owner = i, !.life = ShotLife]
<1>1. Shot(w, i) = e
  BY DEF Shot
<1>2. ahead \in Int /\ kind \in {"shot", "fire"} /\ v \in Int /\ i \in Nat /\ ShotLife \in Int
  BY BoundsAreNumbers
<1>3. x \in Int
  <2>1. w[i].x \in Int
    BY EntityAt DEF Entity
  <2> HIDE DEF ahead
  <2> QED BY <1>2, <2>1
<1> HIDE DEF ahead, kind, x, v
<1>4. Newcomer(o) /\ o.kind = kind
  <2>1. kind \in Kinds \ {"player", "zone"}
    BY <1>2 DEF Kinds
  <2> QED BY <1>3, <2>1, PrefabIsNew DEF Prefab
<1> HIDE DEF o
<1>5. e \in Entity
  BY <1>2, <1>4 DEF Newcomer, Entity
<1>6. e.kind = kind /\ e.contacts = <<>>
  BY <1>4 DEF Newcomer, Entity
<1> QED BY <1>1, <1>2, <1>5, <1>6 DEF Newcomer

\* Who shoots starts its cooldown, and its shot is added.
LEMMA ShootSteady ==
  ASSUME NEW w, NEW z, IsWorld(w, z)
  PROVE  Steady(Shoot(w), w, z)
<1> DEFINE ready == {i \in DOMAIN w : Shoots(w, i)}
           shooters == Listed(ready, Len(w), TRUE)
           s == [n \in DOMAIN shooters |-> Shot(w, shooters[n])]
           Change(i) == IF Shoots(w, i) THEN [w[i] EXCEPT !.wants = FALSE, !.wait = Max({Reload - 1, 0})]
                        ELSE [w[i] EXCEPT !.wait = Max({@ - 1, 0})]
           f == [i \in 1..Len(w) |-> IF w[i].kind \in Vulnerable THEN Change(i) ELSE w[i]]
           v == SubSeq(f, 1, Len(w))
<1>1. Shoot(w) = v \o s
  BY EntityAt DEF Shoot, Each
<1>2. ASSUME NEW i \in 1..Len(w)
      PROVE  Untouched(f[i], w[i], i, Len(w), z)
  <2>1. w[i] \in Entity /\ Fits(w[i], i, Len(w), z)
    BY EntityAt
  <2> DEFINE a == Max({Reload - 1, 0})
             b == Max({w[i].wait - 1, 0})
  <2>2. a \in Nat /\ b \in Nat
    <3> DEFINE r == Reload - 1
               t == w[i].wait - 1
    <3>1. r \in Int /\ t \in Int /\ 0 \in Int
      <4>1. w[i].wait \in Nat
        BY <2>1 DEF Entity
      <4> QED BY <4>1, BoundsAreNumbers
    <3> HIDE DEF r, t
    <3>2. Max({r, 0}) = (IF r <= 0 THEN 0 ELSE r) /\ Max({t, 0}) = (IF t <= 0 THEN 0 ELSE t)
      BY <3>1, LeastOfTwo
    <3>3. Max({r, 0}) \in Nat /\ Max({t, 0}) \in Nat
      BY <3>1, <3>2
    <3> QED BY <3>3 DEF r, t
  <2>3. \/ f[i] = w[i]
        \/ f[i] = [w[i] EXCEPT !.wants = FALSE, !.wait = a]
        \/ f[i] = [w[i] EXCEPT !.wait = b]
    OBVIOUS
  <2> HIDE DEF f, a, b
  <2>4. f[i] \in Entity
    BY <2>1, <2>2, <2>3 DEF Entity
  <2>5. /\ f[i].kind = w[i].kind /\ f[i].v = w[i].v /\ f[i].hp = w[i].hp /\ f[i].x = w[i].x
        /\ f[i].contacts = w[i].contacts /\ f[i].dying = w[i].dying /\ f[i].hurt = w[i].hurt
        /\ f[i].score = w[i].score /\ f[i].gains = w[i].gains /\ f[i].since = w[i].since
    BY <2>1, <2>3 DEF Entity
  <2> QED BY <2>1, <2>4, <2>5 DEF Fits, Untouched, Alike, ScoreKept, PlaceKept, HealthKept
<1> HIDE DEF Change
<1>3. f = [i \in 1..Len(w) |-> f[i]]
  OBVIOUS
<1> HIDE DEF f
<1>4. Steady(v, w, z)
  BY <1>2, <1>3, EachUntouched
<1>5. s \in Seq(Entity) /\ \A k \in 1..Len(s) : Newcomer(s[k])
  <2> DEFINE D == 1..Len(w) \cap ready
  <2>1. shooters \in Seq(D)
    BY EntityAt, ListedIsSeq
  <2> HIDE DEF shooters, D, v
  <2>2. \A k \in 1..Len(shooters) : shooters[k] \in D
    BY <2>1
  <2>3. D \subseteq 1..Len(w)
    BY DEF D
  <2>4. \A k \in 1..Len(shooters) : Newcomer(Shot(w, shooters[k]))
    BY <2>2, <2>3, ShotIsNew
  <2>5. DOMAIN shooters = 1..Len(shooters) /\ Len(shooters) \in Nat
    BY <2>1
  <2>6. s = [k \in 1..Len(shooters) |-> Shot(w, shooters[k])]
    BY <2>5
  <2>7. s \in [1..Len(shooters) -> Entity]
    BY <2>4, <2>6 DEF Newcomer
  <2>8. \A k \in 1..Len(shooters) : s[k] = Shot(w, shooters[k])
    BY <2>6
  <2> HIDE DEF s
  <2>9. s \in Seq(Entity) /\ Len(s) = Len(shooters)
    BY <2>5, <2>7
  <2> QED BY <2>4, <2>8, <2>9
<1> HIDE DEF v, s
<1>6. Steady(v \o s, v, z)
  BY <1>4, <1>5, NewcomersSteady DEF Steady
<1> QED BY <1>1, <1>4, <1>6, SteadyOn

\* Appending to a queue.
LEMMA Queued ==
  ASSUME NEW q \in Seq(Nat), NEW n \in Nat
  PROVE  Append(q, n) \in Seq(Nat) /\ Append(q, n) # <<>>
<1>1. Append(q, n) \in Seq(Nat) /\ Len(Append(q, n)) = Len(q) + 1 /\ Len(q) \in Nat
  OBVIOUS
<1>2. Append(q, n) # <<>>
  BY <1>1
<1> QED BY <1>1, <1>2

\* Projectiles age and die.
LEMMA AgeSteady ==
  ASSUME NEW w, NEW z, IsWorld(w, z)
  PROVE  Steady(Age(w), w, z)
<1> DEFINE Change(i) ==
             [w[i] EXCEPT !.life = @ - 1, !.dying = IF w[i].life <= 1 THEN Append(@, 0) ELSE @]
           f == [i \in 1..Len(w) |-> IF w[i].kind \in Projectiles THEN Change(i) ELSE w[i]]
<1>1. Age(w) = SubSeq(f, 1, Len(w))
  BY EntityAt DEF Age, Each
<1>2. ASSUME NEW i \in 1..Len(w)
      PROVE  Untouched(f[i], w[i], i, Len(w), z)
  <2>1. w[i] \in Entity /\ Fits(w[i], i, Len(w), z)
    BY EntityAt
  <2> DEFINE a == w[i].life - 1
             b == IF w[i].life <= 1 THEN Append(w[i].dying, 0) ELSE w[i].dying
  <2>2. a \in Int /\ b \in Seq(Nat)
    <3>1. w[i].life \in Int /\ w[i].dying \in Seq(Nat)
      BY <2>1 DEF Entity
    <3>2. Append(w[i].dying, 0) \in Seq(Nat)
      BY <3>1, Queued
    <3> QED BY <3>1, <3>2
  <2>3. f[i] = IF w[i].kind \in Projectiles THEN [w[i] EXCEPT !.life = a, !.dying = b] ELSE w[i]
    OBVIOUS
  <2> HIDE DEF f, a, b
  <2>4. CASE w[i].kind \in Projectiles
    <3>1. f[i] \in Entity
      BY <2>1, <2>2, <2>3, <2>4 DEF Entity
    <3>2. f[i].kind = w[i].kind /\ f[i].contacts = w[i].contacts
      BY <2>1, <2>3, <2>4 DEF Entity
    <3> QED BY <2>1, <2>4, <3>1, <3>2
            DEF Projectiles, Fits, Untouched, Alike, ScoreKept, PlaceKept, HealthKept
  <2>5. CASE w[i].kind \notin Projectiles
    BY <2>1, <2>3, <2>5 DEF Untouched, Alike, ScoreKept, PlaceKept, HealthKept
  <2> QED BY <2>4, <2>5
<1> HIDE DEF Change
<1>3. f = [i \in 1..Len(w) |-> f[i]]
  OBVIOUS
<1> HIDE DEF f
<1> QED BY <1>1, <1>2, <1>3, EachUntouched

\* One hit is applied to each.
Wounds(e, o) ==
  o.kind = "player" =>
    /\ e.since = o.since
    /\ IF o.hurt = <<>> THEN e.hp = o.hp /\ e.hurt = <<>>
       ELSE e.hp = o.hp - 1 /\ e.hurt = Tail(o.hurt)

\* One hit of each is applied.
LEMMA WoundedWounds ==
  ASSUME NEW w, NEW z, IsWorld(w, z)
  PROVE  LET u == Wounded(w)
         IN /\ Carries(u, w, z) /\ Len(u) = Len(w)
            /\ \A i \in 1..Len(w) : Wounds(u[i], w[i])
<1> DEFINE Change(i) ==
             IF w[i].hurt = <<>> THEN w[i]
             ELSE [w[i] EXCEPT !.hp = @ - 1, !.by = Head(w[i].hurt), !.hurt = Tail(@)]
           f == [i \in 1..Len(w) |-> IF w[i].kind \in Vulnerable THEN Change(i) ELSE w[i]]
<1>1. Wounded(w) = SubSeq(f, 1, Len(w))
  BY EntityAt DEF Wounded, Each
<1>2. ASSUME NEW i \in 1..Len(w)
      PROVE  /\ Fits(f[i], i, Len(w), z) /\ Alike(f[i], w[i]) /\ ScoreKept(f[i], w[i])
             /\ PlaceKept(f[i], w[i]) /\ Wounds(f[i], w[i])
  <2>1. w[i] \in Entity /\ Fits(w[i], i, Len(w), z)
    BY EntityAt
  <2>2. CASE w[i].kind \in Vulnerable /\ w[i].hurt # <<>>
    <3> DEFINE a == w[i].hp - 1
               b == Head(w[i].hurt)
               c == Tail(w[i].hurt)
    <3>1. a \in Int /\ b \in Nat /\ c \in Seq(Nat)
      <4> DEFINE q == w[i].hurt
      <4>1. w[i].hp \in Int /\ q \in Seq(Nat) /\ q # <<>>
        BY <2>1, <2>2 DEF Entity
      <4> HIDE DEF q
      <4>2. Head(q) \in Nat /\ Tail(q) \in Seq(Nat)
        BY <4>1
      <4> QED BY <4>1, <4>2 DEF q
    <3>2. f[i] = [w[i] EXCEPT !.hp = a, !.by = b, !.hurt = c]
      BY <2>2
    <3> HIDE DEF f, b, c
    <3>3. /\ f[i].kind = w[i].kind /\ f[i].v = w[i].v /\ f[i].hp = a /\ f[i].x = w[i].x
          /\ f[i].contacts = w[i].contacts /\ f[i].dying = w[i].dying /\ f[i].hurt = c
          /\ f[i].score = w[i].score /\ f[i].gains = w[i].gains /\ f[i].since = w[i].since
      BY <2>1, <3>2 DEF Entity
    <3>4. Wounds(f[i], w[i])
      BY <2>2, <3>3 DEF Wounds, c
    <3> HIDE DEF a
    <3>5. f[i] \in Entity
      BY <2>1, <3>1, <3>2 DEF Entity
    <3> QED BY <2>1, <2>2, <3>3, <3>4, <3>5 DEF Vulnerable, Fits, Alike, ScoreKept, PlaceKept
  <2>3. CASE ~(w[i].kind \in Vulnerable /\ w[i].hurt # <<>>)
    <3>1. f[i] = w[i]
      BY <2>3
    <3>2. w[i].kind = "player" => w[i].hurt = <<>>
      BY <2>3 DEF Vulnerable
    <3> HIDE DEF f
    <3> QED BY <2>1, <3>1, <3>2 DEF Alike, ScoreKept, PlaceKept, Wounds
  <2> QED BY <2>2, <2>3
<1> HIDE DEF Change
<1>3. f = [i \in 1..Len(w) |-> f[i]]
  OBVIOUS
<1> HIDE DEF f
<1> DEFINE u == SubSeq(f, 1, Len(w))
<1>4. /\ IsWorld(u, z) /\ Follows(u, w) /\ Len(u) = Len(w)
      /\ \A i \in 1..Len(w) : u[i] = f[i]
      /\ ScoresKept(u, w) /\ PlacesKept(u, w)
  BY <1>2, <1>3, EachOnItsOwn
<1> HIDE DEF u
<1>5. \A i \in 1..Len(w) : Wounds(u[i], w[i])
  BY <1>2, <1>4
<1>6. Carries(u, w, z)
  BY <1>4, WhereTheyWere DEF Carries
<1> QED BY <1>1, <1>4, <1>5, <1>6 DEF u

\* Who has no health left is to die.
LEMMA DoomedSteady ==
  ASSUME NEW w, NEW z, IsWorld(w, z)
  PROVE  Steady(Doomed(w), w, z)
<1> DEFINE Change(i) == IF w[i].hp <= 0 THEN [w[i] EXCEPT !.dying = Append(@, w[i].by)] ELSE w[i]
           f == [i \in 1..Len(w) |-> IF w[i].kind \in Vulnerable \cup {"bonus"} THEN Change(i) ELSE w[i]]
<1>1. Doomed(w) = SubSeq(f, 1, Len(w))
  BY EntityAt DEF Doomed, Each
<1>2. ASSUME NEW i \in 1..Len(w)
      PROVE  Untouched(f[i], w[i], i, Len(w), z)
  <2>1. w[i] \in Entity /\ Fits(w[i], i, Len(w), z)
    BY EntityAt
  <2> DEFINE q == Append(w[i].dying, w[i].by)
  <2>2. q \in Seq(Nat) /\ q # <<>>
    <3>1. w[i].dying \in Seq(Nat) /\ w[i].by \in Nat
      BY <2>1 DEF Entity
    <3> QED BY <3>1, Queued
  <2>3. f[i] = w[i] \/ f[i] = [w[i] EXCEPT !.dying = q]
    OBVIOUS
  <2> HIDE DEF f, q
  <2>4. CASE f[i] = [w[i] EXCEPT !.dying = q]
    <3>1. f[i] \in Entity
      BY <2>1, <2>2, <2>4 DEF Entity
    <3>2. /\ f[i].kind = w[i].kind /\ f[i].v = w[i].v /\ f[i].hp = w[i].hp /\ f[i].x = w[i].x
          /\ f[i].contacts = w[i].contacts /\ f[i].dying = q /\ f[i].hurt = w[i].hurt
          /\ f[i].score = w[i].score /\ f[i].gains = w[i].gains /\ f[i].since = w[i].since
      BY <2>1, <2>4 DEF Entity
    <3> QED BY <2>1, <2>2, <3>1, <3>2
            DEF Fits, Untouched, Alike, ScoreKept, PlaceKept, HealthKept
  <2>5. CASE f[i] = w[i]
    BY <2>1, <2>5 DEF Untouched, Alike, ScoreKept, PlaceKept, HealthKept
  <2> QED BY <2>3, <2>4, <2>5
<1> HIDE DEF Change
<1>3. f = [i \in 1..Len(w) |-> f[i]]
  OBVIOUS
<1> HIDE DEF f
<1> QED BY <1>1, <1>2, <1>3, EachUntouched

\* What strays is to die, players and the game zone never.
LEMMA BoundSteady ==
  ASSUME NEW w, NEW z, IsWorld(w, z)
  PROVE  Steady(Bound(w), w, z)
<1> DEFINE astray == <<0>>
           Change(i) == IF w[i].dying = <<>> /\ Strayed(w, i) THEN [w[i] EXCEPT !.dying = astray] ELSE w[i]
           f == [i \in 1..Len(w) |-> IF w[i].kind \in Projectiles \cup {"mob", "wall"} THEN Change(i) ELSE w[i]]
<1>1. Bound(w) = SubSeq(f, 1, Len(w))
  BY EntityAt DEF Bound, Each
<1>2. ASSUME NEW i \in 1..Len(w)
      PROVE  Untouched(f[i], w[i], i, Len(w), z)
  <2>1. w[i] \in Entity /\ Fits(w[i], i, Len(w), z)
    BY EntityAt
  <2>2. astray \in Seq(Nat)
    OBVIOUS
  <2>3. \/ f[i] = w[i]
        \/ w[i].kind \in Projectiles \cup {"mob", "wall"} /\ f[i] = [w[i] EXCEPT !.dying = astray]
    OBVIOUS
  <2> HIDE DEF f, astray
  <2>4. CASE w[i].kind \in Projectiles \cup {"mob", "wall"} /\ f[i] = [w[i] EXCEPT !.dying = astray]
    <3>1. f[i] \in Entity
      BY <2>1, <2>2, <2>4 DEF Entity
    <3>2. f[i].kind = w[i].kind /\ f[i].contacts = w[i].contacts
      BY <2>1, <2>4 DEF Entity
    <3> QED BY <2>1, <2>4, <3>1, <3>2
            DEF Projectiles, Fits, Untouched, Alike, ScoreKept, PlaceKept, HealthKept
  <2>5. CASE f[i] = w[i]
    BY <2>1, <2>5 DEF Untouched, Alike, ScoreKept, PlaceKept, HealthKept
  <2> QED BY <2>3, <2>4, <2>5
<1> HIDE DEF Change
<1>3. f = [i \in 1..Len(w) |-> f[i]]
  OBVIOUS
<1> HIDE DEF f
<1> QED BY <1>1, <1>2, <1>3, EachUntouched

\* The stop that is met halts the game zone and goes.
LEMMA HaltSteady ==
  ASSUME NEW w, NEW z, IsWorld(w, z)
  PROVE  Steady(Halt(w), w, z)
<1> DEFINE first == Min(Ids(w, {"player"}))
           met == {s \in Ids(w, {"stop"}) : Touch(w[first].x, w[s].x)}
           Change(i) == [w[i] EXCEPT !.v = 0]
           f == [i \in 1..Len(w) |-> IF w[i].kind \in {"zone"} THEN Change(i) ELSE w[i]]
           v == SubSeq(f, 1, Len(w))
           u == [v EXCEPT ![Min(met)] = Gone]
<1>1. Halt(w) = w \/ (met # {} /\ Halt(w) = u)
  BY EntityAt DEF Halt, Each
<1>2. ASSUME NEW i \in 1..Len(w)
      PROVE  Untouched(f[i], w[i], i, Len(w), z) /\ f[i].kind = w[i].kind
  <2>1. w[i] \in Entity /\ Fits(w[i], i, Len(w), z)
    BY EntityAt
  <2>2. f[i] = w[i] \/ (w[i].kind = "zone" /\ f[i] = [w[i] EXCEPT !.v = 0])
    OBVIOUS
  <2> HIDE DEF f
  <2>3. CASE w[i].kind = "zone" /\ f[i] = [w[i] EXCEPT !.v = 0]
    <3> DEFINE still == 0
    <3>0. f[i] = [w[i] EXCEPT !.v = still] /\ w[i] \in Entity /\ still \in Int
      BY <2>1, <2>3
    <3> HIDE DEF still
    <3>1. f[i] \in Entity
      BY <3>0 DEF Entity
    <3>2. f[i].kind = w[i].kind /\ f[i].contacts = w[i].contacts /\ f[i].v = 0 /\ f[i].x = w[i].x
      BY <2>1, <2>3 DEF Entity
    <3> QED BY <2>1, <2>3, <3>1, <3>2
            DEF Fits, Untouched, Alike, ScoreKept, PlaceKept, HealthKept
  <2>4. CASE f[i] = w[i]
    BY <2>1, <2>4 DEF Untouched, Alike, ScoreKept, PlaceKept, HealthKept
  <2> QED BY <2>2, <2>3, <2>4
<1> HIDE DEF Change
<1>3. f = [i \in 1..Len(w) |-> f[i]]
  OBVIOUS
<1> HIDE DEF f
<1>4. Steady(v, w, z) /\ Len(v) = Len(w) /\ \A i \in 1..Len(w) : v[i] = f[i]
  BY <1>2, <1>3, EachUntouched
<1> HIDE DEF v
<1>5. CASE Halt(w) = w
  <2>1. \A i \in 1..Len(w) : Untouched(w[i], w[i], i, Len(w), z)
    BY EntityAt DEF Untouched, Alike, ScoreKept, PlaceKept, HealthKept
  <2>2. Steady(w, w, z)
    BY <2>1, EntityAt
       DEF Steady, Untouched, Follows, ScoresKept, PlacesKept, HealthsKept
  <2> QED BY <1>5, <2>2
<1>6. CASE met # {} /\ Halt(w) = u
  <2> DEFINE s == Min(met)
  <2>1. met \in SUBSET Nat
    BY EntityAt DEF Ids
  <2>2. s \in met
    <3> HIDE DEF met
    <3> QED BY <1>6, <2>1, LeastOf
  <2>3. s \in 1..Len(w) /\ w[s].kind = "stop"
    BY <2>2, EntityAt DEF Ids
  <2>4. IsWorld(v, z) /\ s \in 1..Len(v) /\ v[s].kind = "stop"
    BY <1>2, <1>4, <2>3 DEF Steady
  <2>5. Newcomer(Gone) /\ Gone.kind = "gone"
    <3>1. "gone" \in Kinds \ {"player", "zone"} /\ 0 \in Int
      BY DEF Kinds
    <3> QED BY <3>1, PrefabIsNew DEF Gone, Prefab
  <2> HIDE DEF s
  <2>6. Fits(Gone, s, Len(v), z) /\ Alike(Gone, v[s]) /\ ScoreKept(Gone, v[s]) /\ PlaceKept(Gone, v[s])
    <3>1. s # z
      BY <2>4, EntityAt DEF Fits
    <3>2. <<>> \in Seq(1..Len(v))
      OBVIOUS
    <3> QED BY <2>4, <2>5, <3>1, <3>2 DEF Newcomer, Fits, Alike, ScoreKept, PlaceKept
  <2> DEFINE g == [v EXCEPT ![s] = Gone]
  <2>7. /\ IsWorld(g, z) /\ Follows(g, v) /\ Len(g) = Len(v)
        /\ g[s] = Gone /\ \A j \in 1..Len(v) : j # s => g[j] = v[j]
        /\ ScoresKept(g, v) /\ PlacesKept(g, v)
    BY <2>4, <2>6, OneChanged
  <2>8. Halt(w) = g
    BY <1>6 DEF s
  <2> HIDE DEF g
  <2>9. HealthsKept(g, v)
    BY <2>4, <2>7 DEF HealthsKept, HealthKept
  <2>10. Steady(g, v, z)
    BY <2>7, <2>9 DEF Steady
  <2> QED BY <1>4, <2>8, <2>10, SteadyOn
<1> HIDE DEF u, met
<1> QED BY <1>1, <1>5, <1>6

-----------------------------------------------------------------------------
(* Deaths and scores.                                                        *)

Ones(q) == q \in Seq({ScoreValue})

\* An entity goes, or stays as it is but for the score it is given.
Survives(e, o) ==
  \/ e.kind = "gone"
  \/ /\ e.kind = o.kind /\ e.x = o.x /\ e.dying = o.dying
     /\ e.hp = o.hp /\ e.since = o.since /\ e.hurt = o.hurt
     /\ e.score = o.score /\ (Ones(o.gains) => Ones(e.gains))

Buries(u, w, z) ==
  IsWorld(u, z) /\ Len(u) = Len(w) /\ \A i \in 1..Len(w) : Survives(u[i], w[i])

\* Two deaths one after the other.
LEMMA BuriesMore ==
  ASSUME NEW w, NEW v, NEW u, NEW z, Buries(v, w, z), Buries(u, v, z)
  PROVE  Buries(u, w, z)
<1>1. ASSUME NEW i \in 1..Len(w) PROVE Survives(u[i], w[i])
  <2>1. Survives(v[i], w[i]) /\ Survives(u[i], v[i])
    BY DEF Buries
  <2> QED BY <2>1 DEF Survives
<1> QED BY <1>1 DEF Buries

\* One entity goes or is given a score.
LEMMA OneReplaced ==
  ASSUME NEW w, NEW z, IsWorld(w, z), NEW i \in 1..Len(w), NEW e,
         Fits(e, i, Len(w), z), Survives(e, w[i])
  PROVE  LET u == [w EXCEPT ![i] = e]
         IN Buries(u, w, z) /\ u[i] = e /\ \A j \in 1..Len(w) : j # i => u[j] = w[j]
<1> DEFINE u == [w EXCEPT ![i] = e]
<1>1. w \in Seq(Entity) /\ e \in Entity
  BY DEF IsWorld, Fits
<1>2. u \in Seq(Entity) /\ Len(u) = Len(w) /\ u[i] = e /\ \A j \in 1..Len(w) : j # i => u[j] = w[j]
  BY <1>1
<1> HIDE DEF u
<1>3. IsWorld(u, z)
  BY <1>2 DEF IsWorld
<1>4. \A j \in 1..Len(w) : Survives(u[j], w[j])
  BY <1>2 DEF Survives
<1> QED BY <1>2, <1>3, <1>4 DEF u, Buries

\* One more of what a queue holds already.
LEMMA OneMore ==
  ASSUME NEW q
  PROVE  Ones(q) => Ones(Append(q, ScoreValue))
<1> DEFINE S == {ScoreValue}
<1> SUFFICES ASSUME q \in Seq(S) PROVE Append(q, ScoreValue) \in Seq(S)
  BY DEF Ones
<1>1. ScoreValue \in S
  OBVIOUS
<1> HIDE DEF S
<1> QED BY <1>1

\* The player who is credited.
LEMMA GivenSurvives ==
  ASSUME NEW w, NEW z, IsWorld(w, z), NEW i \in 1..Len(w)
  PROVE  LET u == Give(w, i, "gains", ScoreValue)
         IN Buries(u, w, z) /\ \A j \in 1..Len(w) : j # i => u[j] = w[j]
<1> DEFINE q == Append(w[i].gains, ScoreValue)
           e == [w[i] EXCEPT !.gains = q]
<1>1. w[i] \in Entity /\ Fits(w[i], i, Len(w), z) /\ DOMAIN w = 1..Len(w)
  BY EntityAt
<1>2. Give(w, i, "gains", ScoreValue) = [w EXCEPT ![i] = e]
  BY <1>1 DEF Give
<1>3. q \in Seq(Nat) /\ (Ones(w[i].gains) => Ones(q))
  <2>1. w[i].gains \in Seq(Nat) /\ ScoreValue \in Nat
    BY <1>1 DEF Entity, ScoreValue
  <2> QED BY <2>1, Queued, OneMore
<1> HIDE DEF q
<1>4. e \in Entity
  BY <1>1, <1>3 DEF Entity
<1>5. /\ e.kind = w[i].kind /\ e.v = w[i].v /\ e.hp = w[i].hp /\ e.contacts = w[i].contacts
      /\ e.x = w[i].x /\ e.dying = w[i].dying /\ e.score = w[i].score /\ e.gains = q
      /\ e.since = w[i].since /\ e.hurt = w[i].hurt
  BY <1>1 DEF Entity
<1> HIDE DEF e
<1>6. Fits(e, i, Len(w), z)
  BY <1>1, <1>4, <1>5 DEF Fits
<1>7. Survives(e, w[i])
  BY <1>3, <1>5 DEF Survives
<1> QED BY <1>2, <1>6, <1>7, OneReplaced

\* An entity that is to die goes, and its killer is credited.
LEMMA DieBuries ==
  ASSUME NEW w, NEW z, IsWorld(w, z), NEW i \in 1..Len(w), i # z
  PROVE  /\ Buries(Die(w, i), w, z)
         /\ Die(w, i)[i].kind = "gone" \/ Die(w, i)[i].dying = <<>>
<1>1. Buries(w, w, z)
  BY DEF Buries, Survives
<1>2. CASE w[i].dying = <<>>
  BY <1>1, <1>2 DEF Die
<1>3. CASE w[i].dying # <<>>
  <2> DEFINE owners == Credited(w, i)
             rewarded == IF owners = {} THEN w ELSE Give(w, Min(owners), "gains", ScoreValue)
             u == [rewarded EXCEPT ![i] = Gone]
  <2>1. Die(w, i) = u
    BY <1>3 DEF Die
  <2>2. owners \subseteq Ids(w, {"player"})
    BY DEF Credited
  <2>3. Buries(rewarded, w, z)
    <3>1. CASE owners = {}
      BY <1>1, <3>1
    <3>2. CASE owners # {}
      <4>1. Ids(w, {"player"}) \subseteq 1..Len(w) /\ 1..Len(w) \subseteq Nat
        BY EntityAt DEF Ids
      <4> HIDE DEF owners
      <4>2. Min(owners) \in owners
        BY <2>2, <3>2, <4>1, LeastOf
      <4>3. Min(owners) \in 1..Len(w)
        BY <2>2, <4>1, <4>2
      <4> QED BY <3>2, <4>3, GivenSurvives
    <3> QED BY <3>1, <3>2
  <2> HIDE DEF rewarded
  <2>4. IsWorld(rewarded, z) /\ i \in 1..Len(rewarded)
    BY <2>3 DEF Buries
  <2>5. Newcomer(Gone) /\ Gone.kind = "gone"
    <3>1. "gone" \in Kinds \ {"player", "zone"} /\ 0 \in Int
      BY DEF Kinds
    <3> QED BY <3>1, PrefabIsNew DEF Gone, Prefab
  <2>6. Fits(Gone, i, Len(rewarded), z) /\ Survives(Gone, rewarded[i])
    <3>1. <<>> \in Seq(1..Len(rewarded))
      OBVIOUS
    <3> QED BY <2>5, <3>1 DEF Newcomer, Fits, Survives
  <2>7. Buries(u, rewarded, z) /\ u[i] = Gone
    BY <2>4, <2>6, OneReplaced
  <2> HIDE DEF u
  <2> QED BY <2>1, <2>3, <2>5, <2>7, BuriesMore
<1> QED BY <1>2, <1>3

\* Whoever was to die has gone.
LEMMA BuryBuries ==
  ASSUME NEW w, NEW z, IsWorld(w, z)
  PROVE  /\ Buries(Bury(w), w, z)
         /\ \A i \in 1..Len(w) : Bury(w)[i].kind = "player" => Bury(w)[i].dying = <<>>
<1> DEFINE T == Seq(Entity)
           n == Len(w)
           mortal == Vulnerable \cup Projectiles \cup {"wall", "bonus"}
           Next1(u, k) == IF w[k].kind \in mortal THEN Die(u, k) ELSE u
           Solves(f) == f = [k \in 0..n |-> IF k = 0 THEN w ELSE Next1(f[k - 1], k)]
           After == CHOOSE f : Solves(f)
           step == [p \in T \X (1..n) |-> Next1(p[1], p[2])]
           Visited(u, k) == \A i \in 1..k : u[i].kind = "player" => u[i].dying = <<>>
           G(k) == {u \in T : Buries(u, w, z) /\ Visited(u, k)}
           I == [k \in 0..n |-> G(k)]
<1>1. Bury(w) = After[n]
  BY DEF Bury, Sweep
<1>2. w \in G(0) /\ n \in Nat
  BY EntityAt DEF IsWorld, Buries, Survives
<1>3. ASSUME NEW k \in 1..n, NEW u \in G(k - 1) PROVE Next1(u, k) \in G(k)
  <2>1. Buries(u, w, z) /\ IsWorld(u, z) /\ k \in 1..Len(u) /\ Survives(u[k], w[k])
    BY DEF Buries
  <2>2. CASE w[k].kind \in mortal
    <3> DEFINE v == Die(u, k)
    <3>1. k # z
      <4>1. w[z].kind = "zone"
        BY EntityAt DEF Fits
      <4> QED BY <2>2, <4>1 DEF Vulnerable, Projectiles
    <3>2. Buries(v, u, z) /\ (v[k].kind = "gone" \/ v[k].dying = <<>>)
      BY <2>1, <3>1, DieBuries
    <3> HIDE DEF v
    <3>3. Buries(v, w, z)
      BY <2>1, <3>2, BuriesMore
    <3>4. v \in T
      BY <3>3 DEF Buries, IsWorld
    <3>5. Visited(v, k)
      <4> SUFFICES ASSUME NEW i \in 1..k, v[i].kind = "player" PROVE v[i].dying = <<>>
        OBVIOUS
      <4>1. CASE i = k
        BY <3>2, <4>1
      <4>2. CASE i # k
        <5>1. i \in 1..(k - 1) /\ i \in 1..Len(u)
          BY <2>1, <4>2
        <5>2. Survives(v[i], u[i])
          BY <3>2, <5>1 DEF Buries
        <5>3. v[i].kind = u[i].kind /\ v[i].dying = u[i].dying
          BY <5>2 DEF Survives
        <5>4. Visited(u, k - 1)
          OBVIOUS
        <5> QED BY <5>1, <5>3, <5>4
      <4> QED BY <4>1, <4>2
    <3>6. Next1(u, k) = v
      BY <2>2 DEF v
    <3> HIDE DEF Next1, Visited
    <3> QED BY <3>3, <3>4, <3>5, <3>6
  <2>3. CASE w[k].kind \notin mortal
    <3>1. Next1(u, k) = u
      BY <2>3
    <3>2. u[k].kind # "player"
      BY <2>1, <2>3 DEF Survives, Vulnerable
    <3>3. Visited(u, k)
      <4>1. \A i \in 1..k : i = k \/ i \in 1..(k - 1)
        BY <1>2
      <4>2. Visited(u, k - 1)
        OBVIOUS
      <4> QED BY <3>2, <4>1, <4>2
    <3> HIDE DEF Next1, Visited
    <3> QED BY <2>1, <3>1, <3>3
  <2> QED BY <2>2, <2>3
<1> HIDE DEF Next1, Visited
<1>4. /\ w \in I[0] /\ \A k \in 0..n : I[k] = G(k)
      /\ \A k \in 1..n : k - 1 \in 0..n /\ k \in 0..n
  BY <1>2
<1>5. ASSUME NEW k \in 1..n, NEW u \in I[k - 1]
      PROVE  step[<<u, k>>] = Next1(u, k) /\ step[<<u, k>>] \in I[k]
  <2>1. u \in G(k - 1)
    BY <1>4
  <2>2. u \in T
    BY <2>1
  <2> HIDE DEF G, T, I
  <2>3. step[<<u, k>>] = Next1(u, k)
    BY <2>2
  <2> QED BY <1>3, <1>4, <2>1, <2>3
<1> HIDE DEF I, step, n, T, G
<1>6. PICK f : Runs(f, n, w, step) /\ \A k \in 0..n : f[k] \in I[k]
  BY <1>2, <1>4, <1>5, LoopRuns
<1>7. Solves(f)
  <2>1. \A k \in 0..n : k = 0 \/ k \in 1..n
    BY <1>2
  <2> QED BY <1>4, <1>5, <1>6, <2>1 DEF Runs
<1>8. Solves(After)
  <2> HIDE DEF Solves
  <2> QED BY <1>7
<1> HIDE DEF After
<1>9. After[n] \in I[n]
  <2>1. After[0] \in I[0]
    BY <1>2, <1>4, <1>8
  <2>2. \A k \in 1..n : After[k] = Next1(After[k - 1], k)
    BY <1>2, <1>4, <1>8
  <2> HIDE DEF Solves
  <2> QED BY <1>2, <1>3, <1>4, <2>1, <2>2, LoopEnds
<1>10. After[n] \in G(n)
  BY <1>2, <1>4, <1>9
<1> QED BY <1>1, <1>10 DEF G, Visited, n

\* What waits of a player's score is added to it, one a frame.
Scores(e, o) ==
  o.kind = "player" /\ Ones(o.gains) =>
    Ones(e.gains) /\ e.score + Len(e.gains) = o.score + Len(o.gains)

\* One gain of each player goes over into its score.
LEMMA TallyScores ==
  ASSUME NEW w, NEW z, IsWorld(w, z)
  PROVE  LET u == Tally(w)
         IN /\ IsWorld(u, z) /\ Follows(u, w) /\ PlacesKept(u, w) /\ HealthsKept(u, w)
            /\ Len(u) = Len(w)
            /\ \A i \in 1..Len(w) : Scores(u[i], w[i]) /\ u[i].dying = w[i].dying
<1> DEFINE Change(i) ==
             IF w[i].gains = <<>> THEN w[i]
             ELSE [w[i] EXCEPT !.score = @ + Head(w[i].gains), !.gains = Tail(@)]
           f == [i \in 1..Len(w) |-> IF w[i].kind \in {"player"} THEN Change(i) ELSE w[i]]
<1>1. Tally(w) = SubSeq(f, 1, Len(w))
  BY EntityAt DEF Tally, Each
<1>2. ASSUME NEW i \in 1..Len(w)
      PROVE  /\ Fits(f[i], i, Len(w), z) /\ Alike(f[i], w[i])
             /\ PlaceKept(f[i], w[i]) /\ HealthKept(f[i], w[i])
             /\ Scores(f[i], w[i]) /\ f[i].dying = w[i].dying
  <2>1. w[i] \in Entity /\ Fits(w[i], i, Len(w), z)
    BY EntityAt
  <2>2. CASE w[i].kind = "player" /\ w[i].gains # <<>>
    <3> DEFINE q == w[i].gains
               a == w[i].score + Head(q)
               b == Tail(q)
    <3>1. w[i].score \in Nat /\ q \in Seq(Nat) /\ q # <<>>
      BY <2>1, <2>2 DEF Entity
    <3>2. f[i] = [w[i] EXCEPT !.score = a, !.gains = b]
      BY <2>2
    <3> HIDE DEF f, q
    <3>3. Head(q) \in Nat /\ b \in Seq(Nat) /\ a \in Nat
      BY <3>1
    <3>4. Ones(q) => Ones(b) /\ a + Len(b) = w[i].score + Len(q)
      <4> DEFINE S == {ScoreValue}
      <4> SUFFICES ASSUME q \in Seq(S) PROVE b \in Seq(S) /\ a + Len(b) = w[i].score + Len(q)
        BY DEF Ones
      <4>1. Head(q) = 1
        <5>1. Head(q) \in S
          <6> HIDE DEF S
          <6> QED BY <3>1
        <5> QED BY <5>1 DEF ScoreValue
      <4> HIDE DEF S
      <4>2. b \in Seq(S) /\ Len(b) = Len(q) - 1 /\ Len(q) \in Nat
        BY <3>1
      <4> DEFINE n == Len(q)
                 l == Len(b)
                 c == w[i].score
      <4>3. a = c + 1 /\ c \in Nat
        BY <3>1, <4>1
      <4> HIDE DEF b, n, l, c, a
      <4>4. a + l = c + n
        <5>1. n \in Nat /\ l = n - 1
          BY <4>2 DEF n, l
        <5> QED BY <4>3, <5>1
      <4> QED BY <4>2, <4>4 DEF n, l, c
    <3> HIDE DEF a, b
    <3>5. f[i] \in Entity
      BY <2>1, <3>2, <3>3 DEF Entity
    <3>6. /\ f[i].kind = w[i].kind /\ f[i].v = w[i].v /\ f[i].hp = w[i].hp /\ f[i].x = w[i].x
          /\ f[i].contacts = w[i].contacts /\ f[i].dying = w[i].dying /\ f[i].hurt = w[i].hurt
          /\ f[i].score = a /\ f[i].gains = b /\ f[i].since = w[i].since
      BY <2>1, <3>2 DEF Entity
    <3> QED BY <2>1, <2>2, <3>4, <3>5, <3>6 DEF q, Fits, Alike, PlaceKept, HealthKept, Scores
  <2>3. CASE ~(w[i].kind = "player" /\ w[i].gains # <<>>)
    <3>1. f[i] = w[i]
      BY <2>3
    <3> HIDE DEF f
    <3> QED BY <2>1, <3>1 DEF Alike, PlaceKept, HealthKept, Scores
  <2> QED BY <2>2, <2>3
<1> HIDE DEF Change
<1>3. f = [i \in 1..Len(w) |-> f[i]]
  OBVIOUS
<1> HIDE DEF f
<1> DEFINE u == SubSeq(f, 1, Len(w))
<1>4. /\ IsWorld(u, z) /\ Follows(u, w) /\ Len(u) = Len(w)
      /\ \A i \in 1..Len(w) : u[i] = f[i]
      /\ PlacesKept(u, w) /\ HealthsKept(u, w)
  BY <1>2, <1>3, EachOnItsOwn
<1> HIDE DEF u
<1>5. \A i \in 1..Len(w) : Scores(u[i], w[i]) /\ u[i].dying = w[i].dying
  BY <1>2, <1>4
<1> QED BY <1>1, <1>4, <1>5 DEF u

-----------------------------------------------------------------------------
(* Waves.                                                                    *)

\* There is one game zone, and its place is a number.
LEMMA ZoneIsSomewhere ==
  ASSUME NEW w, NEW z, IsWorld(w, z)
  PROVE  ZoneAt(w) \in Int /\ Ids(w, {"zone"}) = {z}
<1>1. DOMAIN w = 1..Len(w) /\ z \in 1..Len(w) /\ \A i \in 1..Len(w) : w[i].kind = "zone" <=> i = z
  BY EntityAt DEF Fits
<1>2. Ids(w, {"zone"}) = {z}
  BY <1>1 DEF Ids
<1>3. w[z].x \in Int
  BY EntityAt DEF Entity
<1>4. {w[y].x : y \in Ids(w, {"zone"})} = {w[z].x}
  BY <1>2
<1>5. Min({w[z].x}) = w[z].x
  BY <1>3, LeastOfTwo
<1> QED BY <1>2, <1>3, <1>4, <1>5 DEF ZoneAt

\* The least of some places of a row.
LEMMA LeastPlace ==
  ASSUME NEW a \in Int, NEW b \in Int, NEW S \in SUBSET (a..b), S # {}
  PROVE  Min(S) \in Int
<1> DEFINE D == {y - a : y \in S}
           m == Min(D)
<1>0. \A y \in S : y \in Int /\ a <= y
  OBVIOUS
<1>1. D \in SUBSET Nat /\ D # {}
  <2>1. \A y \in S : y - a \in Nat
    BY <1>0
  <2> QED BY <2>1, Zenon
<1>2. m \in D /\ \A y \in D : m <= y
  <2> HIDE DEF D
  <2> QED BY <1>1, LeastOf
<1> HIDE DEF m
<1>3. PICK x \in S : m = x - a
  BY <1>2
<1>4. \A y \in S : x <= y
  <2> TAKE y \in S
  <2>1. y - a \in D /\ x \in Int /\ y \in Int
    OBVIOUS
  <2>2. x - a <= y - a
    BY <1>2, <1>3, <2>1
  <2> QED BY <2>1, <2>2
<1>5. \E x1 \in S : \A y \in S : x1 <= y
  BY <1>4
<1>6. Min(S) \in S
  BY <1>5, Zenon DEF Min
<1> QED BY <1>0, <1>6

\* An entity of a wave is placed somewhere.
LEMMA PlaceIsSomewhere ==
  ASSUME NEW w, NEW z, IsWorld(w, z), NEW x \in Int
  PROVE  Place(w, x) \in Int
<1> DEFINE near == {y \in (x - 2)..(x + 2) : Room(w, y)}
<1>1. near \in SUBSET ((x - 2)..(x + 2)) /\ x - 2 \in Int /\ x + 2 \in Int
  OBVIOUS
<1>2. near # {} => Min(near) \in Int
  <2> DEFINE a == x - 2
             b == x + 2
  <2> HIDE DEF near, a, b
  <2>1. near \in SUBSET (a..b) /\ a \in Int /\ b \in Int
    BY <1>1 DEF a, b
  <2> QED BY <2>1, LeastPlace
<1>3. ZoneAt(w) - Margin - 1 \in Int
  BY ZoneIsSomewhere, BoundsAreNumbers
<1>4. Place(w, x) = IF Room(w, x) THEN x ELSE IF near # {} THEN Min(near) ELSE ZoneAt(w) - Margin - 1
  BY DEF Place
<1> HIDE DEF near
<1> QED BY <1>2, <1>3, <1>4

\* A system that does nothing.
LEMMA SteadyStays ==
  ASSUME NEW w, NEW z, IsWorld(w, z)
  PROVE  Steady(w, w, z)
BY EntityAt DEF Steady, Follows, Alike, ScoresKept, ScoreKept, PlacesKept, PlaceKept,
                HealthsKept, HealthKept

\* The list of requests loses its first.
LEMMA WaveTaken ==
  ASSUME NEW w, NEW z, IsWorld(w, z), NEW s \in 1..Len(w), w[s].waves # <<>>
  PROVE  LET u == Took(w, s, "waves")
         IN /\ Steady(u, w, z) /\ Len(u) = Len(w)
            /\ Len(u[s].waves) = Len(w[s].waves) - 1
<1> DEFINE q == Tail(w[s].waves)
           e == [w[s] EXCEPT !.waves = q]
           u == [w EXCEPT ![s] = e]
<1>1. w[s] \in Entity /\ Fits(w[s], s, Len(w), z) /\ DOMAIN w = 1..Len(w)
  BY EntityAt
<1>2. Took(w, s, "waves") = u
  BY <1>1 DEF Took
<1>3. q \in Seq(Request) /\ Len(q) = Len(w[s].waves) - 1
  <2> DEFINE r == w[s].waves
  <2>1. r \in Seq(Request) /\ r # <<>>
    BY <1>1 DEF Entity
  <2> HIDE DEF r
  <2>2. Tail(r) \in Seq(Request) /\ Len(Tail(r)) = Len(r) - 1
    BY <2>1
  <2> QED BY <2>2 DEF r
<1> HIDE DEF q
<1>4. e \in Entity
  BY <1>1, <1>3 DEF Entity
<1>5. /\ e.kind = w[s].kind /\ e.v = w[s].v /\ e.hp = w[s].hp /\ e.contacts = w[s].contacts
      /\ e.x = w[s].x /\ e.dying = w[s].dying /\ e.score = w[s].score /\ e.gains = w[s].gains
      /\ e.since = w[s].since /\ e.hurt = w[s].hurt /\ e.waves = q
  BY <1>1 DEF Entity
<1> HIDE DEF e
<1>6. Fits(e, s, Len(w), z) /\ Alike(e, w[s]) /\ ScoreKept(e, w[s]) /\ PlaceKept(e, w[s])
      /\ HealthKept(e, w[s])
  BY <1>1, <1>4, <1>5 DEF Fits, Alike, ScoreKept, PlaceKept, HealthKept
<1>7. /\ IsWorld(u, z) /\ Follows(u, w) /\ Len(u) = Len(w)
      /\ u[s] = e /\ \A j \in 1..Len(w) : j # s => u[j] = w[j]
      /\ ScoresKept(u, w) /\ PlacesKept(u, w)
  BY <1>6, OneChanged
<1> HIDE DEF u
<1>8. HealthsKept(u, w)
  BY <1>6, <1>7 DEF HealthsKept, HealthKept
<1> QED BY <1>2, <1>3, <1>5, <1>7, <1>8 DEF Steady

\* A request of a wave is served, and the list loses its first.
LEMMA RequestServed ==
  ASSUME NEW w, NEW z, IsWorld(w, z), NEW s \in 1..Len(w), w[s].waves # <<>>, NEW request \in Request
  PROVE  LET u == Took(Append(w, Prefab(request.kind, Place(w, ZoneAt(w) + request.at))), s, "waves")
         IN Steady(u, w, z) /\ s \in 1..Len(u) /\ Len(u[s].waves) = Len(w[s].waves) - 1
<1> DEFINE x == Place(w, ZoneAt(w) + request.at)
           e == Prefab(request.kind, x)
           v == Append(w, e)
           u == Took(v, s, "waves")
<1>1. request.kind \in Kinds \ {"player", "zone"} /\ request.at \in Int
  BY DEF Request
<1>2. x \in Int
  <2>1. ZoneAt(w) + request.at \in Int
    BY <1>1, ZoneIsSomewhere
  <2> QED BY <2>1, PlaceIsSomewhere
<1> HIDE DEF x
<1>3. Newcomer(e)
  BY <1>1, <1>2, PrefabIsNew
<1> HIDE DEF e
<1>4. Steady(v, w, z) /\ s \in 1..Len(v) /\ v[s] = w[s]
  <2> DEFINE one == <<e>>
  <2>1. w \in Seq(Entity) /\ e \in Entity /\ Len(w) \in Nat
    BY <1>3, EntityAt DEF IsWorld, Newcomer
  <2>2. one \in Seq(Entity) /\ \A k \in 1..Len(one) : Newcomer(one[k])
    BY <1>3, <2>1
  <2>3. v = w \o one /\ s \in 1..Len(v) /\ v[s] = w[s]
    BY <2>1
  <2> HIDE DEF one, v
  <2> QED BY <2>2, <2>3, NewcomersSteady
<1> HIDE DEF v
<1>5. IsWorld(v, z) /\ v[s].waves # <<>>
  BY <1>4 DEF Steady
<1>6. Steady(u, v, z) /\ Len(u) = Len(v) /\ Len(u[s].waves) = Len(v[s].waves) - 1
  BY <1>4, <1>5, WaveTaken
<1> HIDE DEF u
<1>7. Steady(u, w, z)
  BY <1>4, <1>6, SteadyOn
<1> QED BY <1>4, <1>6, <1>7 DEF u, v, e, x

\* A spawner serves the requests that the zone has reached; its list never runs out on the way.
LEMMA ServeSteady ==
  ASSUME NEW w, NEW z, IsWorld(w, z), NEW s \in 1..Len(w)
  PROVE  Steady(Serve(w, s), w, z)
<1> DEFINE T == Seq(Entity)
           waves == w[s].waves
           n == Len(waves)
           late(u, k) == waves[k].trigger > ZoneAt(u)
           served(u, k) ==
             Took(Append(u, Prefab(waves[k].kind, Place(u, ZoneAt(u) + waves[k].at))), s, "waves")
           Next1(u, k) == IF late(u, k) THEN u ELSE served(u, k)
           Solves(f) == f = [k \in 0..n |-> IF k = 0 THEN w ELSE Next1(f[k - 1], k)]
           After == CHOOSE f : Solves(f)
           step == [p \in T \X (1..n) |-> Next1(p[1], p[2])]
           G(k) == {u \in T : Steady(u, w, z) /\ s \in 1..Len(u) /\ Len(u[s].waves) >= n - k}
           I == [k \in 0..n |-> G(k)]
<1>1. Serve(w, s) = After[n]
  BY DEF Serve
<1>2. waves \in Seq(Request) /\ n \in Nat
  <2>1. waves \in Seq(Request)
    BY EntityAt DEF Entity
  <2> QED BY <2>1
<1>3. w \in G(0)
  BY <1>2, SteadyStays DEF IsWorld
<1>4. ASSUME NEW k \in 1..n, NEW u \in G(k - 1) PROVE Next1(u, k) \in G(k)
  <2>1. Steady(u, w, z) /\ s \in 1..Len(u) /\ IsWorld(u, z)
    BY DEF Steady
  <2>2. u[s].waves \in Seq(Request)
    BY <2>1, EntityAt DEF Entity
  <2> DEFINE l == Len(u[s].waves)
  <2>3. l \in Nat /\ l >= n - (k - 1)
    BY <2>2
  <2>4. u[s].waves # <<>>
    BY <1>2, <2>2, <2>3
  <2>5. CASE late(u, k)
    <3>1. Next1(u, k) = u /\ l >= n - k
      BY <1>2, <2>3, <2>5
    <3> HIDE DEF Next1, n
    <3> QED BY <2>1, <3>1
  <2>6. CASE ~late(u, k)
    <3> DEFINE v == served(u, k)
    <3>1. waves[k] \in Request
      BY <1>2
    <3> HIDE DEF waves
    <3>2. Steady(v, u, z) /\ s \in 1..Len(v) /\ Len(v[s].waves) = l - 1
      BY <2>1, <2>4, <3>1, RequestServed
    <3>3. Next1(u, k) = v
      BY <2>6
    <3> HIDE DEF v, Next1, n, l
    <3>4. Steady(v, w, z)
      BY <2>1, <3>2, SteadyOn
    <3>5. v \in T
      BY <3>4 DEF Steady, IsWorld
    <3>6. Len(v[s].waves) >= n - k
      BY <1>2, <2>3, <3>2
    <3> QED BY <3>2, <3>3, <3>4, <3>5, <3>6
  <2> QED BY <2>5, <2>6
<1> HIDE DEF Next1
<1>5. /\ w \in I[0] /\ \A k \in 0..n : I[k] = G(k)
      /\ \A k \in 1..n : k - 1 \in 0..n /\ k \in 0..n
  BY <1>2, <1>3
<1>6. ASSUME NEW k \in 1..n, NEW u \in I[k - 1]
      PROVE  step[<<u, k>>] = Next1(u, k) /\ step[<<u, k>>] \in I[k]
  <2>1. u \in G(k - 1)
    BY <1>5
  <2>2. u \in T
    BY <2>1
  <2> HIDE DEF G, T, I
  <2>3. step[<<u, k>>] = Next1(u, k)
    BY <2>2
  <2> QED BY <1>4, <1>5, <2>1, <2>3
<1> HIDE DEF I, step, n, T, G
<1>7. PICK f : Runs(f, n, w, step) /\ \A k \in 0..n : f[k] \in I[k]
  BY <1>2, <1>5, <1>6, LoopRuns
<1>8. Solves(f)
  <2>1. \A k \in 0..n : k = 0 \/ k \in 1..n
    BY <1>2
  <2> QED BY <1>5, <1>6, <1>7, <2>1 DEF Runs
<1>9. Solves(After)
  <2> HIDE DEF Solves
  <2> QED BY <1>8
<1> HIDE DEF After
<1>10. After[n] \in I[n]
  <2>1. After[0] \in I[0]
    BY <1>2, <1>5, <1>9
  <2>2. \A k \in 1..n : After[k] = Next1(After[k - 1], k)
    BY <1>2, <1>5, <1>9
  <2> HIDE DEF Solves
  <2> QED BY <1>2, <1>4, <1>5, <2>1, <2>2, LoopEnds
<1>11. After[n] \in G(n)
  BY <1>2, <1>5, <1>10
<1> QED BY <1>1, <1>11 DEF G

\* All spawners do.
LEMMA SpawnSteady ==
  ASSUME NEW w, NEW z, IsWorld(w, z)
  PROVE  Steady(Spawn(w), w, z)
<1> DEFINE T == Seq(Entity)
           n == Len(w)
           Next1(u, k) == IF w[k].kind \in {"spawner"} THEN Serve(u, k) ELSE u
           Solves(f) == f = [k \in 0..n |-> IF k = 0 THEN w ELSE Next1(f[k - 1], k)]
           After == CHOOSE f : Solves(f)
           step == [p \in T \X (1..n) |-> Next1(p[1], p[2])]
           G == {u \in T : Steady(u, w, z)}
           I == [k \in 0..n |-> G]
<1>1. Spawn(w) = After[n]
  BY DEF Spawn, Sweep
<1>2. w \in G /\ n \in Nat
  BY SteadyStays, EntityAt DEF IsWorld
<1>3. ASSUME NEW u \in G, NEW k \in 1..n PROVE Next1(u, k) \in G
  <2>1. Steady(u, w, z) /\ IsWorld(u, z) /\ k \in 1..Len(u)
    <3>1. Steady(u, w, z) /\ Len(w) <= Len(u)
      BY DEF Steady, Follows
    <3>2. IsWorld(u, z) /\ Len(u) \in Nat
      BY <3>1, EntityAt DEF Steady
    <3> QED BY <1>2, <3>1, <3>2
  <2>2. Steady(Serve(u, k), u, z)
    BY <2>1, ServeSteady
  <2>3. Steady(Serve(u, k), w, z)
    BY <2>1, <2>2, SteadyOn
  <2>4. Serve(u, k) \in T
    BY <2>3 DEF Steady, IsWorld
  <2> QED BY <2>3, <2>4
<1> HIDE DEF Next1
<1>4. /\ w \in I[0] /\ \A k \in 0..n : I[k] = G
      /\ \A k \in 1..n : k - 1 \in 0..n /\ k \in 0..n
  BY <1>2
<1>5. ASSUME NEW k \in 1..n, NEW u \in I[k - 1]
      PROVE  step[<<u, k>>] = Next1(u, k) /\ step[<<u, k>>] \in I[k]
  <2>1. u \in G
    BY <1>4
  <2>2. u \in T
    BY <2>1
  <2> HIDE DEF G, T, I
  <2>3. step[<<u, k>>] = Next1(u, k)
    BY <2>2
  <2> QED BY <1>3, <1>4, <2>1, <2>3
<1> HIDE DEF I, step, n, T, G
<1>6. PICK f : Runs(f, n, w, step) /\ \A k \in 0..n : f[k] \in I[k]
  BY <1>2, <1>4, <1>5, LoopRuns
<1>7. Solves(f)
  <2>1. \A k \in 0..n : k = 0 \/ k \in 1..n
    BY <1>2
  <2> QED BY <1>4, <1>5, <1>6, <2>1 DEF Runs
<1>8. Solves(After)
  <2> HIDE DEF Solves
  <2> QED BY <1>7
<1> HIDE DEF After
<1>9. After[n] \in I[n]
  <2>1. After[0] \in I[0]
    BY <1>2, <1>4, <1>8
  <2>2. \A k \in 1..n : After[k] = Next1(After[k - 1], k)
    BY <1>2, <1>4, <1>8
  <2> HIDE DEF Solves
  <2> QED BY <1>2, <1>3, <1>4, <2>1, <2>2, LoopEnds
<1>10. After[n] \in G
  BY <1>2, <1>4, <1>9
<1> QED BY <1>1, <1>10 DEF G

-----------------------------------------------------------------------------
(* The sum of what waits.                                                    *)

\* The greatest of some of the first numbers is one of them.
LEMMA GreatestOf ==
  ASSUME NEW n \in Nat, NEW S \in SUBSET (1..n), S # {}
  PROVE  Max(S) \in S
<1> DEFINE D == {n - y : y \in S}
           m == Min(D)
<1>0. \A y \in S : y \in Nat /\ y <= n
  OBVIOUS
<1>1. D \in SUBSET Nat /\ D # {}
  <2>1. \A y \in S : n - y \in Nat
    BY <1>0
  <2> QED BY <2>1, Zenon
<1>2. m \in D /\ \A y \in D : m <= y
  <2> HIDE DEF D
  <2> QED BY <1>1, LeastOf
<1> HIDE DEF m
<1>3. PICK x \in S : m = n - x
  BY <1>2
<1>4. \A y \in S : x >= y
  <2> TAKE y \in S
  <2>1. n - y \in D /\ x \in Nat /\ y \in Nat
    BY <1>0
  <2>2. n - x <= n - y
    BY <1>2, <1>3, <2>1
  <2> QED BY <2>1, <2>2
<1>5. \E x1 \in S : \A y \in S : x1 >= y
  BY <1>4
<1> QED BY <1>5, Zenon DEF Max

\* Ones add up to how many they are. The recursion behind FoldLeft is solved by
\* the size of the set it is at.
LEMMA OnesAddUp ==
  ASSUME NEW q, Ones(q)
  PROVE  FoldLeft(+, 0, q) = Len(q)
<1> DEFINE n == Len(q)
           Def(h, s) == IF s = {} THEN 0 ELSE h[s \ {Max(s)}] + q[Max(s)]
           Solves(h) == h = [s \in SUBSET (1..n) |-> Def(h, s)]
           h == CHOOSE h : Solves(h)
           I == [i \in 0..n |-> {i}]
           g == [i \in 0..n |-> h[1..i]]
<1>1. n \in Nat /\ DOMAIN q = 1..n /\ \A i \in 1..n : q[i] = 1
  BY DEF Ones, ScoreValue
<1>2. FoldLeft(+, 0, q) = h[1..n]
  BY <1>1 DEF FoldLeft, MapThenFoldSet
<1> HIDE DEF n
<1>3. \E f : Solves(f)
  <2> DEFINE f == [s \in SUBSET (1..n) |-> Cardinality(s)]
  <2>1. ASSUME NEW s \in SUBSET (1..n) PROVE Cardinality(s) = Def(f, s)
    <3>1. IsFiniteSet(s)
      <4>1. 1 \in Int /\ n \in Int
        BY <1>1
      <4>2. IsFiniteSet(1..n)
        BY <4>1, FS_Interval
      <4> QED BY <4>2, FS_Subset
    <3>2. CASE s = {}
      BY <3>2, FS_EmptySet
    <3>3. CASE s # {}
      <4>1. Max(s) \in s
        BY <1>1, <3>3, GreatestOf
      <4> DEFINE m == Max(s)
      <4>2. Cardinality(s \ {m}) = Cardinality(s) - 1 /\ Cardinality(s) \in Nat
        BY <3>1, <4>1, FS_RemoveElement, FS_CardinalityType
      <4>3. s \ {m} \in SUBSET (1..n) /\ q[m] = 1
        BY <1>1, <4>1
      <4> HIDE DEF m
      <4>4. f[s \ {m}] = Cardinality(s) - 1
        BY <4>2, <4>3
      <4> HIDE DEF f
      <4>5. f[s \ {m}] + q[m] = Cardinality(s)
        BY <4>2, <4>3, <4>4
      <4> QED BY <3>3, <4>5 DEF m
    <3> QED BY <3>2, <3>3
  <2>2. f = [s \in SUBSET (1..n) |-> Def(f, s)]
    <3> HIDE DEF Def
    <3> QED BY <2>1
  <2> HIDE DEF f, Def
  <2> QED BY <2>2
<1>4. Solves(h)
  <2> HIDE DEF Solves
  <2> QED BY <1>3
<1> HIDE DEF h
<1>5. g[0] = 0
  <2>1. 1..0 = {} /\ {} \in SUBSET (1..n)
    OBVIOUS
  <2>2. h[{}] = 0
    BY <1>4, <2>1
  <2> QED BY <1>1, <2>1, <2>2
<1>6. ASSUME NEW i \in 1..n, g[i - 1] = i - 1 PROVE g[i] = i
  <2>1. i \in Nat /\ i - 1 \in 0..n /\ i \in 0..n /\ q[i] = 1 /\ 1..i \in SUBSET (1..n) /\ 1..i # {}
    BY <1>1
  <2>2. Max(1..i) = i
    <3>1. Max(1..i) \in 1..i /\ \A y \in 1..i : Max(1..i) >= y
      <4>1. i \in 1..i /\ \A y \in 1..i : i >= y
        BY <2>1
      <4>2. \E x \in 1..i : \A y \in 1..i : x >= y
        BY <4>1
      <4> QED BY <4>2, Zenon DEF Max
    <3> QED BY <2>1, <3>1
  <2>3. (1..i) \ {i} = 1..(i - 1)
    BY <2>1
  <2>4. h[1..i] = h[1..(i - 1)] + q[i]
    BY <1>4, <2>1, <2>2, <2>3
  <2>5. g[i] = h[1..i] /\ g[i - 1] = h[1..(i - 1)]
    BY <2>1
  <2> HIDE DEF g
  <2> QED BY <1>6, <2>1, <2>4, <2>5
<1>7. /\ g[0] \in I[0] /\ I[n] = {n}
      /\ \A i \in 1..n : I[i - 1] = {i - 1} /\ I[i] = {i}
  BY <1>1, <1>5
<1> HIDE DEF I
<1>8. g[n] \in I[n]
  <2> HIDE DEF g
  <2>1. \A i \in 1..n : g[i - 1] \in I[i - 1] => g[i] \in I[i]
    BY <1>6, <1>7
  <2> QED BY <1>1, <1>7, <2>1, LoopEnds
<1>9. g[n] = h[1..n]
  BY <1>1
<1> HIDE DEF g
<1> QED BY <1>2, <1>7, <1>8, <1>9 DEF n

-----------------------------------------------------------------------------
(* A frame.                                                                  *)

\* What the systems before the destruction of the dead make of a player, and of one that
\* no other player's shot has hit.
Lasts(e, o) == e.hp >= o.hp - 1
Aged(e, o) == e.hurt = <<>> /\ (e.hp < o.hp => o.since + 1 >= Grace /\ e.since = 0)

\* The players a shot's hit of this frame or an earlier hit spares no cooldown.
Struck(acted, p) == ShotAt(acted, p) \/ registry[p].hurt # <<>>

\* The systems of a frame, from the triggers to the stop.
LEMMA SystemsAge ==
  ASSUME NEW z, IsWorld(registry, z), NEW aim, NEW held, NEW lua, NEW upwards,
         \A p \in Ids(registry, {"player"}) : aim[p] \in -3..3
  PROVE  LET acted == Contacts(aim, held, lua, upwards)
             u == Systems(acted)
         IN /\ Carries(u, registry, z)
            /\ \A p \in 1..Len(registry) : registry[p].kind = "player" =>
                 /\ p \in Ids(acted, {"player"}) /\ Lasts(u[p], registry[p])
                 /\ Struck(acted, p) \/ Aged(u[p], registry[p])
<1> DEFINE w == registry
           w1 == Trigger(w, held)
           w2 == Script(w1, lua)
           w3 == Steer(w2, aim)
           w4 == Contact(w3, upwards)
           acted == Interact(w4)
           w5 == Move(acted)
           w6 == Shoot(w5)
           w7 == Age(w6)
           w8 == Wounded(w7)
           w9 == Doomed(w8)
           w10 == Bound(w9)
           u == Halt(w10)
<1>1. Contacts(aim, held, lua, upwards) = acted /\ Systems(acted) = u
  BY DEF Contacts, Systems, Wound
<1>2. Steady(w2, w, z)
  <2>1. Steady(w1, w, z)
    BY TriggerSteady
  <2> HIDE DEF w1, w
  <2>2. Steady(w2, w1, z)
    BY <2>1, ScriptSteady DEF Steady
  <2> HIDE DEF w2
  <2> QED BY <2>1, <2>2, SteadyOn DEF w
<1>3. \A p \in Ids(w2, {"player"}) : aim[p] \in -3..3
  <2> HIDE DEF w2
  <2> SUFFICES ASSUME NEW p \in Ids(w2, {"player"}) PROVE p \in Ids(w, {"player"})
    OBVIOUS
  <2>1. IsWorld(w2, z) /\ Follows(w2, w)
    BY <1>2 DEF Steady
  <2>2. p \in 1..Len(w2) /\ w2[p].kind = "player"
    BY <2>1, EntityAt DEF Ids
  <2>3. p \in 1..Len(w) /\ Alike(w2[p], w[p])
    BY <2>1, <2>2 DEF Follows
  <2> QED BY <2>2, <2>3, EntityAt DEF Alike, Ids
<1> HIDE DEF w, w2
<1>4. IsWorld(w, z)
  BY DEF w
<1>5. Steady(w4, w, z)
  <2>1. Steady(w3, w2, z)
    BY <1>2, <1>3, SteerSteady DEF Steady
  <2> HIDE DEF w3
  <2>2. Steady(w4, w3, z)
    BY <2>1, ContactSteady DEF Steady
  <2> HIDE DEF w4
  <2>3. Steady(w3, w, z)
    BY <1>2, <1>4, <2>1, SteadyOn
  <2> QED BY <1>4, <2>2, <2>3, SteadyOn
<1> HIDE DEF w4
<1>6. IsWorld(w4, z) /\ Carries(w4, w, z) /\ HealthsKept(w4, w)
  BY <1>4, <1>5, SteadyCarries DEF Steady
<1>7. Carries(acted, w4, z) /\ \A i \in 1..Len(w4) : Fought(acted[i], w4[i], Shots(acted))
  BY <1>6, InteractFights
<1> HIDE DEF acted
<1>8. Carries(w7, acted, z) /\ HealthsKept(w7, acted)
  <2>1. IsWorld(acted, z)
    BY <1>7 DEF Carries
  <2>2. Carries(w5, acted, z) /\ HealthsKept(w5, acted)
    BY <2>1, MoveMoves DEF Moved
  <2> HIDE DEF w5
  <2>3. IsWorld(w5, z)
    BY <2>2 DEF Carries
  <2>4. Steady(w6, w5, z)
    BY <2>3, ShootSteady
  <2> HIDE DEF w6
  <2>5. Steady(w7, w6, z)
    BY <2>4, AgeSteady DEF Steady
  <2> HIDE DEF w7
  <2>6. Steady(w7, w5, z)
    BY <2>3, <2>4, <2>5, SteadyOn
  <2>7. Carries(w7, w5, z) /\ HealthsKept(w7, w5)
    BY <2>3, <2>6, SteadyCarries
  <2>8. Carries(w7, acted, z)
    BY <2>1, <2>2, <2>7, CarriesOn
  <2> QED BY <2>1, <2>2, <2>7, <2>8, OneAfterAnother DEF Carries
<1> HIDE DEF w7
<1>9. Carries(w8, w7, z) /\ \A i \in 1..Len(w7) : Wounds(w8[i], w7[i])
  BY <1>8, WoundedWounds DEF Carries
<1> HIDE DEF w8
<1>10. Carries(u, w8, z) /\ HealthsKept(u, w8)
  <2>1. IsWorld(w8, z)
    BY <1>9 DEF Carries
  <2>2. Steady(w9, w8, z)
    BY <2>1, DoomedSteady
  <2> HIDE DEF w9
  <2>3. Steady(w10, w9, z)
    BY <2>2, BoundSteady DEF Steady
  <2> HIDE DEF w10
  <2>4. Steady(u, w10, z)
    BY <2>3, HaltSteady DEF Steady
  <2> HIDE DEF u
  <2>5. Steady(w10, w8, z)
    BY <2>1, <2>2, <2>3, SteadyOn
  <2>6. Steady(u, w8, z)
    BY <2>1, <2>4, <2>5, SteadyOn
  <2> QED BY <2>1, <2>6, SteadyCarries
<1> HIDE DEF u
<1>11. Carries(u, w, z)
  <2>1. Carries(acted, w, z)
    BY <1>4, <1>6, <1>7, CarriesOn
  <2>2. Carries(w7, w, z)
    BY <1>4, <1>8, <2>1, CarriesOn
  <2>3. Carries(w8, w, z)
    BY <1>4, <1>9, <2>2, CarriesOn
  <2> QED BY <1>4, <1>10, <2>3, CarriesOn
<1>12. ASSUME NEW p \in 1..Len(w), w[p].kind = "player"
       PROVE  /\ p \in Ids(acted, {"player"}) /\ Lasts(u[p], w[p])
              /\ Struck(acted, p) \/ Aged(u[p], w[p])
  <2>1. w4[p].kind = "player" /\ p \in 1..Len(w4) /\ w4[p] \in Entity
        /\ w4[p].hp = w[p].hp /\ w4[p].hurt = w[p].hurt /\ w4[p].since = w[p].since
    <3>1. p \in 1..Len(w4) /\ Alike(w4[p], w[p]) /\ HealthKept(w4[p], w[p])
      BY <1>6, EntityAt, <1>4 DEF Carries, Follows, HealthsKept
    <3> QED BY <1>6, <1>12, <3>1, EntityAt DEF Alike, HealthKept
  <2>2. acted[p].kind = "player" /\ p \in 1..Len(acted) /\ acted[p] \in Entity
        /\ Fought(acted[p], w4[p], Shots(acted))
    <3>1. p \in 1..Len(acted) /\ Alike(acted[p], w4[p])
      BY <1>6, <1>7, <2>1, EntityAt DEF Carries, Follows
    <3> QED BY <1>7, <2>1, <3>1, EntityAt DEF Alike, Carries
  <2>3. w7[p].kind = "player" /\ p \in 1..Len(w7) /\ w7[p] \in Entity
        /\ w7[p].hp = acted[p].hp /\ w7[p].hurt = acted[p].hurt /\ w7[p].since = acted[p].since
    <3>1. p \in 1..Len(w7) /\ Alike(w7[p], acted[p]) /\ HealthKept(w7[p], acted[p])
      BY <1>7, <1>8, <2>2, EntityAt DEF Carries, Follows, HealthsKept
    <3> QED BY <1>8, <2>2, <3>1, EntityAt DEF Alike, HealthKept, Carries
  <2>4. w8[p].kind = "player" /\ p \in 1..Len(w8) /\ Wounds(w8[p], w7[p])
    <3>1. p \in 1..Len(w8) /\ Alike(w8[p], w7[p])
      BY <1>8, <1>9, <2>3, EntityAt DEF Carries, Follows
    <3> QED BY <1>9, <2>3, <3>1 DEF Alike
  <2>5. u[p].hp = w8[p].hp /\ u[p].hurt = w8[p].hurt /\ u[p].since = w8[p].since
    BY <1>10, <2>4 DEF HealthsKept, HealthKept
  <2>6. w4[p].hp \in Int /\ acted[p].hp \in Int /\ w7[p].hurt \in Seq(Nat)
    BY <2>1, <2>2, <2>3 DEF Entity
  <2>12. DOMAIN acted = 1..Len(acted) /\ DOMAIN acted[p].hurt = 1..Len(acted[p].hurt)
    <3>1. IsWorld(acted, z)
      BY <1>7 DEF Carries
    <3>2. acted[p].hurt \in Seq(Nat)
      BY <2>2 DEF Entity
    <3> QED BY <3>1, <3>2, EntityAt
  <2>13. p \in Ids(acted, {"player"}) /\ (HasShot(acted[p].hurt, Shots(acted)) => ShotAt(acted, p))
    BY <2>2, <2>12 DEF Ids, HasShot, Shots, ShotAt
  <2>7. /\ acted[p].hp >= w[p].hp
        /\ \/ Struck(acted, p)
           \/ acted[p].hurt = <<>>
           \/ w[p].since + 1 >= Grace /\ acted[p].since = 0 /\ Len(acted[p].hurt) = 1
    <3>1. Len(<<>>) + 1 = 1
      OBVIOUS
    <3>2. CASE w[p].hurt # <<>>
      BY <1>12, <2>1, <2>2, <3>2 DEF Fought, Struck, w
    <3>3. CASE w[p].hurt = <<>>
      BY <1>12, <2>1, <2>2, <2>13, <3>1, <3>3 DEF Fought, Struck
    <3> QED BY <3>2, <3>3
  <2>8. /\ u[p].since = acted[p].since
        /\ IF acted[p].hurt = <<>> THEN u[p].hp = acted[p].hp /\ u[p].hurt = <<>>
           ELSE u[p].hp = acted[p].hp - 1 /\ u[p].hurt = Tail(acted[p].hurt)
    BY <2>3, <2>4, <2>5 DEF Wounds
  <2>9. Len(acted[p].hurt) = 1 => Tail(acted[p].hurt) = <<>> /\ acted[p].hurt # <<>>
    <3> DEFINE q == acted[p].hurt
    <3>1. q \in Seq(Nat)
      BY <2>3, <2>6
    <3> HIDE DEF q
    <3>2. ASSUME Len(q) = 1 PROVE Tail(q) = <<>> /\ q # <<>>
      <4>1. q # <<>>
        BY <3>2
      <4>2. Tail(q) \in Seq(Nat) /\ Len(Tail(q)) = 0
        BY <3>1, <3>2, <4>1
      <4> DEFINE t == Tail(q)
      <4>3. t \in Seq(Nat) /\ Len(t) = 0
        BY <4>2
      <4> HIDE DEF t
      <4>4. t = <<>>
        BY <4>3
      <4> QED BY <4>1, <4>4 DEF t
    <3> QED BY <3>2 DEF q
  <2>10. w[p].hp \in Int
    BY <2>1, <2>6
  <2> DEFINE a == acted[p].hp
             b == w[p].hp
             c == u[p].hp
  <2>11. c >= b - 1 /\ (acted[p].hurt = <<>> => ~ c < b)
    <3>1. a \in Int /\ b \in Int /\ a >= b /\ (c = a \/ c = a - 1) /\ (acted[p].hurt = <<>> => c = a)
      BY <2>6, <2>7, <2>8, <2>10
    <3> HIDE DEF a, b, c
    <3> QED BY <3>1
  <2> QED BY <2>7, <2>8, <2>9, <2>11, <2>13 DEF Aged, Lasts
<1> QED BY <1>1, <1>11, <1>12 DEF w

\* A player that no other player's shot has hit has no hit waiting between frames; each is
\* inside the game zone, and what it was credited with is its score or waits.
Sound(p, z) ==
  /\ Inside(registry[p], registry[z])
  /\ p \in friendly \/ registry[p].hurt = <<>>
  /\ Ones(registry[p].gains)
  /\ earned[p] = registry[p].score + Len(registry[p].gains)

WorldInv ==
  \E z : /\ IsWorld(registry, z)
         /\ \A p \in 1..Len(registry) : registry[p].kind = "player" => Sound(p, z)

\* What a frame makes of the players that are left.
LEMMA FrameKeeps ==
  ASSUME NEW z, IsWorld(registry, z),
         \A p \in 1..Len(registry) : registry[p].kind = "player" => Sound(p, z),
         Frame
  PROVE  /\ IsWorld(registry', z)
         /\ \A p \in 1..Len(registry') : registry'[p].kind = "player" =>
              /\ p \in 1..Len(registry) /\ registry[p].kind = "player"
              /\ Sound(p, z)' /\ Lasts(registry'[p], registry[p])
              /\ p \in friendly' \/ Aged(registry'[p], registry[p])
<1> DEFINE w == registry
<1>1. PICK held \in SUBSET Ids(registry, {"player"}),
           aim \in [Ids(registry, {"player"}) -> UNION {Aims[p] : p \in Players}],
           lua \in [Ids(registry, {"mob"}) -> {"advance", "shoot"}],
           upwards \in BOOLEAN :
             /\ \A p \in DOMAIN aim : aim[p] \in Aims[p]
             /\ Update(aim, held, lua, upwards)
  BY DEF Frame
<1> DEFINE acted == Contacts(aim, held, lua, upwards)
           before == Systems(acted)
           buried == Bury(before)
           tallied == Tally(buried)
           after == Spawn(tallied)
<1>2. \A p \in Ids(registry, {"player"}) : aim[p] \in -3..3
  <2> SUFFICES ASSUME NEW p \in Ids(registry, {"player"}) PROVE aim[p] \in -3..3
    OBVIOUS
  <2>1. p \in Players
    BY EntityAt DEF Ids, Fits
  <2>2. Aims[p] \subseteq -Fastest..Fastest
    BY <2>1, WorldConstants
  <2>3. Aims[p] \subseteq -3..3
    BY <2>2 DEF Fastest
  <2> QED BY <1>1, <2>3
<1>3. /\ Carries(before, w, z)
      /\ \A p \in 1..Len(w) : w[p].kind = "player" =>
           /\ p \in Ids(acted, {"player"}) /\ Lasts(before[p], w[p])
           /\ Struck(acted, p) \/ Aged(before[p], w[p])
  BY <1>2, SystemsAge
<1>12. ASSUME NEW p \in 1..Len(w), w[p].kind = "player"
       PROVE  Lasts(before[p], w[p]) /\ (p \in friendly' \/ Aged(before[p], w[p]))
  <2>1. Sound(p, z)
    BY <1>12
  <2>2. friendly' = {q \in Ids(acted, {"player"}) :
                       ShotAt(acted, q) \/ (q \in friendly /\ registry[q].hurt # <<>>)}
    BY <1>1 DEF Update
  <2>3. p \in Ids(acted, {"player"}) /\ Lasts(before[p], w[p]) /\ (Struck(acted, p) \/ Aged(before[p], w[p]))
    BY <1>3, <1>12
  <2> HIDE DEF acted, before
  <2> QED BY <2>1, <2>2, <2>3 DEF Sound, Struck
<1>4. /\ registry' = after
      /\ earned' = [p \in Players |-> earned[p] + Len(buried[p].gains) - Len(w[p].gains)]
  BY <1>1 DEF Update
<1> HIDE DEF before
<1>5. IsWorld(before, z) /\ Within(before, z) /\ Follows(before, w) /\ ScoresKept(before, w)
  <2>1. Within(w, z)
    BY DEF Within, Sound
  <2> QED BY <1>3, <2>1 DEF Carries
<1>6. /\ Buries(buried, before, z)
      /\ \A i \in 1..Len(before) : buried[i].kind = "player" => buried[i].dying = <<>>
  BY <1>5, BuryBuries
<1> HIDE DEF buried
<1>7. /\ IsWorld(tallied, z) /\ Follows(tallied, buried) /\ PlacesKept(tallied, buried)
      /\ HealthsKept(tallied, buried) /\ Len(tallied) = Len(buried)
      /\ \A i \in 1..Len(buried) : Scores(tallied[i], buried[i])
  BY <1>6, TallyScores DEF Buries
<1> HIDE DEF tallied
<1>8. Steady(after, tallied, z)
  BY <1>7, SpawnSteady
<1> HIDE DEF after
<1>9. IsWorld(after, z)
  BY <1>8 DEF Steady
<1>10. after[z].x = before[z].x
  <2>1. z \in 1..Len(buried) /\ buried[z].kind = "zone" /\ IsWorld(buried, z) /\ Len(buried) = Len(before)
    BY <1>6, EntityAt DEF Buries, Fits
  <2>2. Survives(buried[z], before[z])
    BY <1>6, <2>1 DEF Buries
  <2>3. buried[z].x = before[z].x
    BY <2>1, <2>2 DEF Survives
  <2>4. tallied[z].x = buried[z].x /\ z \in 1..Len(tallied)
    BY <1>7, <2>1 DEF PlacesKept, PlaceKept
  <2>5. tallied[z].kind = "zone"
    BY <1>7, EntityAt DEF Fits
  <2>6. after[z].x = tallied[z].x
    BY <1>8, <2>4, <2>5 DEF Steady, PlacesKept, PlaceKept
  <2> QED BY <2>3, <2>4, <2>6
<1>11. ASSUME NEW p \in 1..Len(after), after[p].kind = "player"
       PROVE  /\ p \in 1..Len(w) /\ w[p].kind = "player"
              /\ Sound(p, z)' /\ Lasts(after[p], w[p])
              /\ p \in friendly' \/ Aged(after[p], w[p])
  <2>1. p \in 1..Len(tallied) /\ tallied[p].kind = "player"
    <3>1. p \in 1..Len(tallied)
      BY <1>8, <1>11 DEF Steady, Follows
    <3>2. Alike(after[p], tallied[p])
      BY <1>8, <3>1 DEF Steady, Follows
    <3> QED BY <1>11, <3>1, <3>2 DEF Alike
  <2>2. p \in 1..Len(buried) /\ buried[p].kind = "player" /\ buried[p].dying = <<>> /\ p \in 1..Len(before)
    <3>1. p \in 1..Len(buried) /\ Alike(tallied[p], buried[p]) /\ Len(buried) = Len(before)
      BY <1>6, <1>7, <2>1 DEF Follows, Buries
    <3>2. buried[p].kind = "player"
      BY <2>1, <3>1 DEF Alike
    <3> QED BY <1>6, <3>1, <3>2
  <2>3. /\ before[p].kind = "player" /\ before[p].dying = <<>> /\ buried[p].x = before[p].x
        /\ buried[p].hp = before[p].hp /\ buried[p].since = before[p].since /\ buried[p].hurt = before[p].hurt
        /\ buried[p].score = before[p].score /\ (Ones(before[p].gains) => Ones(buried[p].gains))
    <3>1. Survives(buried[p], before[p])
      BY <1>6, <2>2 DEF Buries
    <3> QED BY <2>2, <3>1 DEF Survives
  <2>4. p \in 1..Len(w) /\ w[p].kind = "player"
    <3>1. p \in 1..Len(w) /\ Alike(before[p], w[p])
      BY <1>5, <2>2, <2>3 DEF Follows
    <3> QED BY <2>3, <3>1 DEF Alike
  <2>5. Sound(p, z)
    BY <2>4
  <2>6. /\ tallied[p].x = buried[p].x /\ tallied[p].hp = buried[p].hp
        /\ tallied[p].since = buried[p].since /\ tallied[p].hurt = buried[p].hurt
        /\ Scores(tallied[p], buried[p])
    BY <1>7, <2>2 DEF PlacesKept, PlaceKept, HealthsKept, HealthKept
  <2>7. /\ after[p].x = tallied[p].x /\ after[p].hp = tallied[p].hp
        /\ after[p].since = tallied[p].since /\ after[p].hurt = tallied[p].hurt
        /\ after[p].score = tallied[p].score /\ after[p].gains = tallied[p].gains
    BY <1>8, <2>1
       DEF Steady, PlacesKept, PlaceKept, HealthsKept, HealthKept, ScoresKept, ScoreKept
  <2>8. Lasts(before[p], w[p]) /\ (p \in friendly' \/ Aged(before[p], w[p]))
    BY <1>12, <2>4
  <2>9. Lasts(after[p], w[p]) /\ (p \in friendly' \/ Aged(after[p], w[p]))
    BY <2>3, <2>6, <2>7, <2>8 DEF Aged, Lasts
  <2>10. Inside(after[p], after[z])
    <3>1. Inside(before[p], before[z])
      BY <1>5, <2>2, <2>3 DEF Within
    <3> QED BY <1>10, <2>3, <2>6, <2>7, <3>1 DEF Inside
  <2>11. p \in friendly' \/ after[p].hurt = <<>>
    BY <2>9 DEF Aged
  <2>12. Ones(after[p].gains) /\ earned'[p] = after[p].score + Len(after[p].gains)
    <3>1. p \in Players
      BY <2>4, EntityAt DEF Fits
    <3>2. before[p].score = w[p].score /\ before[p].gains = w[p].gains
      BY <1>5, <2>4 DEF ScoresKept, ScoreKept
    <3>3. Ones(w[p].gains) /\ earned[p] = w[p].score + Len(w[p].gains)
      BY <2>5 DEF Sound
    <3>4. Ones(after[p].gains) /\ after[p].score + Len(after[p].gains) = w[p].score + Len(buried[p].gains)
      BY <2>2, <2>3, <2>6, <2>7, <3>2, <3>3 DEF Scores
    <3>5. earned'[p] = earned[p] + Len(buried[p].gains) - Len(w[p].gains)
      BY <1>4, <3>1
    <3>6. w[p].score \in Int /\ Len(w[p].gains) \in Int /\ Len(buried[p].gains) \in Int
      <4>1. w[p] \in Entity /\ buried[p] \in Entity
        BY <1>6, <2>2, <2>4, EntityAt DEF Buries
      <4>2. w[p].score \in Nat /\ w[p].gains \in Seq(Nat) /\ buried[p].gains \in Seq(Nat)
        BY <4>1 DEF Entity
      <4> QED BY <4>2
    <3> DEFINE a == w[p].score
               b == Len(w[p].gains)
               c == Len(buried[p].gains)
    <3>7. (a + b) + c - b = a + c
      <4>1. a \in Int /\ b \in Int /\ c \in Int
        BY <3>6
      <4> HIDE DEF a, b, c
      <4> QED BY <4>1
    <3> QED BY <3>3, <3>4, <3>5, <3>7
  <2>13. Sound(p, z)'
    BY <1>4, <2>10, <2>11, <2>12 DEF Sound
  <2> QED BY <2>4, <2>9, <2>13
<1> QED BY <1>4, <1>9, <1>11

\* A map begins with every player inside the game zone, unhurt and without a score.
LEMMA WorldBegins == WorldInit => WorldInv
<1> SUFFICES ASSUME WorldInit PROVE WorldInv
  OBVIOUS
<1>1. IsMap(registry)
  BY WorldConstants DEF WorldInit
<1> DEFINE w == registry
<1>2. PICK z \in DOMAIN w :
        /\ Ids(w, {"zone"}) = {z} /\ w[z].v \in 0..Fastest
        /\ \A p \in Ids(w, {"player"}) : p \in Players /\ w[p].v = 0 /\ Inside(w[p], w[z])
  BY <1>1 DEF IsMap
<1>3. /\ w \in Seq(Entity) /\ DOMAIN w = 1..Len(w) /\ Len(w) \in Nat
      /\ \A i \in 1..Len(w) : w[i] \in Entity
  <2>1. w \in Seq(Entity)
    BY <1>1 DEF IsMap
  <2> HIDE DEF w
  <2> QED BY <2>1
<1>4. ASSUME NEW i \in 1..Len(w)
      PROVE  /\ w[i].contacts = <<>> /\ w[i].hurt = <<>> /\ w[i].gains = <<>>
             /\ w[i].score = 0 /\ (w[i].kind = "bonus" => w[i].hp >= 0)
  <2> DEFINE o == Prefab(w[i].kind, w[i].x)
             e == [o EXCEPT !.v = w[i].v, !.waves = w[i].waves]
  <2>1. w[i] = e
    BY <1>1, <1>3 DEF IsMap
  <2>2. /\ o.contacts = <<>> /\ o.hurt = <<>> /\ o.gains = <<>> /\ o.score = 0
        /\ (w[i].kind = "bonus" => o.hp >= 0)
    BY DEF Prefab
  <2>3. /\ e.contacts = o.contacts /\ e.hurt = o.hurt /\ e.gains = o.gains /\ e.score = o.score
        /\ e.hp = o.hp
    BY DEF Prefab
  <2> HIDE DEF e, o
  <2> QED BY <2>1, <2>2, <2>3
<1>5. IsWorld(w, z)
  <2> SUFFICES ASSUME NEW i \in 1..Len(w) PROVE Fits(w[i], i, Len(w), z)
    BY <1>2, <1>3 DEF IsWorld
  <2>1. w[i].kind = "zone" <=> i = z
    BY <1>2, <1>3 DEF Ids
  <2>2. w[i].kind = "player" => i \in Players /\ w[i].v \in -3..3
    BY <1>2, <1>3 DEF Ids
  <2>3. i = z => w[i].v \in 0..3
    BY <1>2 DEF Fastest
  <2>4. <<>> \in Seq(1..Len(w))
    OBVIOUS
  <2> QED BY <1>3, <1>4, <2>1, <2>2, <2>3, <2>4 DEF Fits
<1>6. ASSUME NEW p \in 1..Len(w), w[p].kind = "player" PROVE Sound(p, z)
  <2>1. p \in Players /\ Inside(w[p], w[z])
    BY <1>2, <1>3, <1>6 DEF Ids
  <2>2. earned[p] = 0
    BY <2>1 DEF WorldInit
  <2>3. Ones(<<>>) /\ Len(<<>>) = 0
    BY DEF Ones
  <2> QED BY <1>4, <2>1, <2>2, <2>3 DEF Sound
<1> QED BY <1>5, <1>6 DEF WorldInv

\* The invariant is inductive.
LEMMA WorldStep == WorldInv /\ [Frame]_worldVars => WorldInv'
<1> SUFFICES ASSUME WorldInv, [Frame]_worldVars PROVE WorldInv'
  OBVIOUS
<1>1. CASE Frame
  <2>1. PICK z : /\ IsWorld(registry, z)
                 /\ \A p \in 1..Len(registry) : registry[p].kind = "player" => Sound(p, z)
    BY DEF WorldInv
  <2>2. /\ IsWorld(registry', z)
        /\ \A p \in 1..Len(registry') : registry'[p].kind = "player" => Sound(p, z)'
    BY <1>1, <2>1, FrameKeeps
  <2> QED BY <2>2 DEF WorldInv
<1>2. CASE UNCHANGED worldVars
  BY <1>2 DEF worldVars, WorldInv, Sound
<1> QED BY <1>1, <1>2

\* It holds in every state.
LEMMA WorldAlways == WorldSpec => []WorldInv
<1> QED BY WorldBegins, WorldStep, PTL DEF WorldSpec

\* The wall of the game zone takes every player along or kills it in the same frame, on every map,
\* whether a player's id is before the zone's or after it, and at every speed up to Fastest.
THEOREM NobodyIsLeftBehind == WorldSpec => []NobodyLeftBehind
<1>1. WorldInv => NobodyLeftBehind
  <2> SUFFICES ASSUME WorldInv,
                      NEW p \in Ids(registry, {"player"}), NEW z \in Ids(registry, {"zone"})
               PROVE  Inside(registry[p], registry[z])
    BY DEF NobodyLeftBehind
  <2>1. PICK y : /\ IsWorld(registry, y)
                 /\ \A q \in 1..Len(registry) : registry[q].kind = "player" => Sound(q, y)
    BY DEF WorldInv
  <2>2. z = y
    BY <2>1, ZoneIsSomewhere
  <2>3. p \in 1..Len(registry) /\ registry[p].kind = "player"
    BY <2>1, EntityAt DEF Ids
  <2> QED BY <2>1, <2>2, <2>3 DEF Sound
<1> QED BY <1>1, WorldAlways, PTL

\* Every kill a living player is credited with is in its score or waits on it.
THEOREM CreditsAreScored == WorldSpec => []CreditsReachTheScore
<1>1. WorldInv => CreditsReachTheScore
  <2> SUFFICES ASSUME WorldInv, NEW p \in Ids(registry, {"player"})
               PROVE  earned[p] = registry[p].score + FoldLeft(+, 0, registry[p].gains)
    BY DEF CreditsReachTheScore
  <2>1. PICK y : /\ IsWorld(registry, y)
                 /\ \A q \in 1..Len(registry) : registry[q].kind = "player" => Sound(q, y)
    BY DEF WorldInv
  <2>2. p \in 1..Len(registry) /\ registry[p].kind = "player"
    BY <2>1, EntityAt DEF Ids
  <2>3. Ones(registry[p].gains) /\ earned[p] = registry[p].score + Len(registry[p].gains)
    BY <2>1, <2>2 DEF Sound
  <2> DEFINE q == registry[p].gains
  <2>4. FoldLeft(+, 0, q) = Len(q)
    BY <2>3, OnesAddUp
  <2> QED BY <2>3, <2>4
<1> QED BY <1>1, WorldAlways, PTL

\* With crossfire or without, a player loses one point of health at most in a frame, and only if
\* its cooldown was over, which the hit starts anew: whoever touches it, in whichever order the
\* contacts are handled, and however many wait. A player that another one's shot hits is the
\* exception, in that frame and as long as hits wait on it.
THEOREM GraceIsKept == WorldSpec => GraceHolds
<1> DEFINE A == \A p \in Ids(registry, {"player"}) \cap Ids(registry', {"player"}) :
                  /\ registry'[p].hp >= registry[p].hp - 1
                  /\ registry'[p].hp < registry[p].hp =>
                       \/ p \in friendly'
                       \/ registry[p].since + 1 >= Grace /\ registry'[p].since = 0
<1>1. WorldInv /\ [Frame]_worldVars => [A]_worldVars
  <2> SUFFICES ASSUME WorldInv, Frame PROVE A
    OBVIOUS
  <2>1. PICK z : /\ IsWorld(registry, z)
                 /\ \A p \in 1..Len(registry) : registry[p].kind = "player" => Sound(p, z)
    BY DEF WorldInv
  <2>2. /\ IsWorld(registry', z)
        /\ \A p \in 1..Len(registry') : registry'[p].kind = "player" =>
             Lasts(registry'[p], registry[p]) /\ (p \in friendly' \/ Aged(registry'[p], registry[p]))
    BY <2>1, FrameKeeps
  <2> SUFFICES ASSUME NEW p \in Ids(registry, {"player"}) \cap Ids(registry', {"player"})
               PROVE  /\ registry'[p].hp >= registry[p].hp - 1
                      /\ registry'[p].hp < registry[p].hp =>
                           \/ p \in friendly'
                           \/ registry[p].since + 1 >= Grace /\ registry'[p].since = 0
    OBVIOUS
  <2>3. p \in 1..Len(registry') /\ registry'[p].kind = "player"
    BY <2>2, EntityAt DEF Ids
  <2> QED BY <2>2, <2>3 DEF Aged, Lasts
<1> HIDE DEF A
<1>2. WorldSpec => [][A]_worldVars
  BY <1>1, WorldAlways, PTL DEF WorldSpec
<1> QED BY <1>2 DEF A, GraceHolds
==============================================================================
